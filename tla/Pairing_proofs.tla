--------------------------- MODULE Pairing_proofs ---------------------------
(***************************************************************************)
(* Theorems about Pairing, for any sets of sessions, agents, devices,      *)
(* recipients, addresses and requests in flight.                           *)
(***************************************************************************)
EXTENDS Pairing, TLAPS

-----------------------------------------------------------------------------
(* The inductive invariant *)

\* Recipient rcp may be paired through session s.
MayPair(s, rcp) ==
    /\ s \in Session /\ Exists(s)
    /\ rcp \in recipients
    /\ session[s].kind = "email" => rcp = session[s].recipient

\* What a request relies on at its next statement.
RequestInv(r) ==
    LET q == req[r] IN
    /\ q.pc \in {"new_recipient", "new_email", "new_session"} => q.email \in Email /\ q.agent \in Agent
    /\ q.pc = "new_email" => q.recipient \in recipients
    /\ q.pc = "new_session" => q.recipient \in recipients /\ emailOwner[q.email] = q.recipient
    /\ q.pc = "write_claim" => q.session \in Session /\ Exists(q.session) /\ q.agent \in Agent
    /\ q.pc = "insert_device" => q.recipient \in recipients
    /\ q.pc \in {"read_session", "move_device"} => q.device \in Device
    /\ q.pc = "read_session" => q.session \in Session /\ q.from \in recipients /\ q.shown \in Agent
    /\ q.pc \in {"move_device", "insert_sender", "finish_session"} => MayPair(q.session, q.recipient)
    /\ q.pc \in {"move_device", "insert_sender"} => q.agent \in Agent /\ q.shown \in Agent
    /\ q.pc = "finish_session" =>
          /\ q.sender \in SenderId
          /\ \E x \in senders : x.id = q.sender /\ x.session = q.session /\ x.recipient = q.recipient

\* A session started by email has an address whose owner is stored, and only a
\* stored session has paired a sender.
SessionsAreBacked ==
    /\ \A s \in Session :
          session[s].kind = "email" => session[s].email \in Email /\ session[s].recipient \in recipients
    /\ \A x \in senders : Exists(x.session)

IInv ==
    /\ PairingTypeOK
    /\ RecipientsExist
    /\ EmailPairsItsOwner
    /\ PairedNamesItsSender
    /\ SessionsAreBacked
    /\ \A r \in Request : RequestInv(r)

\* No step takes back what a waiting request or a stored row relies on.
Grows ==
    /\ recipients \subseteq recipients'
    /\ senders \subseteq senders'
    /\ \A e \in Email : emailOwner[e] # NoRecipient => emailOwner'[e] = emailOwner[e]
    /\ \A s \in Session : Exists(s) =>
          /\ session'[s].kind = session[s].kind
          /\ session'[s].email = session[s].email
          /\ session[s].kind = "email" => session'[s].recipient = session[s].recipient

\* The ended request is well typed.
LEMMA IdleType == Idle \in RequestType
BY DEF Idle, RequestType, Pc

\* The row of a session that does not exist is well typed.
LEMMA NoRowType == NoRow \in SessionType
BY DEF NoRow, SessionType, Kind

\* The invariant holds at the start.
LEMMA InitInv == Init => IInv
<1> SUFFICES ASSUME Init PROVE IInv
  OBVIOUS
<1>1. PairingTypeOK
  BY IdleType, NoRowType DEF Init, PairingTypeOK
<1>2. /\ \A s \in Session : /\ session[s].kind = "none" /\ session[s].recipient = NoRecipient
                            /\ session[s].approved = FALSE
      /\ senders = {}
  BY DEF Init, NoRow
<1>3. RecipientsExist
  BY <1>2 DEF Init, RecipientsExist
<1>4. EmailPairsItsOwner /\ PairedNamesItsSender /\ SessionsAreBacked
  BY <1>2 DEF EmailPairsItsOwner, PairedNamesItsSender, SessionsAreBacked
<1>5. \A r \in Request : req[r].pc = "idle"
  BY DEF Init, Idle
<1>6. \A r \in Request : RequestInv(r)
  BY <1>5 DEF RequestInv
<1>7. QED
  BY <1>1, <1>3, <1>4, <1>6 DEF IInv

-----------------------------------------------------------------------------
(* Frames *)

\* A request that waits keeps what it relies on.
LEMMA RequestKept ==
    ASSUME PairingTypeOK, NEW r \in Request, RequestInv(r), req'[r] = req[r], Grows
    PROVE  RequestInv(r)'
<1>1. \A s, rcp : MayPair(s, rcp) => MayPair(s, rcp)'
  BY DEF MayPair, Grows, Exists
<1>2. NoRecipient \notin recipients
  BY PairingAssumption DEF PairingTypeOK
<1>3. CASE req[r].pc \in {"idle", "new_recipient", "first_recipient", "new_email", "insert_device"}
  BY <1>3 DEF RequestInv, Grows
<1>4. CASE req[r].pc = "new_session"
  BY <1>2, <1>4 DEF RequestInv, Grows
<1>5. CASE req[r].pc \in {"write_claim", "read_session"}
  BY <1>5 DEF RequestInv, Grows, Exists
<1>6. CASE req[r].pc \in {"move_device", "insert_sender"}
  BY <1>1, <1>6 DEF RequestInv
<1>7. CASE req[r].pc = "finish_session"
  BY <1>1, <1>7 DEF RequestInv, Grows
<1>8. req[r].pc \in Pc
  BY DEF PairingTypeOK, RequestType
<1>9. QED
  BY <1>3, <1>4, <1>5, <1>6, <1>7, <1>8 DEF Pc

\* A request that has ended relies on nothing.
LEMMA Finished ==
    ASSUME PairingTypeOK, NEW r \in Request, Finish(r)
    PROVE  /\ req' \in [Request -> RequestType]
           /\ RequestInv(r)'
           /\ \A q \in Request : q # r => req'[q] = req[q]
<1>1. req' \in [Request -> RequestType] /\ req'[r] = Idle /\ \A q \in Request : q # r => req'[q] = req[q]
  BY IdleType DEF Finish, PairingTypeOK
<1>2. req'[r].pc = "idle"
  BY <1>1 DEF Idle
<1>3. QED
  BY <1>1, <1>2 DEF RequestInv

\* Where sessions and senders stay, and recipients and owners only grow, the
\* stored rows keep what they rely on.
LEMMA RowsKept ==
    ASSUME IInv, Grows, UNCHANGED <<session, senders>>
    PROVE  EmailPairsItsOwner' /\ PairedNamesItsSender' /\ SessionsAreBacked'
<1>1. NoRecipient \notin recipients
  BY PairingAssumption DEF IInv, PairingTypeOK
<1>2. EmailPairsItsOwner'
  BY <1>1 DEF IInv, EmailPairsItsOwner, Grows, SessionsAreBacked
<1>3. PairedNamesItsSender'
  BY DEF IInv, PairedNamesItsSender
<1>4. SessionsAreBacked'
  BY DEF IInv, SessionsAreBacked, Grows, Exists
<1>5. QED
  BY <1>2, <1>3, <1>4

\* A step that changes no table and at most one request keeps the invariant if
\* that request has what it relies on.
LEMMA ReadStep ==
    ASSUME IInv, NEW r \in Request, UNCHANGED tables, clock' \in Nat, crashes' \in Nat,
           shown' \in [Session -> Agent \cup {NoAgent}],
           req' \in [Request -> RequestType], RequestInv(r)',
           \A q \in Request : q # r => req'[q] = req[q]
    PROVE  IInv'
<1>1. Grows
  BY DEF Grows, tables
<1>2. PairingTypeOK'
  BY DEF IInv, PairingTypeOK, tables
<1>3. RecipientsExist'
  BY DEF IInv, RecipientsExist, tables
<1>4. \A q \in Request : RequestInv(q)'
  BY <1>1, RequestKept DEF IInv
<1>5. QED
  BY <1>1, <1>2, <1>3, <1>4, RowsKept DEF IInv, tables

\* The request in slot r becomes q and the others stay.
LEMMA Becomes ==
    ASSUME PairingTypeOK, NEW r \in Request, NEW q \in RequestType, req' = [req EXCEPT ![r] = q]
    PROVE  /\ req' \in [Request -> RequestType]
           /\ req'[r] = q
           /\ \A p \in Request : p # r => req'[p] = req[p]
BY DEF PairingTypeOK

\* A request that ends without changing a table keeps the invariant.
LEMMA EndStep ==
    ASSUME IInv, NEW r \in Request, Finish(r), UNCHANGED <<clock, tables, shown>>, crashes' \in Nat
    PROVE  IInv'
<1>1. /\ req' \in [Request -> RequestType] /\ RequestInv(r)'
      /\ \A q \in Request : q # r => req'[q] = req[q]
  BY Finished DEF IInv
<1>2. clock' \in Nat /\ shown' \in [Session -> Agent \cup {NoAgent}]
  BY DEF IInv, PairingTypeOK
<1>3. QED
  BY <1>1, <1>2, ReadStep DEF tables

-----------------------------------------------------------------------------
(* Steps that read, or that only end a request *)

\* ReadEmail keeps the invariant: an owner that is read is stored.
LEMMA ReadEmailInv ==
    ASSUME IInv, NEW r \in Request, NEW a \in Agent, NEW e \in Email, ReadEmail(r, a, e)
    PROVE  IInv'
<1> DEFINE q == [Idle EXCEPT !.pc = IF emailOwner[e] = NoRecipient THEN "new_recipient" ELSE "new_session",
                             !.agent = a, !.email = e, !.recipient = emailOwner[e],
                             !.expiresAt = clock + Lifetime]
<1>1. clock + Lifetime \in Nat /\ emailOwner[e] \in Recipient \cup {NoRecipient}
  BY PairingAssumption DEF IInv, PairingTypeOK
<1>2. /\ q \in RequestType
      /\ q.pc = IF emailOwner[e] = NoRecipient THEN "new_recipient" ELSE "new_session"
      /\ q.agent = a /\ q.email = e /\ q.recipient = emailOwner[e]
  <2> DEFINE label == IF emailOwner[e] = NoRecipient THEN "new_recipient" ELSE "new_session"
             owner == emailOwner[e]
             end == clock + Lifetime
  <2>1. label \in Pc /\ owner \in Recipient \cup {NoRecipient} /\ end \in Nat
    BY <1>1 DEF Pc
  <2> HIDE DEF label, owner, end
  <2>2. [Idle EXCEPT !.pc = label, !.agent = a, !.email = e, !.recipient = owner, !.expiresAt = end] \in RequestType
    BY <2>1, IdleType DEF RequestType
  <2>3. QED
    BY <2>2, IdleType DEF RequestType, q, label, owner, end
<1> HIDE DEF q
<1>3. req' = [req EXCEPT ![r] = q]
  BY DEF ReadEmail, q
<1>4. req' \in [Request -> RequestType] /\ req'[r] = q /\ \A p \in Request : p # r => req'[p] = req[p]
  BY <1>2, <1>3, Becomes DEF IInv
<1>5. UNCHANGED <<tables, clock, shown, crashes>>
  BY DEF ReadEmail
<1>6. emailOwner' = emailOwner /\ recipients' = recipients
  BY <1>5 DEF tables
<1>7. q.pc = "new_session" => q.recipient \in recipients
  BY <1>2 DEF IInv, RecipientsExist
<1>8. RequestInv(r)'
  BY <1>2, <1>4, <1>6, <1>7 DEF RequestInv
<1>9. QED
  BY <1>4, <1>5, <1>8, ReadStep DEF IInv, PairingTypeOK

\* ReadForClaim keeps the invariant: a claim waits for a session that exists.
LEMMA ReadForClaimInv ==
    ASSUME IInv, NEW r \in Request, NEW s \in Session, NEW a \in Agent, ReadForClaim(r, s, a)
    PROVE  IInv'
<1> DEFINE q == [Idle EXCEPT !.pc = "write_claim", !.session = s, !.agent = a]
<1>2. q \in RequestType /\ q.pc = "write_claim" /\ q.session = s /\ q.agent = a
  BY IdleType DEF RequestType, Pc
<1> HIDE DEF q
<1>3. req' = [req EXCEPT ![r] = q] /\ UNCHANGED <<clock, tables, shown, crashes>>
  BY DEF ReadForClaim, q
<1>4. req' \in [Request -> RequestType] /\ req'[r] = q /\ \A p \in Request : p # r => req'[p] = req[p]
  BY <1>2, <1>3, Becomes DEF IInv
<1>5. RequestInv(r)'
  BY <1>2, <1>3, <1>4 DEF RequestInv, tables, ReadForClaim, Exists
<1>6. clock' \in Nat /\ crashes' \in Nat /\ shown' \in [Session -> Agent \cup {NoAgent}]
  BY <1>3 DEF IInv, PairingTypeOK
<1>7. QED
  BY <1>3, <1>4, <1>5, <1>6, ReadStep DEF tables

\* RequestApproval keeps the invariant: the recipient of a device is stored.
LEMMA RequestApprovalInv ==
    ASSUME IInv, NEW r \in Request, NEW d \in Device, NEW s \in Session, RequestApproval(r, d, s)
    PROVE  IInv'
<1> DEFINE q == [Idle EXCEPT !.pc = "read_session", !.session = s, !.shown = shown[s],
                             !.device = d, !.from = home[d]]
<1>1. shown[s] \in Agent /\ home[d] \in Recipient /\ home[d] \in recipients
  BY DEF RequestApproval, IInv, PairingTypeOK, RecipientsExist
<1>2. q \in RequestType /\ q.pc = "read_session" /\ q.session = s
      /\ q.shown = shown[s] /\ q.device = d /\ q.from = home[d]
  BY <1>1, IdleType DEF RequestType, Pc
<1> HIDE DEF q
<1>3. req' = [req EXCEPT ![r] = q] /\ UNCHANGED <<clock, tables, shown, crashes>>
  BY DEF RequestApproval, q
<1>4. req' \in [Request -> RequestType] /\ req'[r] = q /\ \A p \in Request : p # r => req'[p] = req[p]
  BY <1>2, <1>3, Becomes DEF IInv
<1>5. RequestInv(r)'
  BY <1>2, <1>3, <1>4, <1>1 DEF RequestInv, tables, RequestApproval, Exists
<1>6. clock' \in Nat /\ crashes' \in Nat /\ shown' \in [Session -> Agent \cup {NoAgent}]
  BY <1>3 DEF IInv, PairingTypeOK
<1>7. QED
  BY <1>3, <1>4, <1>5, <1>6, ReadStep DEF tables

\* RegisterAlone keeps the invariant.
LEMMA RegisterAloneInv ==
    ASSUME IInv, NEW r \in Request, RegisterAlone(r)
    PROVE  IInv'
<1> DEFINE q == [Idle EXCEPT !.pc = "first_recipient"]
<1>2. q \in RequestType /\ q.pc = "first_recipient"
  BY IdleType DEF RequestType, Pc
<1> HIDE DEF q
<1>3. req' = [req EXCEPT ![r] = q] /\ UNCHANGED <<clock, tables, shown, crashes>>
  BY DEF RegisterAlone, q
<1>4. req' \in [Request -> RequestType] /\ req'[r] = q /\ \A p \in Request : p # r => req'[p] = req[p]
  BY <1>2, <1>3, Becomes DEF IInv
<1>5. RequestInv(r)'
  BY <1>2, <1>3, <1>4 DEF RequestInv, tables, RegisterAlone, Exists
<1>6. clock' \in Nat /\ crashes' \in Nat /\ shown' \in [Session -> Agent \cup {NoAgent}]
  BY <1>3 DEF IInv, PairingTypeOK
<1>7. QED
  BY <1>3, <1>4, <1>5, <1>6, ReadStep DEF tables

\* RegisterWithLink keeps the invariant: a link names a stored recipient.
LEMMA RegisterWithLinkInv ==
    ASSUME IInv, NEW r \in Request, NEW s \in Session, RegisterWithLink(r, s)
    PROVE  IInv'
<1> DEFINE q == [Idle EXCEPT !.pc = "insert_device", !.recipient = session[s].recipient]
<1>1. session[s].recipient \in Recipient \cup {NoRecipient} /\ session[s].recipient \in recipients
  BY DEF RegisterWithLink, IInv, PairingTypeOK, SessionType, SessionsAreBacked
<1>2. q \in RequestType /\ q.pc = "insert_device" /\ q.recipient = session[s].recipient
  BY <1>1, IdleType DEF RequestType, Pc
<1> HIDE DEF q
<1>3. req' = [req EXCEPT ![r] = q] /\ UNCHANGED <<clock, tables, shown, crashes>>
  BY DEF RegisterWithLink, q
<1>4. req' \in [Request -> RequestType] /\ req'[r] = q /\ \A p \in Request : p # r => req'[p] = req[p]
  BY <1>2, <1>3, Becomes DEF IInv
<1>5. RequestInv(r)'
  BY <1>2, <1>3, <1>4, <1>1 DEF RequestInv, tables, RegisterWithLink, Exists
<1>6. clock' \in Nat /\ crashes' \in Nat /\ shown' \in [Session -> Agent \cup {NoAgent}]
  BY <1>3 DEF IInv, PairingTypeOK
<1>7. QED
  BY <1>3, <1>4, <1>5, <1>6, ReadStep DEF tables

\* ReadForApproval keeps the invariant: the pair it decides on is one the session allows.
LEMMA ReadForApprovalInv ==
    ASSUME IInv, NEW r \in Request, ReadForApproval(r)
    PROVE  IInv'
<1> DEFINE s == req[r].session
           owner == session[s].recipient
           fits == owner \in {NoRecipient, req[r].from}
           label == IF fits THEN "insert_sender" ELSE "move_device"
           rcp == IF owner = NoRecipient THEN req[r].from ELSE owner
           q == [req[r] EXCEPT !.pc = label, !.agent = session[s].agent, !.recipient = rcp]
<1>1. UNCHANGED <<clock, tables, shown, crashes>> /\ req[r].pc = "read_session"
  BY DEF ReadForApproval
<1>2. /\ s \in Session /\ req[r].from \in recipients /\ req[r].shown \in Agent /\ req[r].device \in Device
      /\ req[r] \in RequestType
  BY <1>1 DEF IInv, RequestInv, PairingTypeOK
<1>3. CASE /\ Exists(s) /\ session[s].agent # NoAgent
           /\ fits \/ session[s].kind = "email"
           /\ req' = [req EXCEPT ![r] = q]
  <2>1. /\ session[s].agent \in Agent /\ owner \in recipients \cup {NoRecipient}
        /\ recipients \subseteq Recipient
        /\ session[s].kind = "email" => owner \in recipients
    BY <1>2, <1>3 DEF IInv, PairingTypeOK, SessionType, RecipientsExist, SessionsAreBacked
  <2>2. rcp \in recipients /\ label \in {"insert_sender", "move_device"}
    BY <1>2, <2>1
  <2>3. session[s].kind = "email" => rcp = session[s].recipient
    BY <2>1, PairingAssumption
  <2>4. MayPair(s, rcp)
    BY <1>2, <1>3, <2>2, <2>3 DEF MayPair
  <2>5. \A p, o : MayPair(p, o) => MayPair(p, o)'
    BY <1>1 DEF MayPair, tables, Exists
  <2> DEFINE a == session[s].agent
  <2> HIDE DEF label, rcp, a
  <2>6. /\ q \in RequestType /\ q.pc = label /\ q.session = s /\ q.recipient = rcp /\ q.agent = a
        /\ q.shown = req[r].shown /\ q.device = req[r].device
    BY <1>2, <2>1, <2>2 DEF RequestType, Pc, a
  <2> HIDE DEF q, s
  <2>7. req' \in [Request -> RequestType] /\ req'[r] = q /\ \A p \in Request : p # r => req'[p] = req[p]
    BY <1>3, <2>6, Becomes DEF IInv
  <2>8. RequestInv(r)'
    <3>1. req'[r].pc \in {"insert_sender", "move_device"} /\ req'[r].session = s /\ req'[r].recipient = rcp
      BY <2>2, <2>6, <2>7
    <3>2. req'[r].agent \in Agent /\ req'[r].shown \in Agent /\ req'[r].device \in Device
      BY <1>2, <2>1, <2>6, <2>7 DEF a
    <3>3. MayPair(req[r].session, req[r].recipient)'
      BY <2>4, <2>5, <3>1
    <3>4. QED
      BY <3>1, <3>2, <3>3 DEF RequestInv
  <2>9. clock' \in Nat /\ crashes' \in Nat /\ shown' \in [Session -> Agent \cup {NoAgent}]
    BY <1>1 DEF IInv, PairingTypeOK
  <2>10. QED
    BY <1>1, <2>7, <2>8, <2>9, ReadStep DEF tables
<1>4. CASE Finish(r)
  BY <1>1, <1>4, EndStep DEF IInv, PairingTypeOK
<1>5. QED
  BY <1>3, <1>4 DEF ReadForApproval

-----------------------------------------------------------------------------
(* Steps that write recipients, addresses and devices *)

\* A step that lets sessions and senders stay and recipients and owners grow
\* keeps the invariant if the new owners and homes are stored.
LEMMA OwnerStep ==
    ASSUME IInv, NEW r \in Request, UNCHANGED <<clock, session, senders, shown, crashes>>,
           Grows, recipients' \subseteq Recipient,
           emailOwner' \in [Email -> recipients' \cup {NoRecipient}],
           home' \in [Device -> recipients' \cup {NoRecipient}],
           req' \in [Request -> RequestType], RequestInv(r)',
           \A q \in Request : q # r => req'[q] = req[q]
    PROVE  IInv'
<1>1. PairingTypeOK'
  <2>1. /\ emailOwner' \in [Email -> Recipient \cup {NoRecipient}]
        /\ home' \in [Device -> Recipient \cup {NoRecipient}]
    OBVIOUS
  <2>2. QED
    BY <2>1 DEF IInv, PairingTypeOK
<1>2. RecipientsExist'
  BY DEF IInv, RecipientsExist, Grows
<1>3. \A q \in Request : RequestInv(q)'
  BY RequestKept DEF IInv
<1>4. QED
  BY <1>1, <1>2, <1>3, RowsKept DEF IInv

\* The owners and homes that are stored.
LEMMA Stored ==
    ASSUME IInv
    PROVE  /\ recipients \subseteq Recipient
           /\ emailOwner \in [Email -> recipients \cup {NoRecipient}]
           /\ home \in [Device -> recipients \cup {NoRecipient}]
BY DEF IInv, PairingTypeOK, RecipientsExist

\* InsertRecipient keeps the invariant.
LEMMA InsertRecipientInv ==
    ASSUME IInv, NEW r \in Request, NEW rcp \in Recipient, InsertRecipient(r, rcp)
    PROVE  IInv'
<1> DEFINE label == IF req[r].pc = "new_recipient" THEN "new_email" ELSE "insert_device"
           q == [req[r] EXCEPT !.pc = label, !.recipient = rcp]
<1>1. /\ req[r].pc \in {"new_recipient", "first_recipient"} /\ recipients' = recipients \cup {rcp}
      /\ UNCHANGED <<clock, emailOwner, home, session, senders, shown, crashes>>
      /\ req[r] \in RequestType
  BY DEF InsertRecipient, IInv, PairingTypeOK
<1>2. req' = [req EXCEPT ![r] = q]
  BY DEF InsertRecipient
<1>3. label \in {"new_email", "insert_device"} /\ (label = "new_email" => req[r].pc = "new_recipient")
  OBVIOUS
<1> HIDE DEF label
<1>4. /\ q \in RequestType /\ q.pc = label /\ q.recipient = rcp
      /\ q.email = req[r].email /\ q.agent = req[r].agent
  <2>1. req[r] \in RequestType /\ label \in Pc
    BY <1>1, <1>3 DEF Pc
  <2>2. QED
    BY <2>1 DEF RequestType
<1> HIDE DEF q
<1>5. req' \in [Request -> RequestType] /\ req'[r] = q /\ \A p \in Request : p # r => req'[p] = req[p]
  BY <1>2, <1>4, Becomes DEF IInv
<1>6. label = "new_email" => req[r].email \in Email /\ req[r].agent \in Agent
  BY <1>3 DEF IInv, RequestInv
<1>7. RequestInv(r)'
  BY <1>1, <1>3, <1>4, <1>5, <1>6 DEF RequestInv
<1>8. Grows
  BY <1>1 DEF Grows
<1>9. recipients' \subseteq Recipient /\ emailOwner' \in [Email -> recipients' \cup {NoRecipient}]
      /\ home' \in [Device -> recipients' \cup {NoRecipient}]
  BY <1>1, Stored
<1>10. QED
  BY <1>1, <1>5, <1>7, <1>8, <1>9, OwnerStep

\* InsertEmail keeps the invariant: an address gets its owner once.
LEMMA InsertEmailInv ==
    ASSUME IInv, NEW r \in Request, InsertEmail(r)
    PROVE  IInv'
<1> DEFINE e == req[r].email
           q == [req[r] EXCEPT !.pc = "new_session"]
<1>1. /\ req[r].pc = "new_email" /\ UNCHANGED <<clock, recipients, home, session, senders, shown, crashes>>
      /\ req[r] \in RequestType
  BY DEF InsertEmail, IInv, PairingTypeOK
<1>2. e \in Email /\ req[r].agent \in Agent /\ req[r].recipient \in recipients
  BY <1>1 DEF IInv, RequestInv
<1>3. CASE /\ emailOwner[e] = NoRecipient
           /\ emailOwner' = [emailOwner EXCEPT ![e] = req[r].recipient]
           /\ Goto(r, "new_session")
  <2>1. /\ q \in RequestType /\ q.pc = "new_session" /\ q.email = e
        /\ q.agent = req[r].agent /\ q.recipient = req[r].recipient
    BY <1>1 DEF RequestType, Pc
  <2>2. req' = [req EXCEPT ![r] = q]
    BY <1>3 DEF Goto
  <2> HIDE DEF q, e
  <2>3. req' \in [Request -> RequestType] /\ req'[r] = q /\ \A p \in Request : p # r => req'[p] = req[p]
    BY <2>1, <2>2, Becomes DEF IInv
  <2>4. emailOwner' \in [Email -> recipients' \cup {NoRecipient}] /\ emailOwner'[e] = req[r].recipient
    BY <1>1, <1>2, <1>3, Stored
  <2>5. recipients' \subseteq Recipient /\ home' \in [Device -> recipients' \cup {NoRecipient}]
    BY <1>1, Stored
  <2>6. Grows
    BY <1>1, <1>3, Stored DEF Grows
  <2>7. RequestInv(r)'
    BY <1>1, <1>2, <2>1, <2>3, <2>4 DEF RequestInv
  <2>8. QED
    BY <1>1, <2>3, <2>4, <2>5, <2>6, <2>7, OwnerStep
<1>4. CASE Finish(r) /\ UNCHANGED emailOwner
  BY <1>1, <1>4, EndStep DEF tables, IInv, PairingTypeOK
<1>5. QED
  BY <1>3, <1>4 DEF InsertEmail

\* MoveDevice keeps the invariant: a device moves to a stored recipient.
LEMMA MoveDeviceInv ==
    ASSUME IInv, NEW r \in Request, MoveDevice(r)
    PROVE  IInv'
<1> DEFINE d == req[r].device
           q == [req[r] EXCEPT !.pc = "insert_sender"]
<1>1. /\ req[r].pc = "move_device"
      /\ UNCHANGED <<clock, recipients, emailOwner, session, senders, shown, crashes>>
      /\ req[r] \in RequestType
  BY DEF MoveDevice, IInv, PairingTypeOK
<1>2. /\ d \in Device /\ req[r].agent \in Agent /\ req[r].shown \in Agent
      /\ MayPair(req[r].session, req[r].recipient)
  BY <1>1 DEF IInv, RequestInv
<1>3. req[r].recipient \in recipients
  BY <1>2 DEF MayPair
<1>4. /\ q \in RequestType /\ q.pc = "insert_sender" /\ q.session = req[r].session
      /\ q.recipient = req[r].recipient /\ q.agent = req[r].agent /\ q.shown = req[r].shown
  BY <1>1 DEF RequestType, Pc
<1>5. req' = [req EXCEPT ![r] = q]
  BY DEF MoveDevice, Goto
<1> HIDE DEF q
<1>6. req' \in [Request -> RequestType] /\ req'[r] = q /\ \A p \in Request : p # r => req'[p] = req[p]
  BY <1>4, <1>5, Becomes DEF IInv
<1>7. \A p, o : MayPair(p, o) => MayPair(p, o)'
  BY <1>1 DEF MayPair, Exists
<1>8. req'[r].session = req[r].session /\ req'[r].recipient = req[r].recipient
  BY <1>4, <1>6
<1>9. MayPair(req[r].session, req[r].recipient)'
  BY <1>2, <1>7, <1>8
<1>10. RequestInv(r)'
  BY <1>2, <1>4, <1>6, <1>9 DEF RequestInv
<1> DEFINE here == IF home[d] = req[r].from THEN req[r].recipient ELSE home[d]
<1>11. here \in recipients \cup {NoRecipient}
  BY <1>2, <1>3, Stored
<1>12. home' = [home EXCEPT ![d] = here]
  BY DEF MoveDevice
<1> HIDE DEF here, d
<1>13. home' \in [Device -> recipients' \cup {NoRecipient}] /\ recipients' \subseteq Recipient
       /\ emailOwner' \in [Email -> recipients' \cup {NoRecipient}]
  BY <1>1, <1>11, <1>12, Stored
<1>14. Grows
  BY <1>1 DEF Grows
<1>15. QED
  BY <1>1, <1>6, <1>10, <1>13, <1>14, OwnerStep

\* InsertDevice keeps the invariant: a device is registered for a stored recipient.
LEMMA InsertDeviceInv ==
    ASSUME IInv, NEW r \in Request, NEW d \in Device, InsertDevice(r, d)
    PROVE  IInv'
<1>1. /\ req[r].pc = "insert_device" /\ home' = [home EXCEPT ![d] = req[r].recipient]
      /\ UNCHANGED <<clock, recipients, emailOwner, session, senders, shown, crashes>>
  BY DEF InsertDevice
<1>2. req[r].recipient \in recipients
  BY <1>1 DEF IInv, RequestInv
<1>3. home' \in [Device -> recipients' \cup {NoRecipient}] /\ recipients' \subseteq Recipient
      /\ emailOwner' \in [Email -> recipients' \cup {NoRecipient}]
  BY <1>1, <1>2, Stored
<1>4. Grows
  BY <1>1 DEF Grows
<1>5. /\ req' \in [Request -> RequestType] /\ RequestInv(r)'
      /\ \A q \in Request : q # r => req'[q] = req[q]
  BY Finished DEF IInv, InsertDevice
<1>6. QED
  BY <1>1, <1>3, <1>4, <1>5, OwnerStep

-----------------------------------------------------------------------------
(* Steps that write sessions and senders *)

\* A row that takes the place of session s keeps the types and what refers to
\* recipients.
LEMMA RowTypes ==
    ASSUME IInv, NEW s \in Session, NEW row \in SessionType, row.recipient \in recipients \cup {NoRecipient},
           session' = [session EXCEPT ![s] = row],
           UNCHANGED <<clock, recipients, emailOwner, home, senders, shown, crashes>>,
           req' \in [Request -> RequestType]
    PROVE  PairingTypeOK' /\ RecipientsExist'
<1>1. session' \in [Session -> SessionType]
  BY DEF IInv, PairingTypeOK
<1>2. PairingTypeOK'
  BY <1>1 DEF IInv, PairingTypeOK
<1>3. \A p \in Session : session'[p].recipient \in recipients \cup {NoRecipient}
  BY DEF IInv, PairingTypeOK, RecipientsExist
<1>4. RecipientsExist'
  BY <1>3 DEF IInv, RecipientsExist
<1>5. QED
  BY <1>2, <1>4

\* A new session keeps the invariant if an email session names the owner of its
\* address: no sender refers to a session that does not exist.
LEMMA NewSession ==
    ASSUME IInv, NEW s \in Session, ~Exists(s), NEW row \in SessionType, row.approved = FALSE,
           row.recipient \in recipients \cup {NoRecipient},
           row.kind = "email" => /\ row.email \in Email /\ row.recipient \in recipients
                                 /\ row.recipient = emailOwner[row.email],
           session' = [session EXCEPT ![s] = row],
           UNCHANGED <<clock, recipients, emailOwner, home, senders, shown, crashes>>,
           req' \in [Request -> RequestType],
           \A q \in Request : req'[q] = req[q] \/ RequestInv(q)'
    PROVE  IInv'
<1>1. session'[s] = row /\ \A p \in Session : p # s => session'[p] = session[p]
  BY DEF IInv, PairingTypeOK
<1>2. \A x \in senders : x.session \in Session /\ x.session # s
  BY DEF IInv, SessionsAreBacked, PairingTypeOK, SenderType
<1>3. EmailPairsItsOwner'
  BY <1>1, <1>2 DEF IInv, EmailPairsItsOwner
<1>4. PairedNamesItsSender'
  BY <1>1 DEF IInv, PairedNamesItsSender
<1>5. SessionsAreBacked'
  BY <1>1, <1>2 DEF IInv, SessionsAreBacked, Exists
<1>6. Grows
  BY <1>1 DEF Grows
<1>7. \A q \in Request : RequestInv(q)'
  BY <1>6, RequestKept DEF IInv
<1>8. QED
  BY <1>3, <1>4, <1>5, <1>7, RowTypes DEF IInv

\* InsertEmailSession keeps the invariant.
LEMMA InsertEmailSessionInv ==
    ASSUME IInv, NEW r \in Request, NEW s \in Session, InsertEmailSession(r, s)
    PROVE  IInv'
<1> DEFINE q == req[r]
           row == [NoRow EXCEPT !.kind = "email", !.email = q.email, !.recipient = q.recipient,
                                !.agent = q.agent, !.expiresAt = q.expiresAt]
<1>1. /\ q.pc = "new_session" /\ ~Exists(s) /\ q \in RequestType
      /\ UNCHANGED <<clock, recipients, emailOwner, home, senders, shown, crashes>>
  BY DEF InsertEmailSession, IInv, PairingTypeOK
<1>2. q.email \in Email /\ q.recipient \in recipients /\ emailOwner[q.email] = q.recipient /\ q.agent \in Agent
  BY <1>1 DEF IInv, RequestInv
<1>3. q.recipient \in Recipient /\ q.expiresAt \in Nat
  BY <1>1, <1>2, Stored DEF RequestType
<1>4. NoRow.approved = FALSE
  BY DEF NoRow
<1>5. session' = [session EXCEPT ![s] = row]
  BY DEF InsertEmailSession
<1> HIDE DEF q
<1>6. /\ row \in SessionType /\ row.approved = FALSE
      /\ row.kind = "email" /\ row.email = q.email /\ row.recipient = q.recipient
  BY <1>2, <1>3, <1>4, NoRowType DEF SessionType, Kind
<1> HIDE DEF row
<1>7. /\ req' \in [Request -> RequestType] /\ RequestInv(r)'
      /\ \A p \in Request : p # r => req'[p] = req[p]
  BY Finished DEF IInv, InsertEmailSession
<1>8. QED
  BY <1>1, <1>2, <1>5, <1>6, <1>7, NewSession

\* InsertCodeSession keeps the invariant.
LEMMA InsertCodeSessionInv ==
    ASSUME IInv, NEW s \in Session, InsertCodeSession(s)
    PROVE  IInv'
<1> DEFINE end == clock + Lifetime
           row == [NoRow EXCEPT !.kind = "code", !.expiresAt = end]
<1>1. end \in Nat
  BY PairingAssumption DEF IInv, PairingTypeOK
<1>2. /\ ~Exists(s) /\ session' = [session EXCEPT ![s] = row]
      /\ UNCHANGED <<clock, recipients, emailOwner, home, senders, shown, req, crashes>>
  BY DEF InsertCodeSession
<1>3. NoRow.approved = FALSE /\ NoRow.recipient = NoRecipient
  BY DEF NoRow
<1> HIDE DEF end
<1>4. row \in SessionType /\ row.approved = FALSE /\ row.kind = "code" /\ row.recipient = NoRecipient
  BY <1>1, <1>3, NoRowType DEF SessionType, Kind
<1> HIDE DEF row
<1>5. req' \in [Request -> RequestType]
  BY <1>2 DEF IInv, PairingTypeOK
<1>6. QED
  BY <1>2, <1>4, <1>5, NewSession

\* WriteClaim keeps the invariant: it writes nothing a pairing refers to.
LEMMA WriteClaimInv ==
    ASSUME IInv, NEW r \in Request, WriteClaim(r)
    PROVE  IInv'
<1> DEFINE s == req[r].session
           a == req[r].agent
           row == [session[s] EXCEPT !.agent = a, !.claimed = TRUE]
<1>1. /\ req[r].pc = "write_claim" /\ session' = [session EXCEPT ![s] = row]
      /\ UNCHANGED <<clock, recipients, emailOwner, home, senders, shown, crashes>>
  BY DEF WriteClaim
<1>2. s \in Session /\ Exists(s) /\ a \in Agent /\ session[s] \in SessionType
  BY <1>1 DEF IInv, RequestInv, PairingTypeOK
<1> HIDE DEF s, a
<1>3. /\ row \in SessionType /\ row.kind = session[s].kind /\ row.email = session[s].email
      /\ row.recipient = session[s].recipient /\ row.approved = session[s].approved
      /\ row.sender = session[s].sender
  BY <1>2 DEF SessionType
<1> HIDE DEF row
<1>4. session'[s] = row /\ \A p \in Session : p # s => session'[p] = session[p]
  BY <1>1, <1>2 DEF IInv, PairingTypeOK
<1>5. \A p \in Session :
         /\ session'[p].kind = session[p].kind /\ session'[p].email = session[p].email
         /\ session'[p].recipient = session[p].recipient /\ session'[p].approved = session[p].approved
         /\ session'[p].sender = session[p].sender
  BY <1>3, <1>4
<1>6. Grows
  BY <1>1, <1>5 DEF Grows
<1>7. \A x \in senders : x.session \in Session
  BY DEF IInv, PairingTypeOK, SenderType
<1>8. EmailPairsItsOwner'
  BY <1>1, <1>5, <1>7 DEF IInv, EmailPairsItsOwner
<1>9. PairedNamesItsSender'
  BY <1>1, <1>5 DEF IInv, PairedNamesItsSender
<1>10. SessionsAreBacked'
  BY <1>1, <1>5, <1>7 DEF IInv, SessionsAreBacked, Exists
<1>11. /\ req' \in [Request -> RequestType] /\ RequestInv(r)'
       /\ \A p \in Request : p # r => req'[p] = req[p]
  BY Finished DEF IInv, WriteClaim
<1>12. \A q \in Request : RequestInv(q)'
  BY <1>6, <1>11, RequestKept DEF IInv
<1>13. row.recipient \in recipients \cup {NoRecipient}
  BY <1>2, <1>3 DEF IInv, RecipientsExist
<1>14. QED
  BY <1>1, <1>2, <1>3, <1>8, <1>9, <1>10, <1>11, <1>12, <1>13, RowTypes DEF IInv

\* InsertSender keeps the invariant: the recipient is the one the session allows.
LEMMA InsertSenderInv ==
    ASSUME IInv, NEW r \in Request, NEW i \in SenderId, InsertSender(r, i)
    PROVE  IInv'
<1> DEFINE q == req[r]
           x == [id |-> i, recipient |-> q.recipient, agent |-> q.agent,
                 session |-> q.session, shown |-> q.shown]
           next == [q EXCEPT !.pc = "finish_session", !.sender = i]
<1>1. /\ q.pc = "insert_sender" /\ senders' = senders \cup {x} /\ q \in RequestType
      /\ UNCHANGED <<clock, recipients, emailOwner, home, session, shown, crashes>>
  BY DEF InsertSender, IInv, PairingTypeOK
<1>2. MayPair(q.session, q.recipient) /\ q.agent \in Agent /\ q.shown \in Agent
  BY <1>1 DEF IInv, RequestInv
<1>3. /\ q.session \in Session /\ Exists(q.session) /\ q.recipient \in recipients
      /\ session[q.session].kind = "email" => q.recipient = session[q.session].recipient
  BY <1>2 DEF MayPair
<1>4. /\ next \in RequestType /\ next.pc = "finish_session" /\ next.sender = i
      /\ next.session = q.session /\ next.recipient = q.recipient
  BY <1>1 DEF RequestType, Pc
<1>5. req' = [req EXCEPT ![r] = next]
  BY DEF InsertSender
<1> HIDE DEF q, next
<1>6. /\ x \in SenderType /\ x.id = i /\ x.session = q.session /\ x.recipient = q.recipient
      /\ x.recipient \in recipients
  BY <1>2, <1>3, Stored DEF SenderType
<1> HIDE DEF x
<1>7. req' \in [Request -> RequestType] /\ req'[r] = next /\ \A p \in Request : p # r => req'[p] = req[p]
  BY <1>4, <1>5, Becomes DEF IInv
<1>8. PairingTypeOK'
  BY <1>1, <1>6, <1>7 DEF IInv, PairingTypeOK
<1>9. RecipientsExist'
  BY <1>1, <1>6 DEF IInv, RecipientsExist
<1>10. EmailPairsItsOwner'
  BY <1>1, <1>3, <1>6 DEF IInv, EmailPairsItsOwner
<1>11. PairedNamesItsSender'
  BY <1>1 DEF IInv, PairedNamesItsSender
<1>12. SessionsAreBacked'
  BY <1>1, <1>3, <1>6 DEF IInv, SessionsAreBacked, Exists
<1>13. Grows
  BY <1>1 DEF Grows
<1>14. \A p, o : MayPair(p, o) => MayPair(p, o)'
  BY <1>1 DEF MayPair, Exists
<1>15. req'[r].pc = "finish_session" /\ req'[r].session = q.session /\ req'[r].recipient = q.recipient
       /\ req'[r].sender = i
  BY <1>4, <1>7
<1>16. MayPair(req[r].session, req[r].recipient)'
  BY <1>2, <1>14, <1>15
<1>17. RequestInv(r)'
  BY <1>1, <1>6, <1>15, <1>16 DEF RequestInv
<1>18. \A p \in Request : RequestInv(p)'
  BY <1>7, <1>13, <1>17, RequestKept DEF IInv
<1>19. QED
  BY <1>8, <1>9, <1>10, <1>11, <1>12, <1>18 DEF IInv

\* FinishSession keeps the invariant: the sender it names was stored before, and
\* an email session keeps its recipient.
LEMMA FinishSessionInv ==
    ASSUME IInv, NEW r \in Request, FinishSession(r)
    PROVE  IInv'
<1> DEFINE q == req[r]
           s == q.session
           row == [session[s] EXCEPT !.recipient = q.recipient, !.sender = q.sender, !.approved = TRUE]
<1>1. /\ q.pc = "finish_session" /\ session' = [session EXCEPT ![s] = row]
      /\ UNCHANGED <<clock, recipients, emailOwner, home, senders, shown, crashes>>
  BY DEF FinishSession
<1>2. MayPair(s, q.recipient) /\ q.sender \in SenderId
  BY <1>1 DEF IInv, RequestInv
<1>3. \E x \in senders : x.id = q.sender /\ x.session = s /\ x.recipient = q.recipient
  BY <1>1 DEF IInv, RequestInv
<1>4. /\ s \in Session /\ Exists(s) /\ q.recipient \in recipients /\ session[s] \in SessionType
      /\ session[s].kind = "email" => q.recipient = session[s].recipient
  BY <1>2 DEF MayPair, IInv, PairingTypeOK
<1>5. q.recipient \in Recipient
  BY <1>4, Stored
<1> HIDE DEF q, s
<1>6. /\ row \in SessionType /\ row.kind = session[s].kind /\ row.email = session[s].email
      /\ row.recipient = q.recipient /\ row.sender = q.sender
  BY <1>2, <1>4, <1>5 DEF SessionType
<1> HIDE DEF row
<1>7. session'[s] = row /\ \A p \in Session : p # s => session'[p] = session[p]
  BY <1>1, <1>4 DEF IInv, PairingTypeOK
<1>8. \A p \in Session :
         /\ session'[p].kind = session[p].kind /\ session'[p].email = session[p].email
         /\ session[p].kind = "email" => session'[p].recipient = session[p].recipient
  BY <1>4, <1>6, <1>7
<1>9. Grows
  BY <1>1, <1>8 DEF Grows
<1>10. \A x \in senders : x.session \in Session
  BY DEF IInv, PairingTypeOK, SenderType
<1>11. EmailPairsItsOwner'
  BY <1>1, <1>8, <1>10 DEF IInv, EmailPairsItsOwner
<1>12. PairedNamesItsSender'
  BY <1>1, <1>3, <1>6, <1>7 DEF IInv, PairedNamesItsSender
<1>13. SessionsAreBacked'
  BY <1>1, <1>8, <1>10 DEF IInv, SessionsAreBacked, Exists
<1>14. /\ req' \in [Request -> RequestType] /\ RequestInv(r)'
       /\ \A p \in Request : p # r => req'[p] = req[p]
  BY Finished DEF IInv, FinishSession
<1>15. \A p \in Request : RequestInv(p)'
  BY <1>9, <1>14, RequestKept DEF IInv
<1>16. QED
  BY <1>1, <1>4, <1>6, <1>11, <1>12, <1>13, <1>14, <1>15, RowTypes DEF IInv

-----------------------------------------------------------------------------
(* The theorems *)

\* Steps of the clock and of what the screen shows keep the invariant.
LEMMA StillStep ==
    ASSUME IInv, UNCHANGED <<tables, req>>, clock' \in Nat, crashes' \in Nat,
           shown' \in [Session -> Agent \cup {NoAgent}]
    PROVE  IInv'
<1>1. Grows
  BY DEF Grows, tables
<1>2. PairingTypeOK' /\ RecipientsExist'
  BY DEF IInv, PairingTypeOK, RecipientsExist, tables
<1>3. \A q \in Request : RequestInv(q)'
  BY <1>1, RequestKept DEF IInv
<1>4. QED
  BY <1>1, <1>2, <1>3, RowsKept DEF IInv, tables

\* The invariant is inductive.
LEMMA NextInv == IInv /\ [Next]_vars => IInv'
<1> SUFFICES ASSUME IInv, [Next]_vars PROVE IInv'
  OBVIOUS
<1>1. ASSUME NEW r \in Request, StartStep(r) PROVE IInv'
  BY <1>1, ReadEmailInv, InsertRecipientInv, InsertEmailInv, InsertEmailSessionInv,
     ReadForClaimInv, WriteClaimInv DEF StartStep
<1>2. ASSUME NEW r \in Request, ApproveStep(r) PROVE IInv'
  BY <1>2, RequestApprovalInv, ReadForApprovalInv, MoveDeviceInv, InsertSenderInv,
     FinishSessionInv DEF ApproveStep
<1>3. ASSUME NEW r \in Request, RegisterStep(r) PROVE IInv'
  BY <1>3, RegisterAloneInv, RegisterWithLinkInv, InsertDeviceInv DEF RegisterStep
<1>4. ASSUME NEW r \in Request, Crash(r) PROVE IInv'
  BY <1>4, EndStep DEF Crash, IInv, PairingTypeOK
<1>5. ASSUME NEW s \in Session, InsertCodeSession(s) PROVE IInv'
  BY <1>5, InsertCodeSessionInv
<1>6. ASSUME NEW s \in Session, ShowSender(s) PROVE IInv'
  <2>1. session[s].agent \in Agent \cup {NoAgent}
    BY DEF IInv, PairingTypeOK, SessionType
  <2>2. shown' \in [Session -> Agent \cup {NoAgent}]
    BY <1>6, <2>1 DEF ShowSender, IInv, PairingTypeOK
  <2>3. QED
    BY <1>6, <2>2, StillStep DEF ShowSender, IInv, PairingTypeOK
<1>7. CASE Tick
  BY <1>7, StillStep DEF Tick, IInv, PairingTypeOK
<1>8. CASE UNCHANGED vars
  BY <1>8, StillStep DEF vars, IInv, PairingTypeOK
<1>9. QED
  BY <1>1, <1>2, <1>3, <1>4, <1>5, <1>6, <1>7, <1>8 DEF Next

\* The inductive invariant holds in every reachable state.
THEOREM PairingInvariance == Spec => []IInv
BY InitInv, NextInv, PTL DEF Spec

\* Types: the tables and the requests hold values of their types.
THEOREM PairingTypes == Spec => []PairingTypeOK
<1>1. IInv => PairingTypeOK
  BY DEF IInv
<1>2. QED
  BY <1>1, PairingInvariance, PTL

\* Recipients that anything refers to are stored, wherever requests are cut off
\* (pairing-service.ts:71-81, device-service.ts:17-37).
THEOREM RecipientsSafe == Spec => []RecipientsExist
<1>1. IInv => RecipientsExist
  BY DEF IInv
<1>2. QED
  BY <1>1, PairingInvariance, PTL

\* A session started by email pairs with the owner of the address, whoever
\* approves it and how many do (pairing-service.ts:141-192).
THEOREM EmailOwnerSafe == Spec => []EmailPairsItsOwner
<1>1. IInv => EmailPairsItsOwner
  BY DEF IInv
<1>2. QED
  BY <1>1, PairingInvariance, PTL

\* A paired session names a sender it paired, with the session's recipient
\* (pairing-service.ts:173-192).
THEOREM PairedSafe == Spec => []PairedNamesItsSender
<1>1. IInv => PairedNamesItsSender
  BY DEF IInv
<1>2. QED
  BY <1>1, PairingInvariance, PTL
-----------------------------------------------------------------------------
(* Status only moves forward *)

\* A stored session stays stored, with its deadline, and what was claimed or
\* approved stays so, while the clock goes on.
Forward ==
    /\ clock <= clock'
    /\ \A s \in Session : Exists(s) =>
          /\ session'[s].kind # "none" /\ session'[s].expiresAt = session[s].expiresAt
          /\ (session[s].claimed = TRUE) => (session'[s].claimed = TRUE)
          /\ (session[s].approved = TRUE) => (session'[s].approved = TRUE)

\* A step that replaces one session, if it exists by one that keeps these
\* columns, goes forward.
LEMMA OneRowForward ==
    ASSUME IInv, NEW s \in Session, NEW row, session' = [session EXCEPT ![s] = row], clock' = clock,
           Exists(s) =>
             /\ row.kind # "none" /\ row.expiresAt = session[s].expiresAt
             /\ (session[s].claimed = TRUE) => (row.claimed = TRUE)
             /\ (session[s].approved = TRUE) => (row.approved = TRUE)
    PROVE  Forward
<1>1. clock \in Nat /\ session'[s] = row /\ \A x \in Session : x # s => session'[x] = session[x]
  BY DEF IInv, PairingTypeOK
<1>2. QED
  BY <1>1 DEF Forward, Exists

\* Every step goes forward: sessions are only inserted, claimed and finished.
LEMMA StepForward == IInv /\ [Next]_vars => Forward
<1> SUFFICES ASSUME IInv, [Next]_vars PROVE Forward
  OBVIOUS
<1>t. clock \in Nat /\ session \in [Session -> SessionType]
  BY DEF IInv, PairingTypeOK
<1>1. CASE session' = session /\ clock <= clock'
  BY <1>1 DEF Forward, Exists
<1>2. ASSUME NEW r \in Request, NEW s \in Session, InsertEmailSession(r, s) PROVE Forward
  <2>1. ~Exists(s) /\ clock' = clock
    BY <1>2 DEF InsertEmailSession
  <2>2. PICK row : session' = [session EXCEPT ![s] = row]
    BY <1>2 DEF InsertEmailSession
  <2>3. QED
    BY <2>1, <2>2, OneRowForward
<1>3. ASSUME NEW s \in Session, InsertCodeSession(s) PROVE Forward
  <2>1. ~Exists(s) /\ clock' = clock
    BY <1>3 DEF InsertCodeSession
  <2>2. PICK row : session' = [session EXCEPT ![s] = row]
    BY <1>3 DEF InsertCodeSession
  <2>3. QED
    BY <2>1, <2>2, OneRowForward
<1>4. ASSUME NEW r \in Request, WriteClaim(r) PROVE Forward
  <2> DEFINE s == req[r].session
             row == [session[s] EXCEPT !.agent = req[r].agent, !.claimed = TRUE]
  <2>1. s \in Session /\ Exists(s) /\ session[s] \in SessionType
    BY <1>4, <1>t DEF WriteClaim, IInv, RequestInv
  <2>2. session' = [session EXCEPT ![s] = row] /\ clock' = clock
    BY <1>4, <1>t, <2>1 DEF WriteClaim
  <2>3. /\ row.kind = session[s].kind /\ row.expiresAt = session[s].expiresAt
        /\ row.claimed = TRUE /\ row.approved = session[s].approved
    BY <2>1 DEF SessionType
  <2> HIDE DEF s, row
  <2>4. QED
    BY <2>1, <2>2, <2>3, OneRowForward DEF Exists
<1>5. ASSUME NEW r \in Request, FinishSession(r) PROVE Forward
  <2> DEFINE s == req[r].session
             row == [session[s] EXCEPT !.recipient = req[r].recipient, !.sender = req[r].sender,
                                       !.approved = TRUE]
  <2>1. s \in Session /\ Exists(s) /\ session[s] \in SessionType
    BY <1>5, <1>t DEF FinishSession, IInv, RequestInv, MayPair
  <2>2. session' = [session EXCEPT ![s] = row] /\ clock' = clock
    BY <1>5, <1>t, <2>1 DEF FinishSession
  <2>3. /\ row.kind = session[s].kind /\ row.expiresAt = session[s].expiresAt
        /\ row.claimed = session[s].claimed /\ row.approved = TRUE
    BY <2>1 DEF SessionType
  <2> HIDE DEF s, row
  <2>4. QED
    BY <2>1, <2>2, <2>3, OneRowForward DEF Exists
<1>6. CASE Tick \/ UNCHANGED vars \/ \E s \in Session : ShowSender(s)
  BY <1>1, <1>6, <1>t DEF Tick, vars, ShowSender, tables
<1>7. ASSUME NEW r \in Request, RegisterStep(r) \/ Crash(r) PROVE Forward
  <2>1. CASE RegisterAlone(r) \/ Crash(r)
    BY <1>1, <1>t, <2>1 DEF RegisterAlone, Crash, tables
  <2>2. ASSUME NEW s \in Session, RegisterWithLink(r, s) PROVE Forward
    BY <1>1, <1>t, <2>2 DEF RegisterWithLink, tables
  <2>3. ASSUME NEW d \in Device, InsertDevice(r, d) PROVE Forward
    BY <1>1, <1>t, <2>3 DEF InsertDevice
  <2>4. QED
    BY <1>7, <2>1, <2>2, <2>3 DEF RegisterStep
<1>8. ASSUME NEW r \in Request, StartStep(r) PROVE Forward
  <2>1. ASSUME NEW a \in Agent, NEW e \in Email, ReadEmail(r, a, e) PROVE Forward
    BY <1>1, <1>t, <2>1 DEF ReadEmail, tables
  <2>2. ASSUME NEW rcp \in Recipient, InsertRecipient(r, rcp) PROVE Forward
    BY <1>1, <1>t, <2>2 DEF InsertRecipient
  <2>3. CASE InsertEmail(r)
    BY <1>1, <1>t, <2>3 DEF InsertEmail
  <2>4. ASSUME NEW s \in Session, NEW a \in Agent, ReadForClaim(r, s, a) PROVE Forward
    BY <1>1, <1>t, <2>4 DEF ReadForClaim, tables
  <2>5. QED
    BY <1>2, <1>4, <1>8, <2>1, <2>2, <2>3, <2>4 DEF StartStep
<1>9. ASSUME NEW r \in Request, ApproveStep(r) PROVE Forward
  <2>1. ASSUME NEW d \in Device, NEW s \in Session, RequestApproval(r, d, s) PROVE Forward
    BY <1>1, <1>t, <2>1 DEF RequestApproval, tables
  <2>2. CASE ReadForApproval(r)
    BY <1>1, <1>t, <2>2 DEF ReadForApproval, tables
  <2>3. CASE MoveDevice(r)
    BY <1>1, <1>t, <2>3 DEF MoveDevice
  <2>4. ASSUME NEW i \in SenderId, InsertSender(r, i) PROVE Forward
    BY <1>1, <1>t, <2>4 DEF InsertSender
  <2>5. QED
    BY <1>5, <1>9, <2>1, <2>2, <2>3, <2>4 DEF ApproveStep
<1>10. QED
  BY <1>3, <1>6, <1>7, <1>8, <1>9 DEF Next

\* The status with a session, a clock, for the state before or after a step.
StatusOf(row, now) ==
    IF row.kind = "none" THEN "not_found"
    ELSE IF row.expiresAt < now THEN "expired"
    ELSE IF row.approved = TRUE THEN "paired"
    ELSE IF row.claimed = TRUE THEN "claimed" ELSE "pending"

\* Status is the answer for the session at the clock.
LEMMA StatusIs ==
    ASSUME PairingTypeOK, NEW s \in Session
    PROVE  Status(s) = StatusOf(session[s], clock)
<1>1. session[s].approved \in BOOLEAN /\ session[s].claimed \in BOOLEAN
  BY DEF PairingTypeOK, SessionType
<1>2. QED
  BY <1>1 DEF Status, StatusOf, Exists, Expired

\* So it is after a step.
LEMMA StatusIsNext ==
    ASSUME PairingTypeOK', NEW s \in Session
    PROVE  Status(s)' = StatusOf(session'[s], clock')
<1>1. session'[s].approved \in BOOLEAN /\ session'[s].claimed \in BOOLEAN
  BY DEF PairingTypeOK, SessionType
<1>2. QED
  BY <1>1 DEF Status, StatusOf, Exists, Expired

\* The order of the answers.
LEMMA Ranks ==
    /\ Rank("not_found") = 0 /\ Rank("pending") = 1 /\ Rank("claimed") = 2
    /\ Rank("paired") = 3 /\ Rank("expired") = 4
BY DEF Rank

\* A later row at a later time has no lower status.
LEMMA RankForward ==
    ASSUME NEW old \in SessionType, NEW new \in SessionType, NEW t \in Nat, NEW u \in Nat, t <= u,
           old.kind # "none" =>
             /\ new.kind # "none" /\ new.expiresAt = old.expiresAt
             /\ (old.claimed = TRUE) => (new.claimed = TRUE)
             /\ (old.approved = TRUE) => (new.approved = TRUE)
    PROVE  Rank(StatusOf(old, t)) <= Rank(StatusOf(new, u))
<1>1. old.expiresAt \in Nat /\ new.expiresAt \in Nat
  BY DEF SessionType
<1>2. QED
  BY <1>1, Ranks DEF StatusOf

\* The status an agent polls only moves forward, however claims, approvals and
\* the clock interleave (pairing-service.ts:118-123, 187-192, 198-214).
THEOREM StatusForward == Spec => StatusMovesForward
<1>1. IInv /\ IInv' /\ [Next]_vars => [\A s \in Session : Rank(Status(s)) <= Rank(Status(s)')]_vars
  <2> SUFFICES ASSUME IInv, IInv', [Next]_vars, NEW s \in Session
               PROVE  Rank(Status(s)) <= Rank(Status(s)')
    OBVIOUS
  <2>1. Status(s) = StatusOf(session[s], clock)
    BY StatusIs DEF IInv
  <2>2. Status(s)' = StatusOf(session'[s], clock')
    BY StatusIsNext DEF IInv
  <2>3. /\ session[s] \in SessionType /\ session'[s] \in SessionType
        /\ clock \in Nat /\ clock' \in Nat
    BY DEF IInv, PairingTypeOK
  <2>4. Rank(StatusOf(session[s], clock)) <= Rank(StatusOf(session'[s], clock'))
    BY <2>3, StepForward, RankForward DEF Forward, Exists
  <2>5. QED
    BY <2>1, <2>2, <2>4
<1>2. QED
  BY <1>1, PairingInvariance, PTL DEF Spec, StatusMovesForward
=============================================================================
