------------------------ MODULE DevicePairing_proofs ------------------------
(***************************************************************************)
(* Theorems about DevicePairing, for any finite sets of sessions and slots *)
(* for approvals and any bounds.                                           *)
(***************************************************************************)
EXTENDS DevicePairing, FiniteSetTheorems, TLAPS

-----------------------------------------------------------------------------
(* The inductive invariant.  Its parts about one state of the app or one    *)
(* approval take the server's tables as parameters, so that they can be     *)
(* stated of the tables before and after a step.                            *)

\* A session is taken for approved only when it is; that of an e-mail belongs
\* to the recipient of the address, a code to nobody before its approval.
RowInv ==
    \A s \in Session :
        /\ session[s].by # None => session[s].stage = "approved"
        /\ s \in Link => session[s].stage # "none" /\ session[s].recipient = Account
        /\ s \in Code /\ session[s].stage # "approved" => session[s].recipient = None

\* The session of a link or of a pairing, if there is one, has been started.
Started(s, rows) == s # NoSession => rows[s].stage # "none"

\* Wherever the page takes a session from, it has been started.
StartedInv ==
    /\ \A copy \in Copies : Started(copy.pairing.session, session)
    /\ \A s \in offered : Started(s, session)
    /\ link # NoLink => link.session \in Link
    /\ watched # NoLink => watched.session \in Session /\ Started(watched.session, session)

\* A copy of the state has a device with being paired, and is paired as
\* ReadyIsPaired says.
Paired(copy, rows, homes, n) ==
    /\ copy.device # None => copy.ready /\ copy.device \in 1..n
    /\ copy.ready =>
          /\ copy.device # None /\ homes[copy.device] = copy.recipient
          /\ \E s \in copy.senders : rows[s].by = copy.device

CopyInv == \A copy \in Copies : Paired(copy, session, home, created)

\* What an approval relies on at its next request.
OpInv(op, rows, homes, n) ==
    LET s == op.base.pairing.session IN
    /\ op.pc = "idle" => op = Idle
    /\ op.pc # "idle" => s \in Session /\ rows[s].stage # "none"
    /\ op.pc = "register" /\ s \in Link => op.to = Account
    /\ op.pc \in {"approve", "push", "list"} => op.device \in 1..n
    /\ op.pc = "approve" /\ s \in Link => homes[op.device] = Account
    /\ op.pc \in {"push", "list"} =>
          /\ homes[op.device] = op.to
          /\ rows[s].stage = "approved" /\ rows[s].by = op.device /\ rows[s].recipient = op.to

ApprovalInv == \A a \in Approval : OpInv(approval[a], session, home, created)

\* There is an identity left for every approval that has yet to create one.
Unregistered == {a \in Approval : approval[a].pc \in {"status", "register"}}
BoundInv == created + Cardinality(Unregistered) <= MaxDevices

\* The sender of a pairing is that of its session.
Shown(p) == p.sender \in {NoSession, p.session}
ShownInv ==
    ~mixed =>
        /\ \A copy \in Copies : Shown(copy.pairing)
        /\ \A a \in Approval : approval[a].pc # "idle" =>
              approval[a].base.pairing.sender = approval[a].base.pairing.session

\* Approvals and subscriptions belong to an open page, whose callbacks read
\* the same answer to "paired?" as React has.
PageInv ==
    /\ page = "closed" => state = DefaultState /\ pushes = {} /\ offered = {} /\ checks = {}
    /\ page # "open" => \A a \in Approval : approval[a].pc = "idle"
    /\ page = "open" => state.ready = ref.ready

\* While no approval met another: only one is in flight, on a phone that is not
\* paired, whose subscription is for the device in its state, ...
AloneInv ==
    ~rival =>
        /\ \A a, b \in Approval : approval[a].pc # "idle" /\ approval[b].pc # "idle" => a = b
        /\ \A a \in Approval : approval[a].pc # "idle" => ~state.ready
        /\ \A d \in pushes : d = state.device
        /\ page = "open" /\ stored.device # None => state.device = stored.device

\* ... a subscription taken for stored is, ...
GrantedInv ==
    ~rival =>
        /\ \A copy \in Copies : copy.ready /\ copy.push = "granted" => copy.device \in subscribed
        /\ \A a \in Approval : approval[a].pc = "list" /\ approval[a].base.push = "granted" =>
              approval[a].device \in subscribed

\* ... and the keys of a device that approved a session are held.
HeldInv == PairedKeysAreHeld

IInv ==
    /\ OnboardTypeOK /\ RowInv /\ StartedInv /\ CopyInv /\ ApprovalInv /\ BoundInv
    /\ ShownInv /\ PageInv /\ AloneInv /\ GrantedInv /\ HeldInv

-----------------------------------------------------------------------------
(* What the operators return *)

\* The parameters are natural numbers and None is no device and no recipient.
LEMMA Numbers ==
    /\ MaxDevices \in Nat /\ MaxDevices >= 1 /\ MaxEvents \in Nat
    /\ Device = 1..MaxDevices /\ None = 0 /\ None \notin Device
    /\ Account = Elsewhere /\ Account \in Nat /\ Account # None /\ Account \notin Device
    /\ Recipient = Device \cup {Account}
BY PairingAssumption DEF PairingAssumption, Device, None, Account, Elsewhere, Recipient

\* A new pairing is well typed and shows no sender.
LEMMA PairType ==
    ASSUME NEW status \in Status, NEW s \in Session \cup {NoSession}, NEW secret \in BOOLEAN
    PROVE  /\ Pair(status, s, secret) \in PairingState
           /\ Pair(status, s, secret).session = s
           /\ Pair(status, s, secret).sender = NoSession
           /\ Shown(Pair(status, s, secret))
BY DEF Pair, PairingState, Shown

\* The state the app begins with is well typed and not paired.
LEMMA DefaultType ==
    /\ DefaultState \in AppState
    /\ DefaultState.device = None /\ ~DefaultState.ready /\ DefaultState.push = "default"
    /\ DefaultState.pairing.session = NoSession /\ DefaultState.pairing.sender = NoSession
<1>1. Pair("idle", NoSession, FALSE) \in PairingState
  BY PairType DEF Status
<1>2. Pair("idle", NoSession, FALSE).session = NoSession /\ Pair("idle", NoSession, FALSE).sender = NoSession
  BY DEF Pair
<1> QED BY <1>1, <1>2 DEF DefaultState, AppState, PushState

\* A slot without an approval is well typed.
LEMMA IdleType ==
    /\ Idle \in ApprovalType /\ Idle.pc = "idle"
BY DefaultType DEF Idle, ApprovalType

\* Two states of the app with the same identity, paired or not.
SameIdentity(x, y) ==
    x.device = y.device /\ x.recipient = y.recipient /\ x.ready = y.ready /\ x.senders = y.senders

\* To replace the pairing of a state changes nothing else of it.
LEMMA PairingSet ==
    ASSUME NEW st \in AppState, NEW p \in PairingState
    PROVE  LET new == [st EXCEPT !.pairing = p]
           IN  new \in AppState /\ new.pairing = p /\ new.push = st.push /\ SameIdentity(new, st)
BY DEF AppState, SameIdentity

\* To replace the status of a pairing changes nothing else of the state.
LEMMA StatusSet ==
    ASSUME NEW st \in AppState, NEW status \in Status
    PROVE  LET new == [st EXCEPT !.pairing.status = status]
           IN  /\ new \in AppState /\ new.push = st.push /\ SameIdentity(new, st)
               /\ new.pairing.session = st.pairing.session
               /\ new.pairing.sender = st.pairing.sender
<1> DEFINE p == [st.pairing EXCEPT !.status = status]
<1>1. p \in PairingState /\ p.session = st.pairing.session /\ p.sender = st.pairing.sender
  BY DEF AppState, PairingState
<1>2. [st EXCEPT !.pairing.status = status] = [st EXCEPT !.pairing = p]
  BY DEF AppState
<1> HIDE DEF p
<1> QED BY <1>1, <1>2, PairingSet

\* To replace what is known of notifications changes nothing else of a state.
LEMMA PushSet ==
    ASSUME NEW st \in AppState, NEW push \in PushState
    PROVE  LET new == [st EXCEPT !.push = push]
           IN  new \in AppState /\ new.push = push /\ new.pairing = st.pairing /\ SameIdentity(new, st)
BY DEF AppState, SameIdentity

\* A link replaces at most the pairing, by one that shows no sender.
LEMMA LoadedLink ==
    ASSUME NEW st \in AppState, link \in PairingLink
    PROVE  LET new == LoadPairingLink(st)
           IN  /\ new \in AppState /\ new.push = st.push /\ SameIdentity(new, st)
               /\ \/ new.pairing = st.pairing
                  \/ link # NoLink /\ new.pairing.session = link.session /\ Shown(new.pairing)
<1> DEFINE p == Pair("email_link", link.session, link.secret)
<1>1. p \in PairingState /\ p.session = link.session /\ Shown(p)
  BY PairType DEF Status, PairingLink
<1>2. SameIdentity(st, st)
  BY DEF SameIdentity
<1> HIDE DEF p
<1>3. [st EXCEPT !.pairing = p] \in AppState /\ [st EXCEPT !.pairing = p].pairing = p
      /\ [st EXCEPT !.pairing = p].push = st.push /\ SameIdentity([st EXCEPT !.pairing = p], st)
  BY <1>1, PairingSet
<1>4. CASE link # NoLink /\ LoadPairingLink(st) = [st EXCEPT !.pairing = p]
  BY <1>1, <1>3, <1>4
<1>5. CASE LoadPairingLink(st) = st
  BY <1>2, <1>5
<1> QED BY <1>4, <1>5 DEF LoadPairingLink, p

\* What the server tells of a session that was started.  It names a sender only
\* before the session expires or is approved, and then its recipient.
LEMMA RemoteType ==
    ASSUME OnboardTypeOK, NEW s \in Session, session[s].stage # "none", NEW secret \in BOOLEAN
    PROVE  LET remote == PairingStatus(s, secret)
           IN  /\ remote \in Remote
               /\ remote.sender = TRUE => /\ session[s].stage # "approved"
                                          /\ remote.recipient = session[s].recipient
<1> DEFINE row == session[s]
<1>0. /\ row.stage \in {"none", "pending", "claimed", "approved"} /\ row.expired \in BOOLEAN
      /\ row.recipient \in Recipient \cup {None}
  BY DEF OnboardTypeOK
<1>1. Reveals(s, secret) \in BOOLEAN
  BY DEF Reveals
<1>2. CASE row.expired
  <2>1. PairingStatus(s, secret) = [status |-> "expired", sender |-> FALSE, recipient |-> None]
    BY <1>2 DEF PairingStatus
  <2> QED BY <2>1 DEF Remote
<1>3. CASE ~row.expired /\ row.stage = "approved"
  <2>1. PairingStatus(s, secret) = [status |-> "paired", sender |-> FALSE, recipient |-> row.recipient]
    BY <1>3 DEF PairingStatus
  <2> QED BY <1>0, <2>1 DEF Remote
<1>4. CASE ~row.expired /\ row.stage # "approved"
  <2>1. PairingStatus(s, secret) =
          [status |-> row.stage, sender |-> Reveals(s, secret),
           recipient |-> IF Reveals(s, secret) THEN row.recipient ELSE None]
    BY <1>4 DEF PairingStatus
  <2> QED BY <1>0, <1>1, <1>4, <2>1 DEF Remote
<1> QED BY <1>0, <1>2, <1>3, <1>4

\* An answer of the server changes the status of a pairing and shows at most
\* the sender of the session that is watched.
LEMMA AppliedStatus ==
    ASSUME watched \in PairingLink, NEW p \in PairingState, NEW remote \in Remote
    PROVE  LET new == ApplyPairingStatus(p, remote)
           IN  /\ new \in PairingState /\ new.session = p.session
               /\ new.sender \in {p.sender, watched.session}
<1> DEFINE status == IF remote.status = "claimed" THEN "claimed"
                     ELSE IF p.status = "email_link" THEN "email_link" ELSE "pending"
           sender == IF remote.sender THEN watched.session ELSE p.sender
<1>1. status \in Status /\ sender \in Session \cup {NoSession} /\ sender \in {p.sender, watched.session}
  BY DEF Status, PairingLink, PairingState
<1> HIDE DEF status, sender
<1>2. CASE remote.status \in {"claimed", "pending"}
  <2>1. ApplyPairingStatus(p, remote) = [p EXCEPT !.status = status, !.sender = sender]
    BY <1>2 DEF ApplyPairingStatus, status, sender
  <2> QED BY <1>1, <2>1 DEF PairingState
<1>3. CASE remote.status = "expired"
  <2>1. ApplyPairingStatus(p, remote) = [p EXCEPT !.status = "expired"]
    BY <1>3 DEF ApplyPairingStatus
  <2> QED BY <2>1 DEF PairingState, Status
<1>4. CASE remote.status = "paired"
  <2>1. ApplyPairingStatus(p, remote) = p
    BY <1>4 DEF ApplyPairingStatus
  <2> QED BY <2>1
<1> QED BY <1>2, <1>3, <1>4 DEF Remote

\* The sessions taken away are finitely many, so a step that may happen keeps
\* every count within its bound.
LEMMA MayHappenBounds ==
    ASSUME OnboardTypeOK, MayHappen
    PROVE  faults + 1 \in 0..MaxEvents /\ closes + 1 \in 0..MaxEvents /\ asked + 1 \in 0..MaxEvents
<1>1. Cardinality(Gone) \in Nat
  BY FS_Subset, FS_CardinalityType, PairingAssumption DEF PairingAssumption, Gone
<1> QED BY <1>1, Numbers DEF OnboardTypeOK, MayHappen

-----------------------------------------------------------------------------
(* Steps of the server's tables *)

\* No step takes back what was started, approved, registered or subscribed.
RowsGrow ==
    /\ \A s \in Session :
          /\ session[s].stage # "none" => session'[s].stage # "none"
          /\ session[s].stage = "approved" =>
                /\ session'[s].stage = "approved" /\ session'[s].by = session[s].by
                /\ session'[s].recipient = session[s].recipient
    /\ created <= created' /\ \A d \in 1..created : home'[d] = home[d]
    /\ subscribed \subseteq subscribed'

\* A session that was not approved is given a stage, ...
SetStage(s, stage) ==
    session[s].stage # "approved" /\ stage # "none" /\ stage # "approved"
    /\ session' = [session EXCEPT ![s].stage = stage]

\* ... or is approved by a device, for its recipient or else one of the device.
SetApproved(s, d, recipient) ==
    /\ session[s].stage \in {"pending", "claimed"}
    /\ session[s].recipient # None => recipient = session[s].recipient
    /\ session' = [session EXCEPT ![s].stage = "approved", ![s].by = d, ![s].recipient = recipient]

\* A stage keeps the rows in order.
LEMMA StageKeeps ==
    ASSUME OnboardTypeOK, RowInv, NEW s \in Session, SetStage(s, "pending") \/ SetStage(s, "claimed")
    PROVE  /\ RowInv' /\ \A x \in Session : session'[x].by = session[x].by
           /\ session'[s].stage # "none"
           /\ \A x \in Session :
                /\ session[x].stage # "none" => session'[x].stage # "none"
                /\ session[x].stage = "approved" => session'[x] = session[x]
<1>1. PICK stage \in {"pending", "claimed"} : SetStage(s, stage)
  OBVIOUS
<1>2. /\ \A x \in Session : session'[x].by = session[x].by /\ session'[x].recipient = session[x].recipient
      /\ \A x \in Session : x # s => session'[x] = session[x]
      /\ session'[s].stage = stage /\ session[s].stage # "approved"
  BY <1>1 DEF SetStage, OnboardTypeOK
<1>3. session[s].by = None
  BY <1>2 DEF RowInv
<1>4. RowInv'
  BY <1>1, <1>2, <1>3 DEF RowInv
<1> QED BY <1>1, <1>2, <1>4

\* So does an approval, if the session was started.
LEMMA ApprovedKeeps ==
    ASSUME OnboardTypeOK, RowInv, NEW s \in Session, NEW d \in Device \cup {Elsewhere},
           NEW recipient \in Recipient \cup {None}, SetApproved(s, d, recipient)
    PROVE  /\ RowInv' /\ \A x \in Session : x # s => session'[x] = session[x]
           /\ session'[s].stage = "approved" /\ session'[s].by = d
           /\ session'[s].recipient = recipient
           /\ \A x \in Session :
                /\ session[x].stage # "none" => session'[x].stage # "none"
                /\ session[x].stage = "approved" => session'[x] = session[x]
<1>1. /\ \A x \in Session : x # s => session'[x] = session[x]
      /\ session'[s].stage = "approved" /\ session'[s].by = d /\ session'[s].recipient = recipient
      /\ session[s].stage # "approved"
      /\ session[s].recipient # None => recipient = session[s].recipient
  BY DEF SetApproved, OnboardTypeOK
<1>2. s \in Link => recipient = Account
  BY <1>1, Numbers DEF RowInv
<1>3. RowInv'
  BY <1>1, <1>2 DEF RowInv
<1> QED BY <1>1, <1>3

\* The approval of a session on the server is such a step.
LEMMA ApproveSessionSets ==
    ASSUME OnboardTypeOK, NEW a \in Approval, ApproveSession(a)
    PROVE  LET s == approval[a].base.pairing.session
               d == approval[a].device
           IN  SetApproved(s, d, IF session[s].recipient = None THEN home[d] ELSE session[s].recipient)
BY DEF ApproveSession, SetApproved, Unused

\* The rows and the recipients stay in order at every step, and only grow.
LEMMA RowsStep == IInv /\ [Next]_vars => RowInv' /\ RowsGrow
<1> SUFFICES ASSUME IInv, [Next]_vars PROVE RowInv' /\ RowsGrow
  OBVIOUS
<1> USE DEF IInv
<1>t. /\ created \in Nat /\ \A s \in Session : session[s].stage \in {"none", "pending", "claimed", "approved"}
  BY Numbers DEF OnboardTypeOK
<1>1. CASE UNCHANGED <<session, home, created>> /\ subscribed \subseteq subscribed'
  <2>1. RowInv'
    BY <1>1 DEF RowInv
  <2> QED BY <1>1, <1>t, <2>1 DEF RowsGrow
<1>2. ASSUME NEW s \in Session, Claim(s) PROVE RowInv' /\ RowsGrow
  <2>1. SetStage(s, "claimed") /\ UNCHANGED <<home, created, subscribed>>
    BY <1>2 DEF Claim, SetStage, bounds
  <2> QED BY <1>t, <2>1, StageKeeps DEF RowsGrow
<1>3. ASSUME NEW s \in Session, Expire(s) PROVE RowInv' /\ RowsGrow
  <2>1. UNCHANGED <<home, created, subscribed>>
    BY <1>3 DEF Expire, bounds
  <2>2. \A x \in Session : /\ session'[x].stage = session[x].stage /\ session'[x].by = session[x].by
                           /\ session'[x].recipient = session[x].recipient
    BY <1>3 DEF Expire, OnboardTypeOK
  <2>3. RowInv'
    BY <2>2 DEF RowInv
  <2> QED BY <1>t, <2>1, <2>2, <2>3 DEF RowsGrow
<1>4. ASSUME NEW s \in Session, ApproveElsewhere(s) PROVE RowInv' /\ RowsGrow
  <2>1. UNCHANGED <<home, created, subscribed>>
    BY <1>4 DEF ApproveElsewhere, bounds
  <2>2. SetApproved(s, Elsewhere, session[s].recipient)
    BY <1>4 DEF ApproveElsewhere, SetApproved, Unused, OnboardTypeOK
  <2>3. session[s].recipient \in Recipient \cup {None}
    BY DEF OnboardTypeOK
  <2> QED BY <1>t, <2>1, <2>2, <2>3, ApprovedKeeps DEF RowsGrow
<1>5. CASE StartPairing
  <2>1. PICK s \in Session : SetStage(s, "pending")
    BY <1>5 DEF StartPairing, SetStage, Session
  <2>2. UNCHANGED <<home, created, subscribed>>
    BY <1>5 DEF StartPairing, bounds
  <2> QED BY <1>t, <2>1, <2>2, StageKeeps DEF RowsGrow
<1>6. ASSUME NEW a \in Approval, approval[a].pc = "approve", ApproveSession(a),
             UNCHANGED <<home, created, subscribed>>
      PROVE  RowInv' /\ RowsGrow
  <2> DEFINE s == approval[a].base.pairing.session
             d == approval[a].device
             recipient == IF session[s].recipient = None THEN home[d] ELSE session[s].recipient
  <2>1. SetApproved(s, d, recipient)
    BY <1>6, ApproveSessionSets
  <2>2. s \in Session /\ d \in 1..created
    BY <1>6 DEF ApprovalInv, OpInv
  <2>3. d \in Device /\ recipient \in Recipient \cup {None}
    BY <2>2, Numbers DEF OnboardTypeOK
  <2> HIDE DEF s, d, recipient
  <2> QED BY <1>t, <1>6, <2>1, <2>2, <2>3, ApprovedKeeps DEF RowsGrow
<1>7. ASSUME NEW a \in Approval, created' = created + 1, Register(a, created + 1),
             UNCHANGED <<session, subscribed>>
      PROVE  RowInv' /\ RowsGrow
  <2>1. RowInv'
    BY <1>7 DEF RowInv
  <2>2. created + 1 \notin 1..created /\ created <= created + 1
    BY <1>t
  <2>3. \A d \in 1..created : home'[d] = home[d]
    <3> SUFFICES ASSUME NEW d \in 1..created PROVE home'[d] = home[d]
      OBVIOUS
    <3>1. d \in Device
      BY Numbers DEF OnboardTypeOK
    <3> QED BY <1>7, <2>2, <3>1 DEF Register, OnboardTypeOK
  <2> QED BY <1>7, <2>1, <2>2, <2>3 DEF RowsGrow
<1>8. CASE OpenPage \/ Render \/ Close \/ Check \/ CheckAnswered \/ RequestPush \/ UNCHANGED vars
  BY <1>1, <1>8 DEF OpenPage, Render, Close, Check, CheckAnswered, RequestPush, vars, serverVars, bounds
<1>9. ASSUME NEW s \in Session, CodeReady(s) \/ StartFails(s) PROVE RowInv' /\ RowsGrow
  BY <1>1, <1>9 DEF CodeReady, StartFails, serverVars, bounds
<1>10. ASSUME NEW d \in Device, PushStored(d) \/ PushFails(d) PROVE RowInv' /\ RowsGrow
  BY <1>1, <1>10 DEF PushStored, PushFails, Subscribe, serverVars, bounds
<1>11. ASSUME NEW a \in Approval, Approve(a) \/ ReadStatus(a) \/ PushSynced(a) \/ EndPairing(a)
       PROVE  RowInv' /\ RowsGrow
  BY <1>1, <1>11 DEF Approve, ReadStatus, PushSynced, EndPairing, Subscribe, serverVars, bounds
<1>12. ASSUME NEW a \in Approval, RegisterDevice(a) PROVE RowInv' /\ RowsGrow
  BY <1>7, <1>12 DEF RegisterDevice
<1>13. ASSUME NEW a \in Approval, Approved(a) PROVE RowInv' /\ RowsGrow
  BY <1>6, <1>13 DEF Approved, bounds
<1>14. ASSUME NEW a \in Approval, PairingFails(a) PROVE RowInv' /\ RowsGrow
  <2>1. CASE UNCHANGED <<session, home, created>> /\ Subscribe(approval[a].device)
    BY <1>1, <2>1 DEF Subscribe
  <2>2. CASE UNCHANGED <<serverVars, created>>
    BY <1>1, <2>2 DEF serverVars
  <2> QED BY <1>6, <1>7, <1>14, <2>1, <2>2 DEF PairingFails
<1> QED BY <1>2, <1>3, <1>4, <1>5, <1>8, <1>9, <1>10, <1>11, <1>12, <1>13, <1>14 DEF Next, ApprovalStep

-----------------------------------------------------------------------------
(* Steps that leave the identity of the phone and its approvals alone *)

\* The sessions of the server.
Rows == [Session -> [stage : {"none", "pending", "claimed", "approved"}, expired : BOOLEAN,
                     recipient : Recipient \cup {None}, by : Device \cup {None, Elsewhere}]]

\* Such a step may change the pairing of the state and what is known of its
\* notifications, and session rows, but lets no device approve one.
Quiet ==
    /\ UNCHANGED <<home, page, ref, stored, watched, approval, created, rival, closes>>
    /\ pushes' \subseteq pushes /\ faults <= faults'
    /\ link' \in {link, NoLink}
    /\ \A s \in offered' : s \in offered \/ session'[s].stage # "none"
    /\ page = "closed" => UNCHANGED <<state, offered, checks>>
    /\ SameIdentity(state', state)
    /\ state'.push = "granted" => state.push = "granted" \/ \E d \in pushes : d \in subscribed'
    /\ Started(state'.pairing.session, session')
    /\ ~mixed' => ~mixed /\ (Shown(state.pairing) => Shown(state'.pairing))
    /\ \A s \in Session : session'[s].by \in Device => session'[s].by = session[s].by

\* A session is of one kind, and no session is no session.
LEMMA Sessions ==
    /\ Link \subseteq Session /\ Code \subseteq Session /\ NoSession \notin Session
    /\ \A s \in Session : s \in Link \/ s \in Code
BY PairingAssumption DEF PairingAssumption, Session

\* An update makes a well-typed state the state.
LEMMA UpdateType ==
    ASSUME OnboardTypeOK, NEW new \in AppState, Update(new)
    PROVE  state' = new /\ state' \in AppState /\ dirty' \in BOOLEAN
BY DEF Update, OnboardTypeOK

\* The copies of the state and their parts are well typed.
LEMMA CopyTypes ==
    ASSUME OnboardTypeOK, NEW copy \in Copies
    PROVE  /\ copy \in AppState /\ copy.pairing \in PairingState
           /\ copy.device \in Device \cup {None} /\ copy.ready \in BOOLEAN
           /\ copy.push \in PushState /\ copy.senders \subseteq Session
           /\ copy.recipient \in Recipient \cup {None}
           /\ copy.pairing.session \in Session \cup {NoSession}
           /\ copy.pairing.sender \in Session \cup {NoSession}
           /\ copy.pairing.secret \in BOOLEAN
<1>1. copy \in AppState
  BY DEF Copies, OnboardTypeOK
<1>2. copy.pairing \in PairingState
  BY <1>1 DEF AppState
<1> QED BY <1>1, <1>2 DEF AppState, PairingState

\* A started session stays started.
LEMMA StartedStays ==
    ASSUME RowsGrow, NEW s \in Session \cup {NoSession}, Started(s, session)
    PROVE  Started(s, session')
BY DEF Started, RowsGrow

\* A state with the identity and the pairing it had changes nothing.
LEMMA SameState ==
    ASSUME IInv, RowsGrow, state'.pairing = state.pairing \/ state'.pairing.session = state.pairing.session
    PROVE  Started(state'.pairing.session, session')
<1>1. state.pairing.session \in Session \cup {NoSession} /\ Started(state.pairing.session, session)
  BY CopyTypes DEF IInv, StartedInv, Copies
<1> QED BY <1>1, StartedStays

\* Nothing happens, or only the tables of the server change.
LEMMA ServerIsQuiet ==
    ASSUME IInv, RowsGrow, UNCHANGED <<home, pageVars, offered, approval, pushes, mixed, rival, bounds>>,
           \A s \in Session : session'[s].by \in Device => session'[s].by = session[s].by
    PROVE  Quiet
<1> USE DEF IInv
<1>1. Started(state'.pairing.session, session')
  BY SameState DEF pageVars
<1>2. faults <= faults'
  BY DEF bounds, OnboardTypeOK
<1>3. SameIdentity(state', state)
  BY DEF pageVars, SameIdentity
<1> QED BY <1>1, <1>2, <1>3 DEF Quiet, pageVars, bounds

\* Claims, expiry, approvals elsewhere and stuttering are quiet.
LEMMA ServerSteps ==
    ASSUME IInv, RowsGrow,
           UNCHANGED vars \/ \E s \in Session : Claim(s) \/ Expire(s) \/ ApproveElsewhere(s)
    PROVE  Quiet /\ OnboardTypeOK'
<1> USE DEF IInv
<1>1. CASE UNCHANGED vars
  <2>1. OnboardTypeOK'
    BY <1>1 DEF OnboardTypeOK, vars, serverVars, pageVars, bounds
  <2> QED BY <1>1, <2>1, ServerIsQuiet DEF vars, serverVars
<1>2. ASSUME NEW s \in Session, Claim(s) \/ Expire(s) \/ ApproveElsewhere(s)
      PROVE  Quiet /\ OnboardTypeOK'
  <2>1. UNCHANGED <<home, subscribed, pageVars, offered, approval, pushes, permission, mixed, rival,
                    bounds>>
    BY <1>2 DEF Claim, Expire, ApproveElsewhere
  <2>2. /\ session' \in Rows
        /\ \A x \in Session : session'[x].by = session[x].by \/ session'[x].by = Elsewhere
    <3>0. session \in Rows
      BY DEF OnboardTypeOK, Rows
    <3>1. CASE session' = [session EXCEPT ![s].stage = "claimed"]
      BY <3>0, <3>1 DEF Rows
    <3>2. CASE session' = [session EXCEPT ![s].expired = TRUE]
      BY <3>0, <3>2 DEF Rows
    <3>3. CASE session' = [session EXCEPT ![s].stage = "approved", ![s].by = Elsewhere]
      BY <3>0, <3>3 DEF Rows
    <3> QED BY <1>2, <3>1, <3>2, <3>3 DEF Claim, Expire, ApproveElsewhere
  <2>3. OnboardTypeOK'
    BY <2>1, <2>2 DEF OnboardTypeOK, pageVars, bounds, Rows
  <2>4. Elsewhere \notin Device
    BY Numbers
  <2> QED BY <2>1, <2>2, <2>3, <2>4, ServerIsQuiet
<1> QED BY <1>1, <1>2

\* What a step on the setup screen has to show to be quiet and well typed,
\* apart from the typed changes it makes to the bounds.
Patch(new) ==
    /\ UNCHANGED <<home, page, ref, stored, watched, approval, created, rival, closes>>
    /\ page # "closed"
    /\ Update(new) /\ new \in AppState /\ SameIdentity(new, state)
    /\ link' \in {link, NoLink} /\ checks' \subseteq Remote
    /\ pushes' \subseteq pushes
    /\ faults' \in 0..MaxEvents /\ faults <= faults' /\ asked' \in 0..MaxEvents

\* A patched state is well typed if the tables are.
LEMMA PatchTypes ==
    ASSUME IInv, NEW new, Patch(new), offered' \subseteq Code, subscribed' \subseteq Device,
           permission' \in {"default", "granted", "denied"}, mixed' \in BOOLEAN,
           session' \in Rows
    PROVE  OnboardTypeOK' /\ state' = new
<1> USE DEF IInv
<1>1. state' = new /\ state' \in AppState /\ dirty' \in BOOLEAN
  BY UpdateType DEF Patch
<1>2. NoLink \in PairingLink
  BY DEF NoLink, PairingLink
<1> QED BY <1>1, <1>2 DEF OnboardTypeOK, Patch, Rows

\* A patched state is quiet if its pairing and its push state are in order.
LEMMA PatchQuiet ==
    ASSUME IInv, NEW new, Patch(new),
           \A s \in Session : session'[s].by \in Device => session'[s].by = session[s].by,
           \A s \in offered' : s \in offered \/ session'[s].stage # "none",
           new.push = "granted" => state.push = "granted" \/ \E d \in pushes : d \in subscribed',
           Started(new.pairing.session, session'),
           ~mixed' => ~mixed /\ (Shown(state.pairing) => Shown(new.pairing))
    PROVE  Quiet
<1>1. state' = new
  BY UpdateType DEF Patch, IInv
<1> QED BY <1>1 DEF Quiet, Patch

\* The copies hold a well-typed state; the page renders what React has.
LEMMA StateTypes ==
    ASSUME IInv
    PROVE  /\ state \in AppState /\ state.pairing \in PairingState
           /\ state.pairing.session \in Session \cup {NoSession}
           /\ Started(state.pairing.session, session)
BY CopyTypes DEF IInv, StartedInv, Copies

\* A question to the server changes no state, and its answer is well typed.
LEMMA CheckIsQuiet == ASSUME IInv, RowsGrow, Check PROVE Quiet /\ OnboardTypeOK'
<1> USE DEF IInv
<1> DEFINE remote == PairingStatus(watched.session, watched.secret)
<1>1. watched.session \in Session /\ session[watched.session].stage # "none" /\ watched.secret \in BOOLEAN
  BY Sessions DEF Check, StartedInv, Started, OnboardTypeOK, PairingLink
<1>2. remote \in Remote
  BY <1>1, RemoteType
<1>3. checks' = checks \cup {remote}
      /\ UNCHANGED <<serverVars, page, link, state, dirty, ref, stored, watched, offered, approval,
                     pushes, permission, mixed, rival, bounds>>
      /\ page = "open"
  BY DEF Check
<1> HIDE DEF remote
<1>4. OnboardTypeOK'
  BY <1>2, <1>3 DEF OnboardTypeOK, serverVars, bounds
<1>5. Started(state'.pairing.session, session')
  BY <1>3, SameState
<1>6. faults <= faults' /\ SameIdentity(state', state)
  BY <1>3 DEF OnboardTypeOK, bounds, SameIdentity
<1> QED BY <1>3, <1>4, <1>5, <1>6 DEF Quiet, serverVars, bounds

\* The count of failed requests is unchanged or within its bound.
LEMMA FaultCount ==
    ASSUME IInv, UNCHANGED bounds \/ (Fault /\ UNCHANGED <<created, closes, asked>>)
    PROVE  /\ faults' \in 0..MaxEvents /\ faults <= faults' /\ asked' \in 0..MaxEvents
           /\ UNCHANGED <<created, closes>>
BY MayHappenBounds DEF IInv, OnboardTypeOK, bounds, Fault

\* An answer changes the pairing there is.
LEMMA AnswerIsQuiet == ASSUME IInv, RowsGrow, CheckAnswered PROVE Quiet /\ OnboardTypeOK'
<1> USE DEF IInv
<1>1. PICK remote \in checks :
        /\ checks' = checks \ {remote}
        /\ Update([state EXCEPT !.pairing = ApplyPairingStatus(state.pairing, remote)])
        /\ mixed' = (mixed \/ state.pairing.session # watched.session)
        /\ UNCHANGED <<serverVars, page, link, ref, stored, watched, offered, approval, pushes,
                       permission, rival, bounds>>
  BY DEF CheckAnswered
<1> DEFINE p == ApplyPairingStatus(state.pairing, remote)
           new == [state EXCEPT !.pairing = p]
<1>2. p \in PairingState /\ p.session = state.pairing.session
      /\ p.sender \in {state.pairing.sender, watched.session}
  BY StateTypes, AppliedStatus DEF OnboardTypeOK
<1>3. Update(new)
  BY <1>1
<1> HIDE DEF p
<1>4. new \in AppState /\ new.pairing = p /\ new.push = state.push /\ SameIdentity(new, state)
  BY <1>2, StateTypes, PairingSet
<1>5. page # "closed"
  BY <1>1 DEF PageInv
<1> HIDE DEF new
<1>6. Patch(new)
  BY <1>1, <1>3, <1>4, <1>5, FaultCount DEF Patch, serverVars, bounds, OnboardTypeOK
<1>7. Started(new.pairing.session, session')
  BY <1>2, <1>4, StateTypes, StartedStays
<1>8. ~mixed' => ~mixed /\ (Shown(state.pairing) => Shown(new.pairing))
  BY <1>1, <1>2, <1>4 DEF Shown
<1>9. Quiet
  BY <1>1, <1>4, <1>6, <1>7, <1>8, PatchQuiet DEF serverVars
<1>10. mixed' \in BOOLEAN
  BY <1>1 DEF OnboardTypeOK
<1>11. OnboardTypeOK'
  BY <1>1, <1>6, <1>10, PatchTypes DEF serverVars, OnboardTypeOK, Rows
<1> QED BY <1>9, <1>11

\* A new code is offered to a page that starts over.
LEMMA StartIsQuiet == ASSUME IInv, RowsGrow, StartPairing PROVE Quiet /\ OnboardTypeOK'
<1> USE DEF IInv
<1> DEFINE p == Pair("starting", NoSession, FALSE)
           new == [state EXCEPT !.pairing = p]
<1>1. PICK s \in Code :
        /\ session[s].stage = "none"
        /\ session' = [session EXCEPT ![s].stage = "pending"]
        /\ offered' = offered \cup {s}
  BY DEF StartPairing
<1>2. /\ Update(new) /\ link' = NoLink /\ page = "open"
      /\ UNCHANGED <<home, subscribed, page, ref, stored, watched, checks, approval, pushes,
                     permission, mixed, rival, bounds>>
  BY DEF StartPairing, SetupScreen
<1>3. p \in PairingState /\ p.session = NoSession /\ Shown(p)
  BY PairType DEF Status
<1> HIDE DEF p
<1>4. new \in AppState /\ new.pairing = p /\ new.push = state.push /\ SameIdentity(new, state)
  BY <1>3, StateTypes, PairingSet
<1> HIDE DEF new
<1>5. Patch(new)
  BY <1>2, <1>4, FaultCount DEF Patch, bounds, OnboardTypeOK
<1>6. s \in Session /\ SetStage(s, "pending")
  BY <1>1, Sessions DEF SetStage
<1>7. session'[s].stage # "none" /\ \A x \in Session : session'[x].by = session[x].by
  BY <1>6, StageKeeps
<1>8. session' \in Rows
  BY <1>1, Sessions DEF OnboardTypeOK, Rows
<1>9. Quiet
  BY <1>1, <1>2, <1>3, <1>4, <1>5, <1>7, PatchQuiet DEF Started
<1>10. OnboardTypeOK'
  BY <1>1, <1>2, <1>5, <1>8, PatchTypes DEF OnboardTypeOK
<1> QED BY <1>9, <1>10

\* The code arrives, or the request for it fails.
LEMMA CodeIsQuiet ==
    ASSUME IInv, RowsGrow, NEW s \in Session, CodeReady(s) \/ StartFails(s)
    PROVE  Quiet /\ OnboardTypeOK'
<1> USE DEF IInv
<1> DEFINE p == Pair("code_ready", s, TRUE)
           ready == [state EXCEPT !.pairing = p]
           failed == [state EXCEPT !.pairing.status = "error"]
<1>1. /\ s \in offered /\ offered' = offered \ {s} /\ page # "closed"
      /\ UNCHANGED <<serverVars, page, link, ref, stored, watched, checks, approval, pushes,
                     permission, mixed, rival>>
      /\ faults' \in 0..MaxEvents /\ faults <= faults' /\ asked' \in 0..MaxEvents
      /\ UNCHANGED <<created, closes>>
  BY FaultCount DEF CodeReady, StartFails, PageInv
<1>2. s \in Session /\ Started(s, session)
  BY <1>1 DEF StartedInv
<1>3. ASSUME NEW new \in AppState, Update(new), SameIdentity(new, state), new.push = state.push,
             new.pairing.session \in {s, state.pairing.session},
             Shown(state.pairing) => Shown(new.pairing)
      PROVE  Quiet /\ OnboardTypeOK'
  <2>1. Patch(new)
    BY <1>1, <1>3 DEF Patch, OnboardTypeOK, serverVars
  <2>2. Started(new.pairing.session, session')
    BY <1>2, <1>3, StateTypes, StartedStays
  <2>3. Quiet
    BY <1>1, <1>3, <2>1, <2>2, PatchQuiet DEF serverVars
  <2>4. OnboardTypeOK'
    BY <1>1, <2>1, PatchTypes DEF serverVars, OnboardTypeOK, Rows
  <2> QED BY <2>3, <2>4
<1>4. CASE CodeReady(s)
  <2>1. p \in PairingState /\ p.session = s /\ Shown(p)
    BY PairType DEF Status
  <2>2. Update(ready)
    BY <1>4 DEF CodeReady
  <2> HIDE DEF p
  <2>3. ready \in AppState /\ ready.pairing = p /\ ready.push = state.push /\ SameIdentity(ready, state)
    BY <2>1, StateTypes, PairingSet
  <2> HIDE DEF ready
  <2> QED BY <1>3, <2>1, <2>2, <2>3
<1>5. CASE StartFails(s)
  <2>1. Update(failed)
    BY <1>5 DEF StartFails, ErrorState
  <2>2. failed \in AppState /\ failed.push = state.push /\ SameIdentity(failed, state)
        /\ failed.pairing.session = state.pairing.session /\ failed.pairing.sender = state.pairing.sender
    BY StateTypes, StatusSet DEF Status
  <2> HIDE DEF failed
  <2> QED BY <1>3, <2>1, <2>2 DEF Shown
<1> QED BY <1>4, <1>5

\* Notifications are asked for, a subscription is stored, or that fails: what
\* is known of notifications changes, never to enabled without a subscription.
LEMMA PushIsQuiet ==
    ASSUME IInv, RowsGrow, RequestPush \/ \E d \in Device : PushStored(d) \/ PushFails(d)
    PROVE  Quiet /\ OnboardTypeOK'
<1> USE DEF IInv
<1>1. ASSUME NEW push \in PushState, Update([state EXCEPT !.push = push]), page # "closed",
             push = "granted" => \E d \in pushes : d \in subscribed',
             UNCHANGED <<session, home, page, link, ref, stored, watched, checks, offered, approval,
                         mixed, rival, created, closes>>,
             pushes' \subseteq pushes, subscribed' \subseteq Device,
             permission' \in {"default", "granted", "denied"},
             faults' \in 0..MaxEvents, faults <= faults', asked' \in 0..MaxEvents
      PROVE  Quiet /\ OnboardTypeOK'
  <2> DEFINE new == [state EXCEPT !.push = push]
  <2>1. new \in AppState /\ new.push = push /\ new.pairing = state.pairing /\ SameIdentity(new, state)
    BY StateTypes, PushSet
  <2>2. Update(new)
    BY <1>1
  <2> HIDE DEF new
  <2>3. Patch(new)
    BY <1>1, <2>1, <2>2 DEF Patch, OnboardTypeOK
  <2>4. Started(new.pairing.session, session')
    BY <2>1, StateTypes, StartedStays
  <2>5. Quiet
    BY <1>1, <2>1, <2>3, <2>4, PatchQuiet
  <2>6. OnboardTypeOK'
    BY <1>1, <2>3, PatchTypes DEF OnboardTypeOK, Rows
  <2> QED BY <2>5, <2>6
<1>2. CASE RequestPush
  <2> DEFINE push == IF permission' = "granted" THEN "granted_missing_subscription" ELSE permission'
  <2>1. /\ permission' \in {"default", "granted", "denied"}
        /\ push \in PushState /\ push # "granted"
    BY <1>2 DEF RequestPush, PushState, OnboardTypeOK
  <2>2. /\ Update([state EXCEPT !.push = push]) /\ page = "open"
        /\ UNCHANGED <<serverVars, page, link, ref, stored, watched, checks, offered, approval, pushes,
                       mixed, rival, created, faults, closes>>
    BY <1>2 DEF RequestPush
  <2>3. asked' \in 0..MaxEvents
    BY <1>2, MayHappenBounds DEF RequestPush
  <2> HIDE DEF push
  <2>4. /\ UNCHANGED <<session, home, page, link, ref, stored, watched, checks, offered, approval,
                         mixed, rival, created, closes>>
        /\ pushes' \subseteq pushes /\ subscribed' \subseteq Device /\ page # "closed"
        /\ faults' \in 0..MaxEvents /\ faults <= faults'
    BY <2>2 DEF serverVars, OnboardTypeOK
  <2> QED BY <1>1, <2>1, <2>2, <2>3, <2>4
<1>3. ASSUME NEW d \in Device, PushStored(d) PROVE Quiet /\ OnboardTypeOK'
  <2>1. SyncedPush \in PushState /\ (SyncedPush = "granted" => permission = "granted")
    BY DEF SyncedPush, PushState
  <2>2. /\ Update([state EXCEPT !.push = SyncedPush]) /\ d \in pushes /\ pushes' = pushes \ {d}
        /\ UNCHANGED <<session, home, page, link, ref, stored, watched, checks, offered, approval,
                       permission, mixed, rival, bounds>>
    BY <1>3 DEF PushStored
  <2>3. /\ SyncedPush = "granted" => \E x \in pushes : x \in subscribed'
        /\ subscribed' \subseteq Device
    BY <1>3, <2>1, <2>2 DEF PushStored, Subscribe, OnboardTypeOK
  <2>4. page # "closed"
    BY <2>2 DEF PageInv
  <2> QED BY <1>1, <2>1, <2>2, <2>3, <2>4, FaultCount DEF bounds, OnboardTypeOK
<1>4. ASSUME NEW d \in Device, PushFails(d) PROVE Quiet /\ OnboardTypeOK'
  <2>1. /\ Update([state EXCEPT !.push = "paired_no_push"]) /\ d \in pushes /\ pushes' = pushes \ {d}
        /\ UNCHANGED <<serverVars, page, link, ref, stored, watched, checks, offered, approval,
                       permission, mixed, rival, created, closes, asked>>
        /\ Fault
    BY <1>4 DEF PushFails
  <2>2. page # "closed"
    BY <2>1 DEF PageInv
  <2>3. "paired_no_push" \in PushState
    BY DEF PushState
  <2> QED BY <1>1, <2>1, <2>2, <2>3, FaultCount DEF serverVars, OnboardTypeOK
<1> QED BY <1>2, <1>3, <1>4

-----------------------------------------------------------------------------
(* What stays true while the tables grow *)

\* The number of identities created is a natural number, before and after.
LEMMA CreatedNat ==
    ASSUME OnboardTypeOK, OnboardTypeOK'
    PROVE  created \in Nat /\ created' \in Nat
BY Numbers DEF OnboardTypeOK

\* A state of the app with the identity of one that was paired is paired.
LEMMA PairedStays ==
    ASSUME OnboardTypeOK, OnboardTypeOK', RowInv, RowsGrow, NEW old \in AppState, NEW new \in AppState,
           SameIdentity(new, old), Paired(old, session, home, created)
    PROVE  Paired(new, session', home', created')
<1>1. old.device \in 1..created => old.device \in 1..created' /\ home'[old.device] = home[old.device]
  BY CreatedNat DEF RowsGrow
<1>2. ASSUME old.device # None, NEW s \in old.senders, session[s].by = old.device
      PROVE  session'[s].by = old.device
  <2>1. s \in Session
    BY <1>2 DEF AppState
  <2>2. session[s].stage = "approved"
    BY <1>2, <2>1 DEF RowInv
  <2> QED BY <1>2, <2>1, <2>2 DEF RowsGrow
<1>3. (new.device # None => new.ready /\ new.device \in 1..created')
  BY <1>1 DEF Paired, SameIdentity
<1>4. ASSUME new.ready
      PROVE  /\ new.device # None /\ home'[new.device] = new.recipient
             /\ \E s \in new.senders : session'[s].by = new.device
  <2>1. old.ready
    BY <1>4 DEF SameIdentity
  <2>2. /\ old.device # None /\ home[old.device] = old.recipient
        /\ \E s \in old.senders : session[s].by = old.device
        /\ old.device \in 1..created
    BY <2>1 DEF Paired
  <2>3. home'[old.device] = old.recipient /\ \E s \in old.senders : session'[s].by = old.device
    BY <1>1, <1>2, <2>2
  <2> QED BY <2>2, <2>3 DEF SameIdentity
<1> QED BY <1>3, <1>4 DEF Paired

\* What an approval relies on stays.
LEMMA OpStays ==
    ASSUME OnboardTypeOK, OnboardTypeOK', RowsGrow, NEW op, OpInv(op, session, home, created)
    PROVE  OpInv(op, session', home', created')
<1>1. op.device \in 1..created => op.device \in 1..created' /\ home'[op.device] = home[op.device]
  BY CreatedNat DEF RowsGrow
<1> QED BY <1>1 DEF OpInv, RowsGrow

\* As many identities are left if none is taken and no approval begins.
LEMMA BoundStays ==
    ASSUME OnboardTypeOK, OnboardTypeOK', BoundInv, Unregistered' \subseteq Unregistered, created' = created
    PROVE  BoundInv'
<1>1. IsFiniteSet(Unregistered) /\ IsFiniteSet(Unregistered')
  BY FS_Subset, PairingAssumption DEF PairingAssumption, Unregistered
<1>2. /\ Cardinality(Unregistered) \in Nat /\ Cardinality(Unregistered') \in Nat
      /\ Cardinality(Unregistered') <= Cardinality(Unregistered)
  BY <1>1, FS_Subset, FS_CardinalityType
<1> QED BY <1>2, CreatedNat, Numbers DEF BoundInv

\* Copies of the state that are ones there were, with the identity they had,
\* are paired.
LEMMA CopyStays ==
    ASSUME OnboardTypeOK, OnboardTypeOK', RowInv, CopyInv, RowsGrow,
           \A new \in Copies' : \E old \in Copies : SameIdentity(new, old)
    PROVE  CopyInv'
<1>1. \A copy \in Copies : copy \in AppState
  BY DEF Copies, OnboardTypeOK
<1>2. \A copy \in Copies' : copy \in AppState
  BY DEF Copies, OnboardTypeOK
<1>3. ASSUME NEW new \in Copies' PROVE Paired(new, session', home', created')
  <2>1. PICK old \in Copies : SameIdentity(new, old)
    BY <1>3
  <2>2. Paired(old, session, home, created)
    BY DEF CopyInv
  <2> QED BY <1>1, <1>2, <2>1, <2>2, PairedStays
<1> QED BY <1>3 DEF CopyInv

\* A quiet step keeps the invariant.
LEMMA QuietKeeps ==
    ASSUME IInv, OnboardTypeOK', RowInv', RowsGrow, Quiet
    PROVE  IInv'
<1> USE DEF IInv
<1>0. UNCHANGED <<home, page, ref, stored, watched, approval, created, rival, closes>>
  BY DEF Quiet
<1>s. SameIdentity(state', state)
  BY DEF Quiet
<1>1. StartedInv'
  <2>1. \A copy \in Copies' : Started(copy.pairing.session, session')
    <3>1. ref.pairing.session \in Session \cup {NoSession} /\ Started(ref.pairing.session, session)
      BY CopyTypes DEF StartedInv, Copies
    <3>2. stored.pairing.session \in Session \cup {NoSession} /\ Started(stored.pairing.session, session)
      BY CopyTypes DEF StartedInv, Copies
    <3>3. Started(ref'.pairing.session, session') /\ Started(stored'.pairing.session, session')
      BY <1>0, <3>1, <3>2, StartedStays
    <3>4. Started(state'.pairing.session, session')
      BY DEF Quiet
    <3> QED BY <3>3, <3>4 DEF Copies
  <2>2. \A s \in offered' : Started(s, session')
    <3> SUFFICES ASSUME NEW s \in offered' PROVE Started(s, session')
      OBVIOUS
    <3>1. s \in Session
      BY Sessions DEF OnboardTypeOK
    <3> QED BY <3>1, StartedStays DEF Quiet, StartedInv, Started
  <2>3. link' # NoLink => link'.session \in Link
    BY DEF Quiet, StartedInv
  <2>4. watched' # NoLink => watched'.session \in Session /\ Started(watched'.session, session')
    BY <1>0, StartedStays DEF StartedInv
  <2> QED BY <2>1, <2>2, <2>3, <2>4 DEF StartedInv
<1>2. CopyInv'
  <2>1. \A new \in Copies' : \E old \in Copies : SameIdentity(new, old)
    BY <1>0, <1>s DEF Copies, SameIdentity
  <2> QED BY <2>1, CopyStays
<1>3. ApprovalInv'
  BY <1>0, OpStays DEF ApprovalInv
<1>4. BoundInv'
  BY <1>0, BoundStays DEF Unregistered
<1>5. ShownInv'
  BY <1>0 DEF Quiet, ShownInv, Copies
<1>6. PageInv'
  <2>1. page' = "closed" => state' = DefaultState /\ pushes' = {} /\ offered' = {} /\ checks' = {}
    BY <1>0 DEF PageInv, Quiet
  <2>2. page' = "open" => state'.ready = ref'.ready
    BY <1>0, <1>s DEF PageInv, SameIdentity
  <2> QED BY <1>0, <2>1, <2>2 DEF PageInv
<1>7. AloneInv'
  <2>1. \A d \in pushes' : d \in pushes
    BY DEF Quiet
  <2> QED BY <1>0, <1>s, <2>1 DEF AloneInv, SameIdentity
<1>8. GrantedInv'
  <2> SUFFICES ASSUME ~rival PROVE GrantedInv'
    BY <1>0 DEF GrantedInv
  <2>1. subscribed \subseteq subscribed'
    BY DEF RowsGrow
  <2>2. ASSUME state'.ready, state'.push = "granted" PROVE state'.device \in subscribed'
    <3>1. CASE state.push = "granted"
      BY <1>s, <2>1, <2>2, <3>1 DEF GrantedInv, Copies, SameIdentity
    <3>2. CASE \E d \in pushes : d \in subscribed'
      BY <1>s, <3>2 DEF AloneInv, SameIdentity
    <3> QED BY <2>2, <3>1, <3>2 DEF Quiet
  <2>3. \A copy \in {ref', stored'} : copy.ready /\ copy.push = "granted" => copy.device \in subscribed'
    BY <1>0, <2>1 DEF GrantedInv, Copies
  <2> QED BY <1>0, <2>1, <2>2, <2>3 DEF GrantedInv, Copies
<1>9. HeldInv'
  <2> SUFFICES ASSUME closes = 0, faults' = 0, ~rival, NEW s \in Session, session'[s].by \in Device
               PROVE  \/ state'.device = session'[s].by
                      \/ \E a \in Approval : /\ approval'[a].pc \in {"push", "list"}
                                             /\ approval'[a].device = session'[s].by
    BY <1>0 DEF HeldInv, PairedKeysAreHeld, Held
  <2>1. faults = 0
    BY DEF Quiet, OnboardTypeOK
  <2>2. session'[s].by = session[s].by
    BY DEF Quiet
  <2>3. Held(session[s].by)
    BY <2>1, <2>2 DEF HeldInv, PairedKeysAreHeld
  <2> QED BY <1>0, <1>s, <2>2, <2>3 DEF Held, SameIdentity
<1> QED BY <1>1, <1>2, <1>3, <1>4, <1>5, <1>6, <1>7, <1>8, <1>9

-----------------------------------------------------------------------------
(* The page opens, is rendered and is closed *)

\* A page opens with what is stored, or with the empty state.
LEMMA OpenKeeps == ASSUME IInv, RowInv', RowsGrow, OpenPage PROVE IInv'
<1> USE DEF IInv
<1>1. /\ page = "closed" /\ page' = "loaded" /\ dirty' = TRUE
      /\ state' = stored \/ state' = DefaultState
      /\ UNCHANGED <<serverVars, ref, stored, watched, checks, offered, approval, pushes, permission,
                     mixed, rival, created, closes, asked>>
      /\ link' = NoLink \/ link' \in [session : Link, secret : BOOLEAN]
  BY DEF OpenPage
<1>2. /\ state = DefaultState /\ pushes = {} /\ offered = {} /\ checks = {}
      /\ \A a \in Approval : approval[a].pc = "idle"
  BY <1>1 DEF PageInv
<1>3. link' \in PairingLink /\ (link' # NoLink => link'.session \in Link)
  <2>1. NoLink \in PairingLink
    BY DEF PairingLink, NoLink
  <2>2. ASSUME link' \in [session : Link, secret : BOOLEAN]
        PROVE  link' \in PairingLink /\ link'.session \in Link
    BY <2>2, Sessions DEF PairingLink
  <2> QED BY <1>1, <2>1, <2>2
<1>14. faults' \in 0..MaxEvents /\ faults <= faults'
  BY FaultCount DEF OpenPage, bounds
<1>4. OnboardTypeOK'
  BY <1>1, <1>2, <1>3, <1>14 DEF OnboardTypeOK, serverVars
<1>5. \A copy \in Copies' : copy \in Copies
  BY <1>1, <1>2 DEF Copies
<1>6. StartedInv'
  BY <1>1, <1>3, <1>5 DEF StartedInv, serverVars
<1>7. CopyInv'
  BY <1>4, <1>5, CopyStays DEF SameIdentity
<1>8. ApprovalInv' /\ BoundInv'
  BY <1>1 DEF ApprovalInv, BoundInv, Unregistered, serverVars
<1>9. ShownInv'
  BY <1>1, <1>5 DEF ShownInv
<1>10. PageInv'
  BY <1>1, <1>2 DEF PageInv
<1>11. AloneInv'
  BY <1>1, <1>2 DEF AloneInv
<1>12. GrantedInv'
  BY <1>1, <1>5 DEF GrantedInv, serverVars
<1>13. HeldInv'
  <2> SUFFICES ASSUME closes = 0, faults = 0, ~rival, NEW s \in Session, session[s].by \in Device
               PROVE  FALSE
    <3>1. faults' = 0 => faults = 0
      BY <1>14 DEF OnboardTypeOK
    <3> QED BY <1>1, <3>1 DEF HeldInv, PairedKeysAreHeld, serverVars
  <2>1. Held(session[s].by)
    BY DEF HeldInv, PairedKeysAreHeld
  <2> QED BY <1>2, <2>1, DefaultType, Numbers DEF Held
<1> QED BY <1>4, <1>6, <1>7, <1>8, <1>9, <1>10, <1>11, <1>12, <1>13

\* What is polled is a session with its secret, or nothing.
LEMMA WatchType ==
    ASSUME NEW p \in PairingState
    PROVE  /\ Watch(p) \in PairingLink
           /\ Watch(p) # NoLink => Watch(p).session \in Session /\ Watch(p).session = p.session
BY DEF Watch, PairingLink, PairingState, NoLink

\* A rendered page reads and stores the state, and may load its link.
LEMMA RenderKeeps == ASSUME IInv, RowInv', RowsGrow, Render PROVE IInv'
<1> USE DEF IInv
<1>1. /\ page # "closed" /\ page' = "open" /\ ref' = state /\ stored' = state
      /\ UNCHANGED <<serverVars, offered, approval, permission, mixed, rival, bounds>>
      /\ dirty' = (state' # state)
  BY DEF Render
<1>2. link \in PairingLink /\ state \in AppState
  BY DEF OnboardTypeOK
<1>3. /\ state' \in AppState /\ state'.push = state.push /\ SameIdentity(state', state)
      /\ \/ state'.pairing = state.pairing
         \/ link # NoLink /\ state'.pairing.session = link.session /\ Shown(state'.pairing)
  <2>1. CASE state' = LoadPairingLink(state)
    BY <1>2, <2>1, LoadedLink
  <2>2. CASE state' = state
    BY <1>2, <2>2 DEF SameIdentity
  <2> QED BY <2>1, <2>2 DEF Render
<1>4. link' \in {link, NoLink} /\ link' \in PairingLink
  BY <1>2 DEF Render, NoLink, PairingLink
<1>5. UNCHANGED <<watched, checks>> \/ (watched' = Watch(state.pairing) /\ checks' = {})
  BY DEF Render, RestartPolling
<1>6. watched' \in PairingLink /\ checks' \subseteq Remote
      /\ (watched' # NoLink => watched'.session \in Session /\ Started(watched'.session, session))
  BY <1>5, StateTypes, WatchType DEF OnboardTypeOK, StartedInv
<1>7. pushes' \subseteq Device /\ \A d \in pushes' : d \in pushes \/ d = state.device
  <2>1. state.device \in Device \cup {None}
    BY <1>2 DEF AppState
  <2> QED BY <2>1 DEF Render, OnboardTypeOK
<1>8. OnboardTypeOK'
  BY <1>1, <1>3, <1>4, <1>6, <1>7 DEF OnboardTypeOK, serverVars, bounds
<1>9. StartedInv'
  <2>1. Started(state'.pairing.session, session)
    BY <1>3, StateTypes, Sessions DEF StartedInv, RowInv, Started
  <2>2. \A copy \in Copies' : Started(copy.pairing.session, session')
    BY <1>1, <2>1, StateTypes DEF Copies, serverVars
  <2> QED BY <1>1, <1>4, <1>6, <2>2 DEF StartedInv, serverVars
<1>10. CopyInv'
  <2>1. \A new \in Copies' : SameIdentity(new, state)
    BY <1>1, <1>3 DEF Copies, SameIdentity
  <2> QED BY <1>8, <2>1, CopyStays DEF Copies
<1>11. ApprovalInv' /\ BoundInv'
  BY <1>1 DEF ApprovalInv, BoundInv, Unregistered, serverVars, bounds
<1>12. ShownInv'
  BY <1>1, <1>3 DEF ShownInv, Copies, Shown
<1>13. PageInv'
  BY <1>1, <1>3 DEF PageInv, SameIdentity
<1>14. AloneInv'
  BY <1>1, <1>3, <1>7 DEF AloneInv, SameIdentity
<1>15. GrantedInv'
  BY <1>1, <1>3 DEF GrantedInv, SameIdentity, Copies, serverVars
<1>16. HeldInv'
  BY <1>1, <1>3 DEF HeldInv, PairedKeysAreHeld, Held, SameIdentity, serverVars, bounds
<1> QED BY <1>8, <1>9, <1>10, <1>11, <1>12, <1>13, <1>14, <1>15, <1>16

\* A closed page leaves what is stored and nothing in flight.
LEMMA CloseKeeps == ASSUME IInv, RowInv', RowsGrow, Close PROVE IInv'
<1> USE DEF IInv
<1>1. /\ page' = "closed" /\ link' = NoLink /\ state' = DefaultState /\ ref' = DefaultState
      /\ dirty' = FALSE /\ watched' = NoLink /\ checks' = {} /\ offered' = {} /\ pushes' = {}
      /\ approval' = [a \in Approval |-> Idle] /\ closes' = closes + 1
      /\ UNCHANGED <<serverVars, stored, permission, mixed, rival, created, faults, asked>>
  BY DEF Close
<1>2. closes' \in 0..MaxEvents /\ closes' # 0
  BY <1>1, MayHappenBounds DEF Close, OnboardTypeOK
<1>3. NoLink \in PairingLink
  BY DEF NoLink, PairingLink
<1>4. OnboardTypeOK'
  BY <1>1, <1>2, <1>3, DefaultType, IdleType DEF OnboardTypeOK, serverVars
<1>5. StartedInv'
  BY <1>1, DefaultType DEF StartedInv, Copies, Started, serverVars
<1>6. CopyInv'
  <2>1. Paired(stored, session, home, created)
    BY DEF CopyInv, Copies
  <2>2. Paired(DefaultState, session, home, created)
    BY DefaultType DEF Paired
  <2> QED BY <1>1, <2>1, <2>2 DEF CopyInv, Copies, serverVars
<1>7. \A a \in Approval : approval'[a] = Idle /\ approval'[a].pc = "idle"
  BY <1>1, IdleType
<1>8. ApprovalInv'
  BY <1>7 DEF ApprovalInv, OpInv
<1>9. BoundInv'
  <2>1. Unregistered' \subseteq Unregistered
    BY <1>7 DEF Unregistered
  <2> QED BY <1>1, <1>4, <2>1, BoundStays
<1>10. ShownInv'
  BY <1>1, <1>7, DefaultType DEF ShownInv, Copies, Shown
<1>11. PageInv'
  BY <1>1, <1>7 DEF PageInv
<1>12. AloneInv'
  BY <1>1, <1>7 DEF AloneInv
<1>13. GrantedInv'
  BY <1>1, <1>7, DefaultType DEF GrantedInv, Copies, serverVars
<1>14. HeldInv'
  BY <1>2 DEF HeldInv, PairedKeysAreHeld
<1> QED BY <1>4, <1>5, <1>6, <1>8, <1>9, <1>10, <1>11, <1>12, <1>13, <1>14

-----------------------------------------------------------------------------
(* An approval goes on *)

\* An approval that has yet to create an identity finds one left.
LEMMA IdentityLeft ==
    ASSUME IInv, NEW a \in Unregistered
    PROVE  created + 1 \in Device
<1>1. IsFiniteSet(Unregistered)
  BY FS_Subset, PairingAssumption DEF PairingAssumption, Unregistered
<1>2. Cardinality(Unregistered) \in Nat /\ Cardinality(Unregistered) # 0
  BY <1>1, FS_CardinalityType, FS_EmptySet
<1> QED BY <1>2, Numbers DEF IInv, BoundInv, OnboardTypeOK

\* It takes its own when it creates one.
LEMMA BoundTaken ==
    ASSUME IInv, NEW a \in Unregistered, Unregistered' \subseteq Unregistered \ {a},
           created' \in {created, created + 1}
    PROVE  BoundInv'
<1>1. IsFiniteSet(Unregistered) /\ IsFiniteSet(Unregistered \ {a})
  BY FS_Subset, FS_RemoveElement, PairingAssumption DEF PairingAssumption, Unregistered
<1>2. /\ Cardinality(Unregistered) \in Nat
      /\ Cardinality(Unregistered \ {a}) = Cardinality(Unregistered) - 1
  BY <1>1, FS_RemoveElement, FS_CardinalityType
<1>3. Cardinality(Unregistered') \in Nat /\ Cardinality(Unregistered') <= Cardinality(Unregistered \ {a})
  BY <1>1, FS_Subset, FS_CardinalityType
<1> QED BY <1>2, <1>3, Numbers DEF IInv, BoundInv, OnboardTypeOK

\* One approval goes on to c, and the page does not notice.
Advance(a, c) ==
    /\ approval' = [approval EXCEPT ![a] = c] /\ approval[a].pc # "idle"
    /\ c \in ApprovalType /\ c.pc # "idle" /\ c.base.pairing = approval[a].base.pairing
    /\ OpInv(c, session', home', created')
    /\ UNCHANGED <<pageVars, offered, pushes, permission, mixed, rival, faults, closes, asked>>
    /\ c.pc = "list" /\ c.base.push = "granted" => c.device \in subscribed'
    /\ \A s \in Session : session'[s].by \in Device =>
          \/ session'[s].by = session[s].by
          \/ c.pc \in {"push", "list"} /\ c.device = session'[s].by
    /\ approval[a].pc \in {"push", "list"} =>
          c.pc \in {"push", "list"} /\ c.device = approval[a].device

\* Such a step keeps the invariant.
LEMMA AdvanceKeeps ==
    ASSUME IInv, RowInv', RowsGrow, BoundInv', NEW a \in Approval, NEW c, Advance(a, c),
           session' \in Rows, home' \in [Device -> Recipient \cup {None}],
           subscribed' \subseteq Device, created' \in 0..MaxDevices
    PROVE  IInv'
<1> USE DEF IInv
<1>1. /\ UNCHANGED <<page, link, state, dirty, ref, stored, watched, checks>>
      /\ UNCHANGED <<offered, pushes, permission, mixed, rival, faults, closes, asked>>
  BY DEF Advance, pageVars
<1>2. approval'[a] = c /\ \A b \in Approval : b # a => approval'[b] = approval[b]
  BY DEF Advance, OnboardTypeOK
<1>3. c.pc # "idle" /\ approval[a].pc # "idle" /\ c.base.pairing = approval[a].base.pairing
  BY DEF Advance
<1>4. OnboardTypeOK'
  <2>1. approval' \in [Approval -> ApprovalType]
    BY DEF Advance, OnboardTypeOK
  <2> QED BY <1>1, <2>1 DEF OnboardTypeOK, Rows
<1>5. StartedInv'
  <2>1. \A copy \in Copies' : Started(copy.pairing.session, session')
    <3>1. \A copy \in Copies : copy.pairing.session \in Session \cup {NoSession}
      BY CopyTypes
    <3>2. \A copy \in Copies : Started(copy.pairing.session, session')
      BY <3>1, StartedStays DEF StartedInv
    <3> QED BY <1>1, <3>2 DEF Copies
  <2>2. \A s \in offered' : Started(s, session')
    BY <1>1, Sessions, StartedStays DEF StartedInv, OnboardTypeOK
  <2> QED BY <1>1, <2>1, <2>2, StartedStays DEF StartedInv
<1>6. CopyInv'
  BY <1>1, <1>4, CopyStays DEF Copies, SameIdentity
<1>7. ApprovalInv'
  BY <1>2, <1>4, OpStays DEF ApprovalInv, Advance
<1>8. ShownInv'
  BY <1>1, <1>2, <1>3 DEF ShownInv, Copies
<1>9. PageInv'
  BY <1>1, <1>2, <1>3 DEF PageInv
<1>10. AloneInv'
  BY <1>1, <1>2, <1>3 DEF AloneInv
<1>11. GrantedInv'
  <2>1. subscribed \subseteq subscribed'
    BY DEF RowsGrow
  <2> QED BY <1>1, <1>2, <2>1 DEF GrantedInv, Advance, Copies
<1>12. HeldInv'
  <2> SUFFICES ASSUME closes = 0, faults = 0, ~rival, NEW s \in Session, session'[s].by \in Device
               PROVE  \/ state'.device = session'[s].by
                      \/ \E b \in Approval : /\ approval'[b].pc \in {"push", "list"}
                                             /\ approval'[b].device = session'[s].by
    BY <1>1 DEF HeldInv, PairedKeysAreHeld, Held
  <2>1. CASE c.pc \in {"push", "list"} /\ c.device = session'[s].by
    BY <1>2, <2>1
  <2>2. CASE session'[s].by = session[s].by
    <3>1. Held(session[s].by)
      BY <2>2 DEF HeldInv, PairedKeysAreHeld
    <3>2. CASE state.device = session[s].by
      BY <1>1, <2>2, <3>2
    <3>3. ASSUME NEW b \in Approval, approval[b].pc \in {"push", "list"}, approval[b].device = session[s].by
          PROVE  approval'[b].pc \in {"push", "list"} /\ approval'[b].device = session'[s].by
      BY <1>2, <2>2, <3>3 DEF Advance
    <3> QED BY <3>1, <3>2, <3>3 DEF Held
  <2> QED BY <2>1, <2>2 DEF Advance
<1> QED BY <1>4, <1>5, <1>6, <1>7, <1>8, <1>9, <1>10, <1>11, <1>12

\* An approval and its parts are well typed.
LEMMA ApprovalTypes ==
    ASSUME IInv, NEW a \in Approval
    PROVE  /\ approval[a] \in ApprovalType /\ approval[a].base \in AppState
           /\ approval[a].base.pairing \in PairingState
           /\ approval[a].base.pairing.secret \in BOOLEAN
           /\ approval[a].to \in Recipient \cup {None}
           /\ OpInv(approval[a], session, home, created)
<1>1. approval[a] \in ApprovalType /\ OpInv(approval[a], session, home, created)
  BY DEF IInv, OnboardTypeOK, ApprovalInv
<1>2. approval[a].base \in AppState
  BY <1>1 DEF ApprovalType
<1>3. approval[a].base.pairing \in PairingState
  BY <1>2 DEF AppState
<1> QED BY <1>1, <1>2, <1>3 DEF ApprovalType, PairingState

\* The tables that a step leaves alone stay well typed.
LEMMA TableTypes ==
    ASSUME OnboardTypeOK
    PROVE  /\ session \in Rows /\ home \in [Device -> Recipient \cup {None}]
           /\ subscribed \subseteq Device /\ created \in 0..MaxDevices
BY DEF OnboardTypeOK, Rows

\* The status of the session is read.
LEMMA ReadKeeps ==
    ASSUME IInv, RowInv', RowsGrow, NEW a \in Approval, ReadStatus(a)
    PROVE  IInv'
<1> USE DEF IInv
<1> DEFINE pairing == approval[a].base.pairing
           remote == PairingStatus(pairing.session, pairing.secret)
           c == [approval[a] EXCEPT !.pc = "register", !.to = remote.recipient]
<1>1. /\ approval[a].pc = "status" /\ remote.sender
      /\ approval' = [approval EXCEPT ![a].pc = "register", ![a].to = remote.recipient]
      /\ UNCHANGED <<serverVars, pageVars, offered, pushes, permission, mixed, rival, bounds>>
  BY DEF ReadStatus
<1>2. pairing.session \in Session /\ session[pairing.session].stage # "none" /\ pairing.secret \in BOOLEAN
  BY <1>1, ApprovalTypes DEF OpInv
<1>3. remote \in Remote /\ (remote.sender = TRUE => remote.recipient = session[pairing.session].recipient)
  BY <1>2, RemoteType
<1> HIDE DEF remote
<1>4. remote.recipient \in Recipient \cup {None} /\ remote.sender = TRUE
  BY <1>1, <1>3 DEF Remote
<1>5. approval' = [approval EXCEPT ![a] = c]
  BY <1>1, ApprovalTypes DEF OnboardTypeOK
<1>6. /\ c \in ApprovalType /\ c.pc = "register" /\ c.base = approval[a].base
      /\ c.to = remote.recipient
  BY <1>4, ApprovalTypes DEF ApprovalType
<1>7. pairing.session \in Link => remote.recipient = Account
  BY <1>2, <1>3, <1>4 DEF RowInv
<1>8. OpInv(c, session', home', created')
  BY <1>1, <1>2, <1>6, <1>7 DEF OpInv, serverVars, bounds
<1> HIDE DEF c
<1>9. Advance(a, c)
  BY <1>1, <1>5, <1>6, <1>8 DEF Advance, serverVars, bounds
<1>10. BoundInv'
  <2>1. Unregistered' = Unregistered
    BY <1>1, <1>5, <1>6 DEF Unregistered, OnboardTypeOK
  <2> QED BY <1>1, <2>1 DEF BoundInv, bounds
<1>11. UNCHANGED <<session, home, subscribed, created>>
  BY <1>1 DEF serverVars, bounds
<1> QED BY <1>9, <1>10, <1>11, AdvanceKeeps, TableTypes

\* A new identity is registered.
LEMMA RegisterKeeps ==
    ASSUME IInv, RowInv', RowsGrow, NEW a \in Approval, RegisterDevice(a)
    PROVE  IInv'
<1> USE DEF IInv
<1> DEFINE op == approval[a]
           s == op.base.pairing.session
           d == created + 1
           c == [op EXCEPT !.pc = "approve", !.device = d]
<1>1. /\ op.pc = "register" /\ created' = d /\ Register(a, d)
      /\ approval' = [approval EXCEPT ![a].pc = "approve", ![a].device = d]
      /\ UNCHANGED <<session, subscribed, pageVars, offered, pushes, permission, mixed, rival, faults,
                     closes, asked>>
  BY DEF RegisterDevice
<1>2. op \in ApprovalType /\ s \in Session /\ session[s].stage # "none" /\ (s \in Link => op.to = Account)
  BY <1>1, ApprovalTypes DEF OpInv
<1>3. a \in Unregistered
  BY <1>1 DEF Unregistered
<1>4. d \in Device /\ d \in 1..d /\ d \in 0..MaxDevices
  BY <1>3, IdentityLeft, Numbers DEF OnboardTypeOK
<1>5. home' = [home EXCEPT ![d] = IF op.to = None THEN d ELSE op.to]
  BY <1>1 DEF Register
<1>6. approval' = [approval EXCEPT ![a] = c]
  BY <1>1, <1>2 DEF OnboardTypeOK
<1> HIDE DEF d
<1>7. home' \in [Device -> Recipient \cup {None}] /\ (s \in Link => home'[d] = Account)
  BY <1>2, <1>4, <1>5, Numbers DEF OnboardTypeOK, ApprovalType
<1>8. c \in ApprovalType /\ c.pc = "approve" /\ c.base = op.base /\ c.device = d
  BY <1>2, <1>4 DEF ApprovalType
<1>9. OpInv(c, session', home', created')
  BY <1>1, <1>2, <1>4, <1>7, <1>8 DEF OpInv
<1> HIDE DEF c
<1>10. Advance(a, c)
  BY <1>1, <1>6, <1>8, <1>9 DEF Advance
<1>11. BoundInv'
  <2>1. Unregistered' \subseteq Unregistered \ {a}
    BY <1>6, <1>8 DEF Unregistered, OnboardTypeOK
  <2>2. created' = created + 1
    BY <1>1 DEF d
  <2> QED BY <1>3, <2>1, <2>2, BoundTaken
<1> QED BY <1>1, <1>4, <1>7, <1>10, <1>11, AdvanceKeeps, TableTypes

\* The session is approved.
LEMMA ApprovedStepKeeps ==
    ASSUME IInv, RowInv', RowsGrow, NEW a \in Approval, Approved(a)
    PROVE  IInv'
<1> USE DEF IInv
<1> DEFINE op == approval[a]
           s == op.base.pairing.session
           d == op.device
           recipient == IF session[s].recipient = None THEN home[d] ELSE session[s].recipient
           c == [op EXCEPT !.pc = "push", !.to = session'[s].recipient]
<1>1. /\ op.pc = "approve" /\ ApproveSession(a)
      /\ approval' = [approval EXCEPT ![a].pc = "push", ![a].to = session'[s].recipient]
      /\ UNCHANGED <<home, subscribed, pageVars, offered, pushes, permission, mixed, rival, bounds>>
  BY DEF Approved
<1>2. /\ op \in ApprovalType /\ s \in Session /\ session[s].stage # "none" /\ d \in 1..created
      /\ s \in Link => home[d] = Account
  BY <1>1, ApprovalTypes DEF OpInv
<1>3. d \in Device /\ home[d] \in Recipient \cup {None} /\ session[s].recipient \in Recipient \cup {None}
  BY <1>2, Numbers DEF OnboardTypeOK
<1>4. SetApproved(s, d, recipient)
  BY <1>1, ApproveSessionSets
<1>5. recipient \in Recipient \cup {None} /\ recipient = home[d]
  BY <1>2, <1>3, <1>4, Sessions, Numbers DEF RowInv, SetApproved
<1> HIDE DEF recipient
<1>6. /\ \A x \in Session : x # s => session'[x] = session[x]
      /\ session'[s].stage = "approved" /\ session'[s].by = d /\ session'[s].recipient = home[d]
  BY <1>2, <1>3, <1>4, <1>5, ApprovedKeeps
<1>7. session' \in Rows
  <2> DEFINE row == [session[s] EXCEPT !.stage = "approved", !.by = d, !.recipient = recipient]
  <2>1. session' = [session EXCEPT ![s] = row]
    BY <1>2, <1>4 DEF SetApproved, OnboardTypeOK
  <2>2. row \in [stage : {"none", "pending", "claimed", "approved"}, expired : BOOLEAN,
                recipient : Recipient \cup {None}, by : Device \cup {None, Elsewhere}]
    <3>1. session[s] \in [stage : {"none", "pending", "claimed", "approved"}, expired : BOOLEAN,
                          recipient : Recipient \cup {None}, by : Device \cup {None, Elsewhere}]
      BY <1>2, TableTypes DEF Rows
    <3> HIDE DEF s, d
    <3> QED BY <1>3, <1>5, <3>1
  <2> HIDE DEF row
  <2> QED BY <2>1, <2>2, TableTypes DEF Rows
<1>8. approval' = [approval EXCEPT ![a] = c]
  BY <1>1, <1>2 DEF OnboardTypeOK
<1>9. c \in ApprovalType /\ c.pc = "push" /\ c.base = op.base /\ c.device = d /\ c.to = home[d]
  BY <1>2, <1>3, <1>6 DEF ApprovalType
<1>10. UNCHANGED <<home, subscribed, created, faults, closes, asked>>
  BY <1>1 DEF bounds
<1>11. OpInv(c, session', home', created')
  BY <1>2, <1>6, <1>9, <1>10 DEF OpInv
<1> HIDE DEF c
<1>12. \A x \in Session : session'[x].by = session[x].by \/ c.device = session'[x].by
  BY <1>6, <1>9
<1>13. Advance(a, c)
  BY <1>1, <1>8, <1>9, <1>10, <1>11, <1>12 DEF Advance
<1>14. BoundInv'
  <2>1. a \in Approval /\ Unregistered' = Unregistered
    BY <1>1, <1>8, <1>9 DEF Unregistered, OnboardTypeOK
  <2> QED BY <1>10, <2>1 DEF BoundInv
<1> QED BY <1>7, <1>10, <1>13, <1>14, AdvanceKeeps, TableTypes

\* The push subscription is stored, if there is one.
LEMMA SyncKeeps ==
    ASSUME IInv, RowInv', RowsGrow, NEW a \in Approval, PushSynced(a)
    PROVE  IInv'
<1> USE DEF IInv
<1> DEFINE op == approval[a]
           base == [op.base EXCEPT !.push = SyncedPush]
           c == [op EXCEPT !.pc = "list", !.base = base]
<1>1. /\ op.pc = "push" /\ Subscribe(op.device)
      /\ approval' = [approval EXCEPT ![a].pc = "list", ![a].base.push = SyncedPush]
      /\ UNCHANGED <<session, home, pageVars, offered, pushes, permission, mixed, rival, bounds>>
  BY DEF PushSynced
<1>2. op \in ApprovalType /\ op.base \in AppState /\ OpInv(op, session, home, created)
  BY ApprovalTypes
<1>3. op.device \in Device
  BY <1>1, <1>2, Numbers DEF OpInv, OnboardTypeOK
<1>4. SyncedPush \in PushState /\ (SyncedPush = "granted" => permission = "granted")
  BY DEF SyncedPush, PushState
<1>5. base \in AppState /\ base.push = SyncedPush /\ base.pairing = op.base.pairing
  BY <1>2, <1>4, PushSet
<1>6. approval' = [approval EXCEPT ![a] = c]
  BY <1>1, <1>2 DEF OnboardTypeOK, ApprovalType
<1> HIDE DEF base
<1>7. /\ c \in ApprovalType /\ c.pc = "list" /\ c.base = base /\ c.device = op.device /\ c.to = op.to
  BY <1>2, <1>5 DEF ApprovalType
<1>8. UNCHANGED <<session, home, created, faults, closes, asked>>
  BY <1>1 DEF bounds
<1>9. OpInv(c, session', home', created')
  BY <1>1, <1>2, <1>5, <1>7, <1>8 DEF OpInv
<1> HIDE DEF c
<1>10. subscribed' \subseteq Device /\ (c.base.push = "granted" => c.device \in subscribed')
  BY <1>1, <1>3, <1>4, <1>5, <1>7 DEF Subscribe, OnboardTypeOK
<1>11. Advance(a, c)
  BY <1>1, <1>5, <1>6, <1>7, <1>8, <1>9, <1>10 DEF Advance
<1>12. BoundInv'
  <2>1. Unregistered' = Unregistered
    BY <1>1, <1>6, <1>7 DEF Unregistered, OnboardTypeOK
  <2> QED BY <1>8, <2>1 DEF BoundInv
<1> QED BY <1>8, <1>10, <1>11, <1>12, AdvanceKeeps, TableTypes

-----------------------------------------------------------------------------
(* An approval begins and ends *)

\* It begins with what the page shows.
LEMMA ApproveKeeps ==
    ASSUME IInv, RowInv', RowsGrow, NEW a \in Approval, Approve(a)
    PROVE  IInv'
<1> USE DEF IInv
<1> DEFINE new == [state EXCEPT !.pairing.status = "approving"]
           c == [Idle EXCEPT !.pc = "status", !.base = ref]
           Busy == {b \in Approval : approval[b] # Idle}
<1>1. /\ page = "open" /\ ~ref.ready /\ ref.pairing.session # NoSession
      /\ ref.pairing.sender # NoSession
      /\ approval[a] = Idle /\ created + Cardinality(Busy) < MaxDevices
      /\ Update(new) /\ approval' = [approval EXCEPT ![a] = c]
      /\ UNCHANGED <<serverVars, page, link, ref, stored, watched, checks, offered, pushes, permission,
                     mixed, bounds>>
  BY DEF Approve, SetupScreen, CanApprove
<1>2. rival' \in BOOLEAN /\ (~rival' => ~rival /\ Busy = {})
  BY DEF Approve, OnboardTypeOK
<1>3. /\ new \in AppState /\ new.push = state.push /\ SameIdentity(new, state)
      /\ new.pairing.session = state.pairing.session /\ new.pairing.sender = state.pairing.sender
  BY StateTypes, StatusSet DEF Status
<1> HIDE DEF new
<1>4. state' = new /\ dirty' \in BOOLEAN
  BY <1>1, <1>3, UpdateType
<1>5. /\ ref \in AppState /\ ref.pairing.session \in Session
      /\ session[ref.pairing.session].stage # "none"
  BY <1>1, CopyTypes DEF Copies, StartedInv, Started
<1>6. c \in ApprovalType /\ c.pc = "status" /\ c.base = ref
  BY <1>5, IdleType DEF Idle, ApprovalType
<1> HIDE DEF c
<1>7. approval'[a] = c /\ \A b \in Approval : b # a => approval'[b] = approval[b]
  BY <1>1 DEF OnboardTypeOK
<1>8. OnboardTypeOK'
  <2>1. approval' \in [Approval -> ApprovalType]
    BY <1>1, <1>6 DEF OnboardTypeOK
  <2> QED BY <1>1, <1>2, <1>3, <1>4, <2>1 DEF OnboardTypeOK, serverVars, bounds
<1>9. StartedInv'
  BY <1>1, <1>3, <1>4 DEF StartedInv, Copies, serverVars
<1>10. CopyInv'
  <2>1. \A x \in Copies' : \E old \in Copies : SameIdentity(x, old)
    BY <1>1, <1>3, <1>4 DEF Copies, SameIdentity
  <2> QED BY <1>8, <2>1, CopyStays
<1>11. ApprovalInv'
  <2>1. OpInv(c, session, home, created)
    BY <1>5, <1>6 DEF OpInv
  <2> QED BY <1>1, <1>7, <2>1 DEF ApprovalInv, serverVars, bounds
<1>12. BoundInv'
  <2>1. Unregistered \subseteq Busy /\ a \notin Unregistered /\ Unregistered' \subseteq Unregistered \cup {a}
    BY <1>1, <1>7, IdleType DEF Unregistered
  <2>2. IsFiniteSet(Busy) /\ IsFiniteSet(Unregistered)
    BY FS_Subset, PairingAssumption DEF PairingAssumption, Unregistered
  <2>3. /\ Cardinality(Busy) \in Nat /\ Cardinality(Unregistered) \in Nat
        /\ Cardinality(Unregistered) <= Cardinality(Busy)
    BY <2>1, <2>2, FS_Subset, FS_CardinalityType
  <2>4. /\ IsFiniteSet(Unregistered \cup {a})
        /\ Cardinality(Unregistered \cup {a}) = Cardinality(Unregistered) + 1
    BY <2>1, <2>2, FS_AddElement
  <2>5. Cardinality(Unregistered') \in Nat /\ Cardinality(Unregistered') <= Cardinality(Unregistered) + 1
    BY <2>1, <2>4, FS_Subset, FS_CardinalityType
  <2>6. created' = created /\ created \in Nat
    BY <1>1, Numbers DEF bounds, OnboardTypeOK
  <2> HIDE DEF Busy
  <2> QED BY <1>1, <2>3, <2>5, <2>6, Numbers DEF BoundInv
<1>13. ShownInv'
  <2> SUFFICES ASSUME ~mixed PROVE ShownInv'
    BY <1>1 DEF ShownInv
  <2>1. ref.pairing.sender = ref.pairing.session
    BY <1>1 DEF ShownInv, Copies, Shown
  <2>2. \A copy \in Copies' : Shown(copy.pairing)
    BY <1>1, <1>3, <1>4 DEF ShownInv, Copies, Shown
  <2> QED BY <1>6, <1>7, <2>1, <2>2 DEF ShownInv
<1>14. PageInv'
  BY <1>1, <1>3, <1>4 DEF PageInv, SameIdentity
<1>15. AloneInv'
  <2> SUFFICES ASSUME ~rival' PROVE AloneInv'
    BY DEF AloneInv
  <2>1. ~rival /\ \A b \in Approval : approval[b].pc = "idle"
    BY <1>2, IdleType
  <2>2. ~state.ready
    BY <1>1 DEF PageInv
  <2>3. ~state'.ready /\ state'.device = state.device
    BY <1>3, <1>4, <2>2 DEF SameIdentity
  <2> QED BY <1>1, <1>7, <2>1, <2>3 DEF AloneInv
<1>16. GrantedInv'
  BY <1>1, <1>2, <1>3, <1>4, <1>6, <1>7 DEF GrantedInv, Copies, SameIdentity, serverVars
<1>17. HeldInv'
  <2> SUFFICES ASSUME closes = 0, faults = 0, ~rival', NEW s \in Session, session[s].by \in Device
               PROVE  state'.device = session[s].by
    BY <1>1 DEF HeldInv, PairedKeysAreHeld, Held, serverVars, bounds
  <2>1. Held(session[s].by) /\ \A b \in Approval : approval[b].pc = "idle"
    BY <1>2, IdleType DEF HeldInv, PairedKeysAreHeld
  <2> QED BY <1>3, <1>4, <2>1 DEF Held, SameIdentity
<1> QED BY <1>8, <1>9, <1>10, <1>11, <1>12, <1>13, <1>14, <1>15, <1>16, <1>17

\* An approval that ends leaves its slot idle.
LEMMA SlotEnds ==
    ASSUME IInv, NEW a \in Approval, approval' = [approval EXCEPT ![a] = Idle]
    PROVE  /\ approval' \in [Approval -> ApprovalType] /\ approval'[a].pc = "idle"
           /\ approval'[a] = Idle /\ \A b \in Approval : b # a => approval'[b] = approval[b]
           /\ Unregistered' \subseteq Unregistered \ {a}
<1>1. approval' \in [Approval -> ApprovalType] /\ approval'[a] = Idle
      /\ \A b \in Approval : b # a => approval'[b] = approval[b]
  BY IdleType DEF IInv, OnboardTypeOK
<1> QED BY <1>1, IdleType DEF Unregistered

\* It ends with a paired phone.
LEMMA EndKeeps ==
    ASSUME IInv, RowInv', RowsGrow, NEW a \in Approval, EndPairing(a)
    PROVE  IInv'
<1> USE DEF IInv
<1> DEFINE op == approval[a]
           s == op.base.pairing.session
           senders == op.base.senders \cup SendersOf(home[op.device])
           completed == [op.base EXCEPT !.device = op.device, !.recipient = op.to, !.ready = TRUE,
                                        !.senders = senders]
           paired == [op.base EXCEPT !.device = op.device, !.recipient = op.to, !.ready = TRUE,
                                     !.senders = @ \cup SendersOf(home[op.device]),
                                     !.pairing.status = "paired"]
<1>1. /\ op.pc = "list" /\ Update(paired) /\ ref' = paired
      /\ approval' = [approval EXCEPT ![a] = Idle]
      /\ UNCHANGED <<serverVars, page, link, stored, watched, checks, offered, pushes, permission,
                     mixed, rival, bounds>>
  BY DEF EndPairing
<1>2. /\ op \in ApprovalType /\ op.base \in AppState /\ s \in Session
      /\ op.device \in 1..created /\ home[op.device] = op.to
      /\ session[s].stage = "approved" /\ session[s].by = op.device /\ session[s].recipient = op.to
      /\ session[s].stage # "none"
  BY <1>1, ApprovalTypes DEF OpInv
<1>3. op.device \in Device /\ op.device # None /\ op.to \in Recipient \cup {None}
  BY <1>2, ApprovalTypes, Numbers DEF OnboardTypeOK
<1>4. senders \subseteq Session /\ s \in senders
  BY <1>2 DEF SendersOf, AppState
<1> HIDE DEF senders
<1>5. /\ completed \in AppState /\ completed.device = op.device /\ completed.recipient = op.to
      /\ completed.ready = TRUE /\ completed.senders = senders
      /\ completed.push = op.base.push /\ completed.pairing = op.base.pairing
  BY <1>2, <1>3, <1>4 DEF AppState
<1>6. paired = [completed EXCEPT !.pairing.status = "paired"]
  BY <1>2 DEF AppState, senders
<1> HIDE DEF completed, paired
<1>7. /\ paired \in AppState /\ paired.push = op.base.push /\ SameIdentity(paired, completed)
      /\ paired.pairing.session = s /\ paired.pairing.sender = op.base.pairing.sender
  <2>1. "paired" \in Status
    BY DEF Status
  <2> DEFINE new == [completed EXCEPT !.pairing.status = "paired"]
  <2>2. /\ new \in AppState /\ new.push = completed.push /\ SameIdentity(new, completed)
        /\ new.pairing.session = completed.pairing.session
        /\ new.pairing.sender = completed.pairing.sender
    BY <1>5, <2>1, StatusSet
  <2>3. paired = new
    BY <1>6
  <2> HIDE DEF new
  <2> QED BY <1>5, <2>2, <2>3
<1>8. /\ paired.device = op.device /\ paired.recipient = op.to
      /\ paired.ready = TRUE /\ paired.senders = senders
  BY <1>5, <1>7 DEF SameIdentity
<1>9. state' = paired /\ dirty' \in BOOLEAN
  BY <1>1, <1>7, UpdateType
<1>10. /\ approval' \in [Approval -> ApprovalType] /\ approval'[a].pc = "idle" /\ approval'[a] = Idle
       /\ \A b \in Approval : b # a => approval'[b] = approval[b]
       /\ Unregistered' \subseteq Unregistered
  BY <1>1, SlotEnds
<1>11. page = "open"
  BY <1>1 DEF PageInv
<1>12. OnboardTypeOK'
  BY <1>1, <1>7, <1>9, <1>10 DEF OnboardTypeOK, serverVars, bounds
<1>13. StartedInv'
  BY <1>1, <1>2, <1>7, <1>9 DEF StartedInv, Copies, Started, serverVars
<1>14. CopyInv'
  <2>1. Paired(paired, session, home, created)
    BY <1>2, <1>3, <1>4, <1>8 DEF Paired
  <2>2. Paired(stored, session, home, created)
    BY DEF CopyInv, Copies
  <2> QED BY <1>1, <1>9, <2>1, <2>2 DEF CopyInv, Copies, serverVars, bounds
<1>15. ApprovalInv'
  <2>1. OpInv(Idle, session', home', created')
    BY IdleType DEF OpInv
  <2> QED BY <1>1, <1>10, <2>1 DEF ApprovalInv, serverVars, bounds
<1>16. BoundInv'
  BY <1>1, <1>10, <1>12, BoundStays DEF bounds
<1>17. ShownInv'
  BY <1>1, <1>7, <1>9, <1>10 DEF ShownInv, Copies, Shown
<1>18. PageInv'
  BY <1>1, <1>9, <1>11 DEF PageInv
\* Without another approval, the phone was not paired before.
<1>19. ASSUME ~rival
       PROVE  /\ state.device = None /\ pushes = {} /\ stored.device = None
              /\ \A b \in Approval : approval'[b].pc = "idle"
  <2>1. ~state.ready
    BY <1>1, <1>19 DEF AloneInv
  <2>2. state.device = None
    BY <2>1 DEF CopyInv, Copies, Paired
  <2>3. pushes = {}
    BY <1>19, <2>2, Numbers DEF AloneInv, OnboardTypeOK
  <2>4. stored.device = None
    BY <1>11, <1>19, <2>2 DEF AloneInv
  <2>5. \A b \in Approval : approval'[b].pc = "idle"
    BY <1>1, <1>10, <1>19 DEF AloneInv
  <2> QED BY <2>2, <2>3, <2>4, <2>5
<1>20. AloneInv'
  BY <1>1, <1>19 DEF AloneInv
<1>21. GrantedInv'
  <2> SUFFICES ASSUME ~rival PROVE GrantedInv'
    BY <1>1 DEF GrantedInv
  <2>1. paired.push = "granted" => paired.device \in subscribed
    BY <1>1, <1>7, <1>8 DEF GrantedInv
  <2>2. stored.ready /\ stored.push = "granted" => stored.device \in subscribed
    BY DEF GrantedInv, Copies
  <2> QED BY <1>1, <1>9, <1>19, <2>1, <2>2 DEF GrantedInv, Copies, serverVars
<1>22. HeldInv'
  <2> SUFFICES ASSUME closes = 0, faults = 0, ~rival, NEW x \in Session, session[x].by \in Device
               PROVE  state'.device = session[x].by
    BY <1>1 DEF HeldInv, PairedKeysAreHeld, Held, serverVars, bounds
  <2>1. Held(session[x].by)
    BY DEF HeldInv, PairedKeysAreHeld
  <2>2. PICK b \in Approval : approval[b].pc \in {"push", "list"} /\ approval[b].device = session[x].by
    BY <1>19, <2>1, Numbers DEF Held
  <2>3. b = a
    BY <1>1, <2>2 DEF AloneInv
  <2> QED BY <1>8, <1>9, <2>2, <2>3
<1> QED BY <1>12, <1>13, <1>14, <1>15, <1>16, <1>17, <1>18, <1>20, <1>21, <1>22

\* It fails, at whatever request.
LEMMA FailKeeps ==
    ASSUME IInv, RowInv', RowsGrow, NEW a \in Approval, PairingFails(a)
    PROVE  IInv'
<1> USE DEF IInv
<1> DEFINE op == approval[a]
           new == [state EXCEPT !.pairing.status = "error"]
           d == created + 1
<1>1. /\ op.pc # "idle" /\ Update(new) /\ approval' = [approval EXCEPT ![a] = Idle]
      /\ UNCHANGED <<page, link, ref, stored, watched, checks, offered, pushes, permission, mixed,
                     rival, closes, asked>>
  BY DEF PairingFails, ErrorState
<1>2. /\ new \in AppState /\ new.push = state.push /\ SameIdentity(new, state)
      /\ new.pairing.session = state.pairing.session /\ new.pairing.sender = state.pairing.sender
  BY StateTypes, StatusSet DEF Status
<1> HIDE DEF new
<1>3. state' = new /\ dirty' \in BOOLEAN
  BY <1>1, <1>2, UpdateType
<1>4. /\ approval' \in [Approval -> ApprovalType] /\ approval'[a].pc = "idle" /\ approval'[a] = Idle
      /\ \A b \in Approval : b # a => approval'[b] = approval[b]
      /\ Unregistered' \subseteq Unregistered \ {a}
  BY <1>1, SlotEnds
\* What the server may have done of the request that failed.
<1>5. /\ session' \in Rows /\ home' \in [Device -> Recipient \cup {None}]
      /\ subscribed' \subseteq Device /\ created' \in 0..MaxDevices
      /\ created' = created \/ (created' = created + 1 /\ a \in Unregistered)
      /\ faults' \in 0..MaxEvents
      /\ faults' = 0 => faults = 0 /\ session' = session /\ op.pc \notin {"push", "list"}
  <2>1. CASE Refused(a) /\ UNCHANGED <<serverVars, created, faults>>
    BY <2>1, TableTypes DEF Refused, serverVars, OnboardTypeOK
  <2>2. ASSUME Fault PROVE faults' \in 0..MaxEvents /\ faults' # 0
    BY <2>2, MayHappenBounds DEF Fault, OnboardTypeOK
  <2>3. CASE Fault /\ UNCHANGED <<serverVars, created>>
    BY <2>2, <2>3, TableTypes DEF serverVars
  <2>4. CASE /\ Fault /\ op.pc = "register" /\ created' = d /\ Register(a, d)
             /\ UNCHANGED <<session, subscribed>>
    <3>1. a \in Unregistered
      BY <2>4 DEF Unregistered
    <3>2. d \in Device /\ d \in 0..MaxDevices
      BY <3>1, IdentityLeft, Numbers
    <3>3. home' = [home EXCEPT ![d] = IF op.to = None THEN d ELSE op.to]
      BY <2>4 DEF Register
    <3>4. home' \in [Device -> Recipient \cup {None}]
      BY <3>2, <3>3, ApprovalTypes, TableTypes, Numbers
    <3> QED BY <2>2, <2>4, <3>1, <3>2, <3>4, TableTypes
  <2>5. CASE Fault /\ op.pc = "approve" /\ ApproveSession(a) /\ UNCHANGED <<home, subscribed, created>>
    <3> DEFINE s == op.base.pairing.session
               recipient == IF session[s].recipient = None THEN home[op.device] ELSE session[s].recipient
               row == [session[s] EXCEPT !.stage = "approved", !.by = op.device, !.recipient = recipient]
    <3>1. s \in Session /\ op.device \in Device
      BY <2>5, ApprovalTypes, Numbers DEF OpInv, OnboardTypeOK
    <3>2. session[s] \in [stage : {"none", "pending", "claimed", "approved"}, expired : BOOLEAN,
                          recipient : Recipient \cup {None}, by : Device \cup {None, Elsewhere}]
      BY <3>1, TableTypes DEF Rows
    <3>3. recipient \in Recipient \cup {None}
      BY <3>1, <3>2, TableTypes
    <3>4. SetApproved(s, op.device, recipient)
      BY <2>5, ApproveSessionSets
    <3> HIDE DEF recipient
    <3>5. session' = [session EXCEPT ![s] = row]
      BY <3>1, <3>4, TableTypes DEF SetApproved, Rows
    <3>6. row \in [stage : {"none", "pending", "claimed", "approved"}, expired : BOOLEAN,
                   recipient : Recipient \cup {None}, by : Device \cup {None, Elsewhere}]
      <4> HIDE DEF s, op
      <4> QED BY <3>1, <3>2, <3>3
    <3> HIDE DEF row
    <3>7. session' \in Rows
      BY <3>5, <3>6, TableTypes DEF Rows
    <3> QED BY <2>2, <2>5, <3>7, TableTypes
  <2>6. CASE Fault /\ op.pc = "push" /\ Subscribe(op.device) /\ UNCHANGED <<session, home, created>>
    <3>1. op.device \in Device
      BY <2>6, ApprovalTypes, Numbers DEF OpInv, OnboardTypeOK
    <3>2. subscribed' \subseteq Device
      BY <2>6, <3>1, TableTypes DEF Subscribe
    <3> QED BY <2>2, <2>6, <3>2, TableTypes
  <2> QED BY <2>1, <2>3, <2>4, <2>5, <2>6 DEF PairingFails
<1>6. page = "open"
  BY <1>1 DEF PageInv
<1>7. OnboardTypeOK'
  BY <1>1, <1>2, <1>3, <1>4, <1>5 DEF OnboardTypeOK, Rows
<1>8. StartedInv'
  <2>1. \A copy \in Copies : copy.pairing.session \in Session \cup {NoSession}
    BY CopyTypes
  <2>2. \A copy \in Copies : Started(copy.pairing.session, session')
    BY <2>1, StartedStays DEF StartedInv
  <2>3. \A copy \in Copies' : Started(copy.pairing.session, session')
    BY <1>1, <1>2, <1>3, <2>2 DEF Copies
  <2>4. \A s \in offered' : Started(s, session')
    BY <1>1, Sessions, StartedStays DEF StartedInv, OnboardTypeOK
  <2> QED BY <1>1, <2>3, <2>4, StartedStays DEF StartedInv
<1>9. CopyInv'
  <2>1. \A x \in Copies' : \E old \in Copies : SameIdentity(x, old)
    BY <1>1, <1>2, <1>3 DEF Copies, SameIdentity
  <2> QED BY <1>7, <2>1, CopyStays
<1>10. ApprovalInv'
  <2>1. OpInv(Idle, session', home', created')
    BY IdleType DEF OpInv
  <2> QED BY <1>4, <1>7, <2>1, OpStays DEF ApprovalInv
<1>11. BoundInv'
  <2>1. CASE created' = created
    BY <1>4, <1>7, <2>1, BoundStays
  <2>2. CASE created' = created + 1 /\ a \in Unregistered
    BY <1>4, <2>2, BoundTaken
  <2> QED BY <1>5, <2>1, <2>2
<1>12. ShownInv'
  BY <1>1, <1>2, <1>3, <1>4 DEF ShownInv, Copies, Shown
<1>13. PageInv'
  BY <1>1, <1>2, <1>3, <1>6 DEF PageInv, SameIdentity
<1>14. AloneInv'
  BY <1>1, <1>2, <1>3, <1>4 DEF AloneInv, SameIdentity
<1>15. GrantedInv'
  <2>1. subscribed \subseteq subscribed'
    BY DEF RowsGrow
  <2> QED BY <1>1, <1>2, <1>3, <1>4, <2>1 DEF GrantedInv, Copies, SameIdentity
<1>16. HeldInv'
  <2> SUFFICES ASSUME closes = 0, faults' = 0, ~rival, NEW x \in Session, session'[x].by \in Device
               PROVE  \/ state'.device = session'[x].by
                      \/ \E b \in Approval : /\ approval'[b].pc \in {"push", "list"}
                                             /\ approval'[b].device = session'[x].by
    BY <1>1 DEF HeldInv, PairedKeysAreHeld, Held
  <2>1. faults = 0 /\ session' = session /\ op.pc \notin {"push", "list"}
    BY <1>5
  <2>2. Held(session[x].by)
    BY <2>1 DEF HeldInv, PairedKeysAreHeld
  <2> QED BY <1>2, <1>3, <1>4, <2>1, <2>2 DEF Held, SameIdentity
<1> QED BY <1>7, <1>8, <1>9, <1>10, <1>11, <1>12, <1>13, <1>14, <1>15, <1>16

-----------------------------------------------------------------------------
(* Theorems *)

\* At the start no session is approved, no phone is paired and nothing is in
\* flight.
LEMMA InitEstablishes == Init => IInv
<1> SUFFICES ASSUME Init PROVE IInv
  OBVIOUS
<1>1. /\ page = "closed" /\ link = NoLink /\ state = DefaultState /\ dirty = FALSE
      /\ ref = DefaultState /\ stored = DefaultState /\ watched = NoLink /\ checks = {}
      /\ offered = {} /\ approval = [a \in Approval |-> Idle] /\ pushes = {}
      /\ permission = "default" /\ mixed = FALSE /\ rival = FALSE
      /\ created = 0 /\ faults = 0 /\ closes = 0 /\ asked = 0
      /\ home = [d \in Device |-> None] /\ subscribed = {}
  BY DEF Init
<1>2. session \in Rows /\ \A s \in Session :
         /\ session[s].by = None
         /\ s \in Link => session[s].stage = "pending" /\ session[s].recipient = Account
         /\ s \notin Link => session[s].stage = "none" /\ session[s].recipient = None
  BY Numbers DEF Init, Rows
<1>3. NoLink \in PairingLink
  BY DEF NoLink, PairingLink
<1>4. OnboardTypeOK
  <2>1. approval \in [Approval -> ApprovalType] /\ home \in [Device -> Recipient \cup {None}]
    BY <1>1, IdleType
  <2>2. /\ created \in 0..MaxDevices /\ faults \in 0..MaxEvents /\ closes \in 0..MaxEvents
        /\ asked \in 0..MaxEvents
    BY <1>1, Numbers
  <2>3. /\ state \in AppState /\ ref \in AppState /\ stored \in AppState
        /\ link \in PairingLink /\ watched \in PairingLink
    BY <1>1, <1>3, DefaultType
  <2> QED BY <1>1, <1>2, <2>1, <2>2, <2>3 DEF OnboardTypeOK, Rows
<1>5. RowInv
  BY <1>2, PairingAssumption DEF PairingAssumption, RowInv
<1>6. StartedInv
  BY <1>1, DefaultType DEF StartedInv, Copies, Started
<1>7. CopyInv
  BY <1>1, DefaultType DEF CopyInv, Copies, Paired
<1>8. \A a \in Approval : approval[a] = Idle /\ approval[a].pc = "idle"
  BY <1>1, IdleType
<1>9. ApprovalInv
  BY <1>8 DEF ApprovalInv, OpInv
<1>10. BoundInv
  <2>1. Unregistered = {}
    BY <1>8 DEF Unregistered
  <2> QED BY <1>1, <2>1, FS_EmptySet, Numbers DEF BoundInv
<1>11. ShownInv
  BY <1>1, <1>8, DefaultType DEF ShownInv, Copies, Shown
<1>12. PageInv
  BY <1>1, <1>8 DEF PageInv
<1>13. AloneInv
  BY <1>1, <1>8 DEF AloneInv
<1>14. GrantedInv
  BY <1>1, <1>8, DefaultType DEF GrantedInv, Copies
<1>15. HeldInv
  BY <1>2, Numbers DEF HeldInv, PairedKeysAreHeld
<1> QED BY <1>4, <1>5, <1>6, <1>7, <1>9, <1>10, <1>11, <1>12, <1>13, <1>14, <1>15 DEF IInv

\* Every step of the pairing keeps the invariant.
LEMMA StepKeeps == IInv /\ [Next]_vars => IInv'
<1> SUFFICES ASSUME IInv, [Next]_vars PROVE IInv'
  OBVIOUS
<1>1. RowInv' /\ RowsGrow
  BY RowsStep
<1>2. CASE UNCHANGED vars
  BY <1>1, <1>2, ServerSteps, QuietKeeps
<1>3. ASSUME NEW s \in Session, Claim(s) \/ Expire(s) \/ ApproveElsewhere(s) PROVE IInv'
  BY <1>1, <1>3, ServerSteps, QuietKeeps
<1>4. ASSUME NEW s \in Session, CodeReady(s) \/ StartFails(s) PROVE IInv'
  BY <1>1, <1>4, CodeIsQuiet, QuietKeeps
<1>5. CASE Check
  BY <1>1, <1>5, CheckIsQuiet, QuietKeeps
<1>6. CASE CheckAnswered
  BY <1>1, <1>6, AnswerIsQuiet, QuietKeeps
<1>7. CASE StartPairing
  BY <1>1, <1>7, StartIsQuiet, QuietKeeps
<1>8. CASE RequestPush \/ \E d \in Device : PushStored(d) \/ PushFails(d)
  BY <1>1, <1>8, PushIsQuiet, QuietKeeps
<1>9. CASE OpenPage
  BY <1>1, <1>9, OpenKeeps
<1>10. CASE Render
  BY <1>1, <1>10, RenderKeeps
<1>11. CASE Close
  BY <1>1, <1>11, CloseKeeps
<1>12. ASSUME NEW a \in Approval, Approve(a) PROVE IInv'
  BY <1>1, <1>12, ApproveKeeps
<1>13. CASE ApprovalStep
  BY <1>1, <1>13, ReadKeeps, RegisterKeeps, ApprovedStepKeeps, SyncKeeps, EndKeeps, FailKeeps
  DEF ApprovalStep
<1> QED BY <1>2, <1>3, <1>4, <1>5, <1>6, <1>7, <1>8, <1>9, <1>10, <1>11, <1>12, <1>13 DEF Next

\* The inductive invariant: what the page, its copies of the state and the
\* approvals in flight may rely on (SetupScreen.tsx, useAppState.ts,
\* app-runtime.ts).
THEOREM OnboardInvariance == Spec => []IInv
BY InitEstablishes, StepKeeps, PTL DEF Spec

\* The server's rows, the page and the approvals in flight are well typed; in
\* particular an approval never lacks the identity it creates.
THEOREM OnboardTypes == Spec => []OnboardTypeOK
<1>1. IInv => OnboardTypeOK
  BY DEF IInv
<1> QED BY <1>1, OnboardInvariance, PTL

\* A phone that takes itself for paired is: the device is registered where it
\* believes, and approved a session whose sender it lists
\* (app-runtime.ts:25-52).
THEOREM ReadySafe == Spec => []ReadyIsPaired
<1>1. IInv => ReadyIsPaired
  BY DEF IInv, CopyInv, Paired, ReadyIsPaired
<1> QED BY <1>1, OnboardInvariance, PTL

\* The sender that is approved is the one that was shown, unless an answer was
\* applied to another session than its own (useAppState.ts:95-117).
THEOREM ApprovalShownSafe == Spec => []ApprovedAsShown
<1>1. IInv => ApprovedAsShown
  BY IdleType DEF IInv, ShownInv, ApprovalInv, OpInv, ApprovedAsShown
<1> QED BY <1>1, OnboardInvariance, PTL

\* Notifications shown as enabled are: the server has the subscription of the
\* device, unless approvals overlapped (useAppState.ts:82-88).
THEOREM GrantedSafe == Spec => []GrantedIsSubscribed
<1>1. IInv => GrantedIsSubscribed
  BY DEF IInv, GrantedInv, GrantedIsSubscribed
<1> QED BY <1>1, OnboardInvariance, PTL

\* The keys of a device that approved a session are held while the page lives,
\* no request fails and approvals do not overlap (app-runtime.ts:25-52).
THEOREM KeysHeld == Spec => []PairedKeysAreHeld
<1>1. IInv => PairedKeysAreHeld
  BY DEF IInv, HeldInv
<1> QED BY <1>1, OnboardInvariance, PTL

\* What is stored changes only when the page is rendered, to the state of React.
LEMMA StoredStep == IInv /\ [Next]_vars => stored' = stored \/ Render
<1> SUFFICES ASSUME IInv, [Next]_vars PROVE stored' = stored \/ Render
  OBVIOUS
<1>1. CASE UNCHANGED vars \/ OpenPage \/ Close \/ Check \/ CheckAnswered \/ StartPairing \/ RequestPush
  BY <1>1 DEF vars, pageVars, OpenPage, Close, Check, CheckAnswered, StartPairing, RequestPush
<1>2. ASSUME NEW s \in Session,
             Claim(s) \/ Expire(s) \/ ApproveElsewhere(s) \/ CodeReady(s) \/ StartFails(s)
      PROVE  stored' = stored
  BY <1>2 DEF pageVars, Claim, Expire, ApproveElsewhere, CodeReady, StartFails
<1>3. ASSUME NEW d \in Device, PushStored(d) \/ PushFails(d) PROVE stored' = stored
  BY <1>3 DEF PushStored, PushFails
<1>4. ASSUME NEW a \in Approval, Approve(a) \/ ReadStatus(a) \/ RegisterDevice(a) \/ Approved(a)
      PROVE  stored' = stored
  BY <1>4 DEF pageVars, Approve, ReadStatus, RegisterDevice, Approved
<1>5. ASSUME NEW a \in Approval, PushSynced(a) \/ EndPairing(a) \/ PairingFails(a)
      PROVE  stored' = stored
  BY <1>5 DEF pageVars, PushSynced, EndPairing, PairingFails
<1> QED BY <1>1, <1>2, <1>3, <1>4, <1>5 DEF Next, ApprovalStep

\* A phone that stored its identity keeps it, whatever is answered, opened,
\* reloaded or fails, unless approvals overlapped, until a page cannot read it
\* (useAppState.ts:27-64, storage.ts:44-59).
THEOREM IdentityKept == Spec => IdentityIsKept
<1>1. IInv /\ [Next]_vars =>
         [stored.device # None /\ ~rival' /\ ~Misread => stored'.device = stored.device]_vars
  <2> SUFFICES ASSUME IInv, [Next]_vars, stored.device # None, ~rival', ~Misread
               PROVE  stored'.device = stored.device
    OBVIOUS
  <2>1. CASE stored' = stored
    BY <2>1
  <2>2. CASE Render
    BY <2>2 DEF Render, IInv, AloneInv, OnboardTypeOK, Misread
  <2> QED BY <2>1, <2>2, StoredStep
<1> QED BY <1>1, OnboardInvariance, PTL DEF Spec, IdentityIsKept

=============================================================================
