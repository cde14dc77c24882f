---------------------------- MODULE DevicePairing ---------------------------
(***************************************************************************)
(* How a phone gets its first sender: the setup screen of the web app      *)
(* (apps/web/src/App.tsx, screens/SetupScreen.tsx,                         *)
(* components/PairingPanels.tsx), the pairing part of its state            *)
(* (state/useAppState.ts) and the operations behind it                     *)
(* (lib/app-runtime.ts, lib/device-client.ts, lib/pwa.ts, lib/routes.ts).  *)
(*                                                                         *)
(* A page polls the session it shows, and an approval is a row of requests *)
(* that works on the snapshot it was started with.  The keys made for the  *)
(* phone are stored only with the end of that row.  A request of a page    *)
(* and the server's work for it are one action; that the answer is lost or *)
(* comes after the page was closed is another.  The statements of an       *)
(* approval on the server are the subject of module Pairing, what the      *)
(* paired phone does of module DeviceApp, late and failed writes of module *)
(* DeviceStorage: here what React has rendered is stored, without a copy.  *)
(***************************************************************************)
EXTENDS Naturals, FiniteSets

CONSTANTS
    Link,        \* sessions started by e-mail; the session is also the name
    Code,        \* of the sender it pairs; sessions started by a phone
    NoSession,
    Approval,    \* slots for approvals in flight
    MaxDevices,  \* bound of the model: device identities created
    MaxChecks,   \* bound of the model: poll answers on their way
    MaxEvents    \* bound of the model: failed requests and reads, pages closed,
                 \* sessions taken away, requests for notifications and a
                 \* second approval at a time, together

Session == Link \cup Code
None == 0                       \* no device, no recipient
Device == 1..MaxDevices         \* the device of the n-th identity created
Account == MaxDevices + 1       \* the recipient of the e-mail address
Elsewhere == MaxDevices + 1     \* another phone of that recipient
Recipient == Device \cup {Account}

ASSUME PairingAssumption ==
    /\ NoSession \notin Session /\ Link \cap Code = {}
    /\ IsFiniteSet(Session) /\ IsFiniteSet(Approval)
    /\ MaxDevices \in Nat \ {0} /\ MaxChecks \in Nat \ {0} /\ MaxEvents \in Nat

VARIABLES
    \* The server: its sessions, and of the devices this phone registered the
    \* recipient they belong to and which have a push subscription.
    session, home, subscribed,
    \* The page.
    page,     \* "closed", "loaded" (stored state set, not rendered) or "open"
    link,     \* the setup link in the address bar
    state,    \* React's state, pending updates included
    dirty,    \* an update waits to be rendered
    ref,      \* stateRef.current
    stored,   \* what storage holds
    watched,  \* the session and secret the polling effect was started with
    checks,   \* poll answers on their way to it
    offered,  \* code sessions on their way to the page
    approval, \* approvals in flight
    pushes,   \* devices a push subscription is being stored for
    permission,
    \* History and bounds.
    mixed,    \* a poll answer was applied to another session than its own
    rival,    \* an approval began while another was in flight
    created, faults, closes, asked

serverVars == <<session, home, subscribed>>
pageVars == <<page, link, state, dirty, ref, stored, watched, checks>>
bounds == <<created, faults, closes, asked>>
vars == <<serverVars, pageVars, offered, approval, pushes, permission, mixed, rival, bounds>>

Status == {"idle", "starting", "code_ready", "email_link", "pending", "claimed",
           "approving", "paired", "expired", "error"}
PushState == {"default", "denied", "granted_missing_subscription", "granted", "paired_no_push"}
\* Null is an absent session; the secret of a code comes with it.
PairingLink == [session : Session \cup {NoSession}, secret : BOOLEAN]
PairingState == [status : Status, session : Session \cup {NoSession}, secret : BOOLEAN,
                 sender : Session \cup {NoSession}]
AppState == [device : Device \cup {None}, recipient : Recipient \cup {None}, ready : BOOLEAN,
             senders : SUBSET Session, push : PushState, pairing : PairingState]
Remote == [status : {"expired", "paired", "claimed", "pending"}, sender : BOOLEAN,
           recipient : Recipient \cup {None}]
ApprovalType == [pc : {"idle", "status", "register", "approve", "push", "list"},
                 base : AppState, to : Recipient \cup {None}, device : Device \cup {None}]

NoLink == [session |-> NoSession, secret |-> FALSE]
Pair(status, s, secret) == [status |-> status, session |-> s, secret |-> secret,
                            sender |-> NoSession]
DefaultState == [device |-> None, recipient |-> None, ready |-> FALSE, senders |-> {},
                 push |-> "default", pairing |-> Pair("idle", NoSession, FALSE)]
Idle == [pc |-> "idle", base |-> DefaultState, to |-> None, device |-> None]

Init ==
    /\ session = [s \in Session |->
                     [stage |-> IF s \in Link THEN "pending" ELSE "none", expired |-> FALSE,
                      recipient |-> IF s \in Link THEN Account ELSE None, by |-> None]]
    /\ home = [d \in Device |-> None] /\ subscribed = {}
    /\ page = "closed" /\ link = NoLink /\ state = DefaultState /\ dirty = FALSE
    /\ ref = DefaultState /\ stored = DefaultState /\ watched = NoLink /\ checks = {}
    /\ offered = {} /\ approval = [a \in Approval |-> Idle] /\ pushes = {}
    /\ permission = "default" /\ mixed = FALSE /\ rival = FALSE
    /\ created = 0 /\ faults = 0 /\ closes = 0 /\ asked = 0

\* setState with an update of the state there is then.
Update(new) == state' = new /\ dirty' = (dirty \/ new # state)

\* Sessions taken away: expired or approved on another phone.
Gone == {s \in Session : session[s].expired \/ session[s].by = Elsewhere}
MayHappen ==
    faults + closes + asked + Cardinality(Gone) + (IF rival THEN 1 ELSE 0) < MaxEvents
Fault == MayHappen /\ faults' = faults + 1

-----------------------------------------------------------------------------
(* The sessions on the server, and what others do with them. *)

\* The sender of a session, once known, is shown to who has the secret of the
\* link, or for a code to anyone who knows the session.
Reveals(s, secret) ==
    IF s \in Link THEN secret ELSE session[s].stage = "claimed"

PairingStatus(s, secret) ==
    LET row == session[s] IN
    CASE row.expired -> [status |-> "expired", sender |-> FALSE, recipient |-> None]
      [] ~row.expired /\ row.stage = "approved" ->
            [status |-> "paired", sender |-> FALSE, recipient |-> row.recipient]
      [] OTHER -> [status |-> row.stage, sender |-> Reveals(s, secret),
                   recipient |-> IF Reveals(s, secret) THEN row.recipient ELSE None]

\* An agent claims a code.
Claim(s) ==
    /\ s \in Code /\ session[s].stage = "pending" /\ ~session[s].expired
    /\ session' = [session EXCEPT ![s].stage = "claimed"]
    /\ UNCHANGED <<home, subscribed, pageVars, offered, approval, pushes, permission, mixed, rival,
                   bounds>>

Expire(s) ==
    /\ MayHappen /\ session[s].stage # "none" /\ ~session[s].expired
    /\ session' = [session EXCEPT ![s].expired = TRUE]
    /\ UNCHANGED <<home, subscribed, pageVars, offered, approval, pushes, permission, mixed, rival,
                   bounds>>

Unused(s) == session[s].stage \in {"pending", "claimed"} /\ ~session[s].expired

\* The link is approved on another phone.
ApproveElsewhere(s) ==
    /\ MayHappen /\ s \in Link /\ Unused(s)
    /\ session' = [session EXCEPT ![s].stage = "approved", ![s].by = Elsewhere]
    /\ UNCHANGED <<home, subscribed, pageVars, offered, approval, pushes, permission, mixed, rival,
                   bounds>>

-----------------------------------------------------------------------------
(* The life of a page. *)

\* A page opens, from a link with or without its secret or without a link, and
\* sets what is stored as its state; for a read that is late or fails it takes
\* the empty state instead.
OpenPage ==
    /\ page = "closed" /\ page' = "loaded"
    /\ link' \in {NoLink} \cup [session : Link, secret : BOOLEAN]
    /\ dirty' = TRUE
    /\ \/ state' = stored /\ UNCHANGED faults
       \/ state' = DefaultState /\ Fault
    /\ UNCHANGED <<serverVars, ref, stored, watched, checks, offered, approval, pushes, permission,
                   mixed, rival, created, closes, asked>>

\* Mutant: a link starts from an empty state.
LoadAfresh(current) ==
    IF link = NoLink THEN current
    ELSE [DefaultState EXCEPT !.pairing = Pair("email_link", link.session, link.secret)]

\* Mutant: a link is patched into the pairing there is.
LoadIntoPairing(current) ==
    IF link = NoLink THEN current
    ELSE [current EXCEPT !.pairing.session = link.session, !.pairing.secret = link.secret,
                         !.pairing.status = "email_link"]

\* A link replaces the pairing unless it is the one that is there.
LoadPairingLink(current) ==
    IF link = NoLink \/ (current.pairing.session = link.session /\ current.pairing.secret = link.secret)
    THEN current
    ELSE [current EXCEPT !.pairing = Pair("email_link", link.session, link.secret)]

\* What the polling effect depends on: kind and session, and the status.
Polled == {"email_link", "code_ready", "pending"}
Watch(pairing) ==
    IF pairing.session # NoSession /\ pairing.status \in Polled
    THEN [session |-> pairing.session, secret |-> pairing.secret]
    ELSE NoLink
SameDependencies(p, q) == p.session = q.session /\ p.status = q.status

\* Mutant: the effect depends on nothing.
StartPollingOnce ==
    IF page = "open" THEN UNCHANGED <<watched, checks>>
                     ELSE watched' = Watch(state.pairing) /\ checks' = {}

\* The polling effect is started anew when what it depends on has changed, and
\* answers to the old one are ignored from then on.
RestartPolling ==
    IF page = "open" /\ SameDependencies(state.pairing, stored.pairing)
    THEN UNCHANGED <<watched, checks>>
    ELSE watched' = Watch(state.pairing) /\ checks' = {}

\* React renders: effects store the state, bring stateRef up to date, watch the
\* session, store a missing push subscription and, on the first render, load
\* the link.  A paired phone is taken from the setup screen to its inbox.
Render ==
    /\ page # "closed" /\ dirty
    /\ page' = "open" /\ ref' = state /\ stored' = state
    /\ RestartPolling
    /\ state' = IF page = "loaded" THEN LoadPairingLink(state) ELSE state
    /\ dirty' = (state' # state)
    /\ link' = IF state.ready THEN NoLink ELSE link
    /\ IF /\ state.device # None /\ state.push = "granted_missing_subscription"
          /\ page = "loaded" \/ state.device # stored.device \/ state.push # stored.push
       THEN pushes' = pushes \cup {state.device}
       ELSE UNCHANGED pushes
    /\ UNCHANGED <<serverVars, offered, approval, permission, mixed, rival, bounds>>

\* The page is closed or reloaded, whatever was in flight.
Close ==
    /\ page # "closed" /\ MayHappen
    /\ page' = "closed" /\ link' = NoLink /\ state' = DefaultState /\ ref' = DefaultState
    /\ dirty' = FALSE /\ watched' = NoLink /\ checks' = {} /\ offered' = {} /\ pushes' = {}
    /\ approval' = [a \in Approval |-> Idle]
    /\ closes' = closes + 1
    /\ UNCHANGED <<serverVars, stored, permission, mixed, rival, created, faults, asked>>

-----------------------------------------------------------------------------
(* Polling. *)

\* Every three seconds the page asks for the session it watches.
Check ==
    /\ watched # NoLink /\ page = "open"
    /\ LET remote == PairingStatus(watched.session, watched.secret) IN
       /\ Cardinality(checks \cup {remote}) <= MaxChecks
       /\ checks' = checks \cup {remote}
    /\ UNCHANGED <<serverVars, page, link, state, dirty, ref, stored, watched, offered, approval,
                   pushes, permission, mixed, rival, bounds>>

ApplyPairingStatus(pairing, remote) ==
    CASE remote.status \in {"claimed", "pending"} ->
            [pairing EXCEPT
                !.status = IF remote.status = "claimed" THEN "claimed"
                           ELSE IF pairing.status = "email_link" THEN "email_link" ELSE "pending",
                !.sender = IF remote.sender THEN watched.session ELSE pairing.sender]
      [] remote.status = "expired" -> [pairing EXCEPT !.status = "expired"]
      [] OTHER -> pairing

\* An answer is applied to the pairing there is when it arrives.
CheckAnswered ==
    \E remote \in checks :
        /\ checks' = checks \ {remote}
        /\ Update([state EXCEPT !.pairing = ApplyPairingStatus(state.pairing, remote)])
        /\ mixed' = (mixed \/ state.pairing.session # watched.session)
        /\ UNCHANGED <<serverVars, page, link, ref, stored, watched, offered, approval, pushes,
                       permission, rival, bounds>>

-----------------------------------------------------------------------------
(* The setup screen. *)

\* The user sees a rendered setup screen; a paired phone never shows it.
SetupScreen == page = "open" /\ ~dirty /\ ~ref.ready

ErrorState(current) == [current EXCEPT !.pairing.status = "error"]

\* The landing page and the panel of a link offer a pairing code.
StartPairing ==
    /\ SetupScreen /\ ref.pairing.session \notin Code
    /\ \E s \in Code :
          /\ session[s].stage = "none"
          /\ session' = [session EXCEPT ![s].stage = "pending"]
          /\ offered' = offered \cup {s}
    /\ Update([state EXCEPT !.pairing = Pair("starting", NoSession, FALSE)])
    /\ link' = NoLink
    /\ UNCHANGED <<home, subscribed, page, ref, stored, watched, checks, approval, pushes,
                   permission, mixed, rival, bounds>>

CodeReady(s) ==
    /\ s \in offered /\ offered' = offered \ {s}
    /\ Update([state EXCEPT !.pairing = Pair("code_ready", s, TRUE)])
    /\ UNCHANGED <<serverVars, page, link, ref, stored, watched, checks, approval, pushes,
                   permission, mixed, rival, bounds>>

StartFails(s) ==
    /\ s \in offered /\ offered' = offered \ {s} /\ Fault
    /\ Update(ErrorState(state))
    /\ UNCHANGED <<serverVars, page, link, ref, stored, watched, checks, approval, pushes,
                   permission, mixed, rival, created, closes, asked>>

\* "Enable notifications", on the setup screen or later in the settings; to
\* dismiss the question changes nothing.
RequestPush ==
    /\ page = "open" /\ ~dirty /\ (ref.ready \/ ref.pairing.session # NoSession)
    /\ MayHappen /\ asked' = asked + 1
    /\ permission' \in IF permission = "default" THEN {"granted", "denied"} ELSE {permission}
    /\ Update([state EXCEPT !.push =
                  IF permission' = "granted" THEN "granted_missing_subscription" ELSE permission'])
    /\ UNCHANGED <<serverVars, page, link, ref, stored, watched, checks, offered, approval, pushes,
                   mixed, rival, created, faults, closes>>

\* The subscription of the browser, if it may have one, is stored on the server.
Subscribe(device) ==
    subscribed' = IF permission = "granted" THEN subscribed \cup {device} ELSE subscribed
\* Mutant: whether there is a subscription is not looked at.
AssumePush == "granted"
SyncedPush == IF permission = "granted" THEN "granted" ELSE "paired_no_push"

PushStored(d) ==
    /\ d \in pushes /\ pushes' = pushes \ {d}
    /\ Subscribe(d)
    /\ Update([state EXCEPT !.push = SyncedPush])
    /\ UNCHANGED <<session, home, page, link, ref, stored, watched, checks, offered, approval,
                   permission, mixed, rival, bounds>>

PushFails(d) ==
    /\ d \in pushes /\ pushes' = pushes \ {d} /\ Fault
    /\ Update([state EXCEPT !.push = "paired_no_push"])
    /\ UNCHANGED <<serverVars, page, link, ref, stored, watched, checks, offered, approval,
                   permission, mixed, rival, created, closes, asked>>

-----------------------------------------------------------------------------
(* Approving. *)

\* "Approve sender": enabled once the sender is shown and while no approval is.
CanApprove(pairing) ==
    pairing.session # NoSession /\ pairing.sender # NoSession /\ pairing.status # "approving"

Approve(a) ==
    /\ SetupScreen /\ CanApprove(ref.pairing)
    /\ approval[a] = Idle /\ a = CHOOSE b \in Approval : approval[b] = Idle
    /\ created + Cardinality({b \in Approval : approval[b] # Idle}) < MaxDevices
    /\ Update([state EXCEPT !.pairing.status = "approving"])
    /\ IF \E b \in Approval : approval[b] # Idle
       THEN (rival \/ MayHappen) /\ rival' = TRUE
       ELSE UNCHANGED rival
    /\ approval' = [approval EXCEPT ![a] = [Idle EXCEPT !.pc = "status", !.base = ref]]
    /\ UNCHANGED <<serverVars, page, link, ref, stored, watched, checks, offered, pushes, permission,
                   mixed, bounds>>

\* The status of the session decides whether the approval goes on: it needs the
\* sender, and joins the recipient the session may have.
ReadStatus(a) ==
    /\ approval[a].pc = "status"
    /\ LET pairing == approval[a].base.pairing
           remote == PairingStatus(pairing.session, pairing.secret)
       IN  /\ remote.status # "expired" /\ remote.sender
           /\ approval' = [approval EXCEPT ![a].pc = "register", ![a].to = remote.recipient]
    /\ UNCHANGED <<serverVars, pageVars, offered, pushes, permission, mixed, rival, bounds>>

\* Mutant: the session is taken for the recipient.
RegisterUnderSession(a, d) ==
    home' = [home EXCEPT ![d] = approval[a].base.pairing.session]

\* The server registers the device with the recipient of the session, which
\* must not be used, or with a new one.
Register(a, d) ==
    LET to == approval[a].to
        s == approval[a].base.pairing.session
    IN  /\ to = None \/ (Unused(s) /\ session[s].recipient = to)
        /\ home' = [home EXCEPT ![d] = IF to = None THEN d ELSE to]

\* A new identity for the phone, and its registration.
RegisterDevice(a) ==
    /\ approval[a].pc = "register"
    /\ created' = created + 1
    /\ Register(a, created + 1)
    /\ approval' = [approval EXCEPT ![a].pc = "approve", ![a].device = created + 1]
    /\ UNCHANGED <<session, subscribed, pageVars, offered, pushes, permission, mixed, rival, faults,
                   closes, asked>>

\* Mutant: a session can be approved again.
ApproveAgain(a) ==
    LET s == approval[a].base.pairing.session
        d == approval[a].device
    IN  /\ session[s].stage # "none" /\ ~session[s].expired
        /\ session' = [session EXCEPT ![s].stage = "approved", ![s].by = d,
                                      ![s].recipient = IF @ = None THEN home[d] ELSE @]

\* The server approves a session with a sender that is not used, for the
\* recipient of the session or else of the device.
ApproveSession(a) ==
    LET s == approval[a].base.pairing.session
        d == approval[a].device
    IN  /\ Unused(s) /\ Reveals(s, approval[a].base.pairing.secret)
        /\ session' = [session EXCEPT ![s].stage = "approved", ![s].by = d,
                                      ![s].recipient = IF @ = None THEN home[d] ELSE @]

Approved(a) ==
    /\ approval[a].pc = "approve" /\ ApproveSession(a)
    /\ approval' = [approval EXCEPT
          ![a].pc = "push", ![a].to = session'[approval[a].base.pairing.session].recipient]
    /\ UNCHANGED <<home, subscribed, pageVars, offered, pushes, permission, mixed, rival, bounds>>

PushSynced(a) ==
    /\ approval[a].pc = "push"
    /\ Subscribe(approval[a].device)
    /\ approval' = [approval EXCEPT ![a].pc = "list", ![a].base.push = SyncedPush]
    /\ UNCHANGED <<session, home, pageVars, offered, pushes, permission, mixed, rival, bounds>>

SendersOf(recipient) == {s \in Session : session[s].stage = "approved" /\ session[s].recipient = recipient}

\* Mutant: the snapshot is not given the new device.
EndWithoutDevice(a) ==
    /\ approval[a].pc = "list"
    /\ LET op == approval[a]
           paired == [op.base EXCEPT
                         !.recipient = op.to, !.ready = TRUE,
                         !.senders = @ \cup SendersOf(home[op.device]),
                         !.pairing.status = "paired"]
       IN  Update(paired) /\ ref' = paired
    /\ approval' = [approval EXCEPT ![a] = Idle]
    /\ UNCHANGED <<serverVars, page, link, stored, watched, checks, offered, pushes, permission,
                   mixed, rival, bounds>>

\* The snapshot, completed, takes the place of the state, and stateRef with it.
EndPairing(a) ==
    /\ approval[a].pc = "list"
    /\ LET op == approval[a]
           paired == [op.base EXCEPT
                         !.device = op.device, !.recipient = op.to, !.ready = TRUE,
                         !.senders = @ \cup SendersOf(home[op.device]),
                         !.pairing.status = "paired"]
       IN  Update(paired) /\ ref' = paired
    /\ approval' = [approval EXCEPT ![a] = Idle]
    /\ UNCHANGED <<serverVars, page, link, stored, watched, checks, offered, pushes, permission,
                   mixed, rival, bounds>>

\* The server refuses: the session expired, was used or shows no sender.
Refused(a) ==
    LET op == approval[a]
        s == op.base.pairing.session
        remote == PairingStatus(s, op.base.pairing.secret)
    IN  \/ op.pc = "status" /\ (remote.status = "expired" \/ ~remote.sender)
        \/ op.pc = "register" /\ op.to # None /\ ~(Unused(s) /\ session[s].recipient = op.to)
        \/ op.pc = "approve" /\ ~(Unused(s) /\ Reveals(s, op.base.pairing.secret))

\* Whatever ends an approval early is shown on the pairing there is then, and
\* what the approval has made is dropped.
PairingFails(a) ==
    /\ approval[a].pc # "idle"
    /\ \/ Refused(a) /\ UNCHANGED <<serverVars, created, faults>>
       \/ Fault /\ UNCHANGED <<serverVars, created>>
       \/ /\ Fault /\ approval[a].pc = "register"
          /\ created' = created + 1 /\ Register(a, created + 1)
          /\ UNCHANGED <<session, subscribed>>
       \/ /\ Fault /\ approval[a].pc = "approve" /\ ApproveSession(a)
          /\ UNCHANGED <<home, subscribed, created>>
       \/ /\ Fault /\ approval[a].pc = "push" /\ Subscribe(approval[a].device)
          /\ UNCHANGED <<session, home, created>>
    /\ Update(ErrorState(state))
    /\ approval' = [approval EXCEPT ![a] = Idle]
    /\ UNCHANGED <<page, link, ref, stored, watched, checks, offered, pushes, permission, mixed,
                   rival, closes, asked>>

-----------------------------------------------------------------------------
ApprovalStep ==
    \E a \in Approval : \/ ReadStatus(a) \/ RegisterDevice(a) \/ Approved(a)
                        \/ PushSynced(a) \/ EndPairing(a) \/ PairingFails(a)

Next ==
    \/ OpenPage \/ Render \/ Close \/ Check \/ CheckAnswered
    \/ StartPairing \/ RequestPush \/ ApprovalStep
    \/ \E s \in Session : Claim(s) \/ Expire(s) \/ ApproveElsewhere(s)
                         \/ CodeReady(s) \/ StartFails(s)
    \/ \E d \in Device : PushStored(d) \/ PushFails(d)
    \/ \E a \in Approval : Approve(a)

Spec == Init /\ [][Next]_vars

\* React renders, the timer of the effect goes on, and requests are answered.
Fairness ==
    WF_vars(Render) /\ WF_vars(Check) /\ WF_vars(CheckAnswered) /\ WF_vars(ApprovalStep)
FairSpec == Spec /\ Fairness

-----------------------------------------------------------------------------
(* Properties *)

\* Type correctness of the server, the page and the approvals in flight.
OnboardTypeOK ==
    /\ session \in [Session -> [stage : {"none", "pending", "claimed", "approved"},
                                expired : BOOLEAN, recipient : Recipient \cup {None},
                                by : Device \cup {None, Elsewhere}]]
    /\ home \in [Device -> Recipient \cup {None}] /\ subscribed \subseteq Device
    /\ page \in {"closed", "loaded", "open"} /\ link \in PairingLink /\ dirty \in BOOLEAN
    /\ state \in AppState /\ ref \in AppState /\ stored \in AppState
    /\ watched \in PairingLink /\ checks \subseteq Remote /\ offered \subseteq Code
    /\ approval \in [Approval -> ApprovalType] /\ pushes \subseteq Device
    /\ permission \in {"default", "granted", "denied"}
    /\ mixed \in BOOLEAN /\ rival \in BOOLEAN
    /\ created \in 0..MaxDevices /\ faults \in 0..MaxEvents /\ closes \in 0..MaxEvents
    /\ asked \in 0..MaxEvents

\* The state in the page, the one its callbacks read, and the one in storage.
Copies == {state, ref, stored}

\* A phone that takes itself for paired, in any copy of its state, is: its
\* device is registered under the recipient it believes in, the server has a
\* session which this very device approved, and the sender of that session is
\* in its list (app-runtime.ts:25-52).
ReadyIsPaired ==
    \A copy \in Copies : copy.ready =>
        /\ copy.device # None /\ home[copy.device] = copy.recipient
        /\ \E s \in copy.senders : session[s].by = copy.device

\* What is being approved is the sender the user was shown, unless an answer for
\* one session has been applied to another in the moment before the page was
\* rendered (useAppState.ts:95-117, app-runtime.ts:90-106).
ApprovedAsShown ==
    ~mixed => \A a \in Approval : approval[a] # Idle =>
        approval[a].base.pairing.sender = approval[a].base.pairing.session

\* A paired phone that shows notifications as enabled has stored a push
\* subscription on the server (app-runtime.ts:55-59, useAppState.ts:82-88).
GrantedIsSubscribed ==
    ~rival => \A copy \in Copies :
        copy.ready /\ copy.push = "granted" => copy.device \in subscribed

Held(d) ==
    \/ state.device = d
    \/ \E a \in Approval : approval[a].pc \in {"push", "list"} /\ approval[a].device = d

\* As long as the page lives, every request is answered and one approval runs
\* at a time, the keys of a device that approved a session are not lost: they
\* are in the state or in the operation about to put them there
\* (app-runtime.ts:25-52, useAppState.ts:32-38).
PairedKeysAreHeld ==
    closes = 0 /\ faults = 0 /\ ~rival =>
        \A s \in Session : session[s].by \in Device => Held(session[s].by)

\* The page has not got what is stored and is about to write the empty state.
Misread == page = "loaded" /\ state # stored

\* No later answer, link, reload or failed request takes the identity from a
\* phone that has stored it, unless approvals overlapped; the first render of a
\* page that could not read it in time does (useAppState.ts:27-64,
\* storage.ts:44-59).
IdentityIsKept ==
    [][stored.device # None /\ ~rival' /\ ~Misread => stored'.device = stored.device]_vars

\* The page waits for the name of a sender that the server would tell it; not
\* counted is a page that began to watch the session without its secret ...
WaitsForSender ==
    LET pairing == state.pairing IN
    /\ page = "open" /\ pairing.secret /\ pairing.sender = NoSession /\ pairing.status \in Polled
    /\ ~session[pairing.session].expired
    /\ session[pairing.session].stage \in {"pending", "claimed"} /\ Reveals(pairing.session, TRUE)
    /\ ~(watched.session = pairing.session /\ ~watched.secret)

\* ... or shows "Approving...", and was not closed meanwhile.
ShowsApproving == state.pairing.status = "approving" /\ closes = 0

\* The setup screen does not hang: a page that watches a session with its
\* secret comes to show the sender, and an approval ends in a paired phone or
\* an error (useAppState.ts:27-40, 90-117).
SetupGoesOn == (WaitsForSender \/ ShowsApproving) ~> ~(WaitsForSender \/ ShowsApproving)

\* docs/product-spec.md:226: the page shows the sender and asks the user to
\* approve it.  Pages included that were closed during an earlier approval.
AsksToApprove ==
    (state.pairing.status = "approving") ~> (state.pairing.status # "approving")
=============================================================================
