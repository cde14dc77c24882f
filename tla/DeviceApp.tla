------------------------------ MODULE DeviceApp -----------------------------
(***************************************************************************)
(* The web app on a registered phone: the state React renders              *)
(* (apps/web/src/state/useAppState.ts), the asynchronous operations that   *)
(* talk to the server (lib/app-runtime.ts) and the storage (module         *)
(* DeviceStorage).                                                         *)
(*                                                                         *)
(* A synchronisation works on the snapshot of the whole state it started   *)
(* from and, seconds later, puts its result in the place of whatever the   *)
(* state is then.  Local edits, answers and revocations are functional     *)
(* updates instead.  Every await is a place where other events come in, so *)
(* an operation is one action per await and call[c] holds what it carries  *)
(* over.                                                                   *)
(***************************************************************************)
EXTENDS Naturals, Sequences

CONSTANTS
    Message, Sender,
    Call,          \* slots for operations in flight
    SenderOf,      \* the sender of each message
    FirstSender,   \* the sender this phone was registered with
    NoContent,     \* null: nothing is stored
    Nobody,        \* the store effect, which waits for no write
    FallbackWorks, \* whether localStorage takes what it is given
    MaxEvents,     \* bound of the model: wakeups and things the user does
    MaxCloses,     \* bound of the model: times the page is closed
    MaxFaults      \* bound of the model: accesses of IndexedDB that are late or
                   \* fail, and notifications that fail

AppState ==
    [device : BOOLEAN, senders : SUBSET Sender, revoked : SUBSET Sender,
     inbox : SUBSET Message, saved : SUBSET Message, deleted : SUBSET Message,
     answered : SUBSET Message]

ASSUME AppAssumption ==
    /\ SenderOf \in [Message -> Sender] /\ FirstSender \in Sender
    /\ NoContent \notin AppState /\ Nobody \notin Call
    /\ FallbackWorks \in BOOLEAN
    /\ MaxEvents \in Nat /\ MaxCloses \in Nat /\ MaxFaults \in Nat

VARIABLES
    \* The storage, see module DeviceStorage.
    idb, fallback, txn, puts, late, undone, faults,
    \* The page.
    page,    \* "closed", "loaded" (stored state set, not rendered) or "open"
    state,   \* React's state, pending updates included
    dirty,   \* an update waits to be rendered
    ref,     \* stateRef.current
    call,    \* the operations in flight
    \* The server, as far as this phone sees it.
    accepted,       \* messages with a key wrap for this device
    delivered,      \* those whose wrap has deliveredAt set
    answers,        \* messages with a response of this device
    paired,         \* senders of the recipient
    revokedSenders,
    \* History and bounds.
    taken,       \* messages a store of the phone has taken
    unshown,     \* messages stored by a synchronisation whose notification
                 \* failed, and not shown by a later one, since the page opened
    overlapped,  \* since the page opened, an operation that replaces the state
                 \* began while another was in flight
    events, closes

INSTANCE DeviceStorage WITH Content <- AppState, Caller <- Call

storageVars == <<idb, fallback, txn, puts, late, undone, faults>>
pageVars == <<page, state, dirty, ref>>
serverVars == <<accepted, delivered, answers, paired, revokedSenders>>
history == <<taken, unshown, overlapped>>
vars == <<storageVars, pageVars, call, serverVars, history, events, closes>>

Pc == {"idle", "fetch", "merge", "store", "report",
       "answer", "answered", "revoke", "revoked"}
\* The operations that replace the state when they end.
Replacing == {"fetch", "merge", "store", "report"}

CallType == [pc : Pc, base : AppState, got : SUBSET Message, left : SUBSET Message,
             about : SUBSET Sender]

DefaultState == [device |-> FALSE, senders |-> {}, revoked |-> {}, inbox |-> {},
                 saved |-> {}, deleted |-> {}, answered |-> {}]
Registered == [DefaultState EXCEPT !.device = TRUE, !.senders = {FirstSender}]
Idle == [pc |-> "idle", base |-> DefaultState, got |-> {}, left |-> {}, about |-> {}]

Init ==
    /\ StorageInit(Registered)
    /\ page = "closed" /\ state = DefaultState /\ dirty = FALSE /\ ref = DefaultState
    /\ call = [c \in Call |-> Idle]
    /\ accepted = {} /\ delivered = {} /\ answers = {}
    /\ paired = {FirstSender} /\ revokedSenders = {}
    /\ taken = {} /\ unshown = {} /\ overlapped = FALSE /\ events = 0 /\ closes = 0

Finish(c) == call' = [call EXCEPT ![c] = Idle]

-----------------------------------------------------------------------------
(* The server and the life of a page. *)

\* The server accepts a message of a paired sender for this device.
Accept(m) ==
    /\ m \notin accepted /\ SenderOf[m] \in paired \ revokedSenders
    /\ accepted' = accepted \cup {m}
    /\ UNCHANGED <<storageVars, pageVars, call, delivered, answers, paired, revokedSenders,
                   history, events, closes>>

\* Another phone of the recipient approves a sender: on this one, which is set
\* up, nothing leads to the screen that would (App.tsx:140).
SenderPaired(s) ==
    /\ s \notin paired
    /\ paired' = paired \cup {s}
    /\ UNCHANGED <<storageVars, pageVars, call, accepted, delivered, answers, revokedSenders,
                   history, events, closes>>

\* A page opens; until it has read what is stored it shows nothing.
OpenPage ==
    /\ page = "closed"
    /\ \E content \in {idb, fallback} :
          /\ ReadStoredState(content)
          /\ state' = IF content = NoContent THEN DefaultState ELSE content
    /\ page' = "loaded" /\ dirty' = TRUE
    /\ UNCHANGED <<ref, call, serverVars, history, events, closes>>

\* The snapshot a synchronisation starts from; without a device it does nothing.
Synchronise(c, snapshot) ==
    call' = [call EXCEPT ![c] = IF snapshot.device
                                THEN [Idle EXCEPT !.pc = "fetch", !.base = snapshot]
                                ELSE Idle]

Busy == \E c \in Call : call[c].pc \in Replacing

\* React renders: the effects store the state, bring stateRef up to date and,
\* for the first render, synchronise.
Render ==
    /\ page # "closed" /\ dirty
    /\ dirty' = FALSE /\ ref' = state /\ page' = "open"
    /\ WriteStoredState(state, Nobody)
    /\ IF page = "loaded"
       THEN \E c \in Call : call[c].pc = "idle" /\ Synchronise(c, state)
       ELSE UNCHANGED call
    /\ UNCHANGED <<state, serverVars, history, events, closes>>

\* The page is closed or reloaded, whatever was in flight.
Close ==
    /\ page # "closed" /\ closes < MaxCloses
    /\ ClosePage
    /\ page' = "closed" /\ state' = DefaultState /\ ref' = DefaultState /\ dirty' = FALSE
    /\ call' = [c \in Call |-> Idle] /\ unshown' = {} /\ overlapped' = FALSE
    /\ closes' = closes + 1
    /\ UNCHANGED <<serverVars, taken, events>>

\* An event reaches the open page: a message of the service worker or the user.
Event ==
    /\ page = "open" /\ events < MaxEvents
    /\ events' = events + 1
    /\ UNCHANGED <<storageVars, page, serverVars, taken, unshown, closes>>

-----------------------------------------------------------------------------
(* Synchronisation: runPendingSync and syncPendingState. *)

\* A push or a click on a notification has woken the page, or the preview
\* policy has changed.
Wakeup(c) ==
    /\ Event
    /\ call[c].pc = "idle"
    /\ Synchronise(c, ref)
    /\ overlapped' = (overlapped \/ Busy)
    /\ UNCHANGED <<state, dirty, ref>>

\* The server lists what this device has not reported.
FetchPending(c) ==
    /\ call[c].pc = "fetch"
    /\ call' = [call EXCEPT ![c].pc = "merge", ![c].got = accepted \ delivered]
    /\ UNCHANGED <<storageVars, pageVars, serverVars, history, events, closes>>

\* The request fails, or one of the messages cannot be decrypted or verified.
FetchFails(c) ==
    /\ call[c].pc \in {"fetch", "merge"}
    /\ Finish(c)
    /\ UNCHANGED <<storageVars, pageVars, serverVars, history, events, closes>>

\* Mutant: the senders are left as they are.
MergeMessages(current, got) == [current EXCEPT !.inbox = @ \cup got]

\* mergePending: messages that are there stay as they are, the senders follow.
MergePending(current, got) ==
    [current EXCEPT !.inbox = @ \cup got,
                    !.senders = @ \cup {SenderOf[m] : m \in got}]
Merged(c) == MergePending(call[c].base, call[c].got)

\* Mutant: delivery is reported while the write is under way.
StoreAndReport(c) ==
    /\ call[c].pc = "merge"
    /\ IF call[c].got = {}
       THEN Finish(c) /\ UNCHANGED storageVars
       ELSE /\ WriteStoredState(Merged(c), Nobody)
            /\ call' = [call EXCEPT ![c].pc = "report", ![c].left = call[c].got]
    /\ UNCHANGED <<pageVars, serverVars, history, events, closes>>

\* Nothing to do, or the merged state goes to the storage.
Store(c) ==
    /\ call[c].pc = "merge"
    /\ IF call[c].got = {}
       THEN Finish(c) /\ UNCHANGED storageVars
       ELSE /\ WriteStoredState(Merged(c), c)
            /\ call' = [call EXCEPT ![c].pc = "store"]
    /\ UNCHANGED <<pageVars, serverVars, history, events, closes>>

\* One of the reports reaches the server, in any order, or is lost.
Report(c, m) ==
    /\ call[c].pc = "report" /\ m \in call[c].left
    /\ delivered' \in {delivered, delivered \cup {m}}
    /\ call' = [call EXCEPT ![c].left = @ \ {m}]
    /\ UNCHANGED <<storageVars, pageVars, accepted, answers, paired, revokedSenders,
                   history, events, closes>>

\* Mutant: stateRef is left to the next render.
EndSyncWithoutRef(c) ==
    /\ call[c].pc = "report" /\ call[c].left = {}
    /\ state' = Merged(c) /\ dirty' = TRUE
    /\ unshown' = unshown \ call[c].got
    /\ Finish(c)
    /\ UNCHANGED <<storageVars, page, ref, serverVars, taken, overlapped, events, closes>>

\* The notifications have been shown; the result replaces the state.
EndSync(c) ==
    /\ call[c].pc = "report" /\ call[c].left = {}
    /\ state' = Merged(c) /\ ref' = Merged(c) /\ dirty' = TRUE
    /\ unshown' = unshown \ call[c].got
    /\ Finish(c)
    /\ UNCHANGED <<storageVars, page, serverVars, taken, overlapped, events, closes>>

\* A notification cannot be shown.  Nobody catches it: the synchronisation ends
\* without its result, which has been stored and reported.
NotificationFails(c) ==
    /\ call[c].pc = "report" /\ call[c].left = {}
    /\ call[c].got \ call[c].base.inbox # {}
    /\ faults < MaxFaults /\ faults' = faults + 1
    /\ unshown' = unshown \cup (call[c].got \ call[c].base.inbox)
    /\ Finish(c)
    /\ UNCHANGED <<idb, fallback, txn, puts, late, undone, pageVars, serverVars,
                   taken, overlapped, events, closes>>

-----------------------------------------------------------------------------
(* The storage's own steps, and the synchronisation that waited for them. *)

Inbox(content) == IF content = NoContent THEN {} ELSE content.inbox
Remember == taken' = taken \cup Inbox(idb') \cup Inbox(fallback') \cup Inbox(txn')

\* A write is answered: its caller goes on to report.
Resume(c) ==
    call' = IF c = Nobody THEN call
            ELSE [call EXCEPT ![c].pc = "report", ![c].left = call[c].got]

StorageStep ==
    /\ \/ (Commit \/ Abort \/ LatePutCommits \/ LatePutFails) /\ UNCHANGED call
       \/ (PutSucceeds \/ PutTimesOut) /\ Resume(Head(puts).caller)
       \/ \E i \in DOMAIN puts : PutFails(i) /\ Resume(puts[i].caller)
    /\ Remember
    /\ UNCHANGED <<pageVars, serverVars, unshown, overlapped, events, closes>>

-----------------------------------------------------------------------------
(* What the user does with a message or a sender. *)

Edit(new) == state' = new /\ dirty' = TRUE /\ UNCHANGED ref

ToggleSave(m) ==
    /\ Event
    /\ m \in state.inbox
    /\ Edit([state EXCEPT !.saved = (@ \cup {m}) \ (@ \cap {m})])
    /\ UNCHANGED <<call, overlapped>>

DeleteMessage(m) ==
    /\ Event
    /\ m \in state.inbox
    /\ Edit([state EXCEPT !.deleted = @ \cup {m}, !.saved = @ \ {m}])
    /\ UNCHANGED <<call, overlapped>>

\* submitReply and submitApproval: message and sender must be in the snapshot.
SubmitAnswer(c, m) ==
    /\ Event
    /\ call[c].pc = "idle"
    /\ ref.device /\ m \in ref.inbox /\ SenderOf[m] \in ref.senders
    /\ call' = [call EXCEPT ![c] = [Idle EXCEPT !.pc = "answer", !.got = {m}]]
    /\ UNCHANGED <<state, dirty, ref, overlapped>>

AnswerStored(c) ==
    /\ call[c].pc = "answer"
    /\ answers' = answers \cup call[c].got
    /\ call' = [call EXCEPT ![c].pc = "answered"]
    /\ UNCHANGED <<storageVars, pageVars, accepted, delivered, paired, revokedSenders,
                   history, events, closes>>

\* Mutant: the answer is shown before the server has it.
ShowAnswerAtOnce(c) ==
    /\ call[c].pc \in {"answer", "answered"}
    /\ Edit([state EXCEPT !.answered = @ \cup (call[c].got \cap state.inbox)])
    /\ Finish(c)
    /\ UNCHANGED <<storageVars, page, serverVars, history, events, closes>>

\* The app hears of it and marks the message, if it still has it.
ShowAnswer(c) ==
    /\ call[c].pc = "answered"
    /\ Edit([state EXCEPT !.answered = @ \cup (call[c].got \cap state.inbox)])
    /\ Finish(c)
    /\ UNCHANGED <<storageVars, page, serverVars, history, events, closes>>

RevokeSender(c, s) ==
    /\ Event
    /\ call[c].pc = "idle" /\ ref.device /\ s \in state.senders \ state.revoked
    /\ call' = [call EXCEPT ![c] = [Idle EXCEPT !.pc = "revoke", !.about = {s}]]
    /\ UNCHANGED <<state, dirty, ref, overlapped>>

SenderRevoked(c) ==
    /\ call[c].pc = "revoke"
    /\ revokedSenders' = revokedSenders \cup call[c].about
    /\ call' = [call EXCEPT ![c].pc = "revoked"]
    /\ UNCHANGED <<storageVars, pageVars, accepted, delivered, answers, paired,
                   history, events, closes>>

ShowRevoked(c) ==
    /\ call[c].pc = "revoked"
    /\ Edit([state EXCEPT !.revoked = @ \cup (call[c].about \cap state.senders)])
    /\ Finish(c)
    /\ UNCHANGED <<storageVars, page, serverVars, history, events, closes>>

\* The request fails or its answer is lost: the app shows nothing.
RequestFails(c) ==
    /\ call[c].pc \in {"answer", "answered", "revoke", "revoked"}
    /\ Finish(c)
    /\ UNCHANGED <<storageVars, pageVars, serverVars, history, events, closes>>

-----------------------------------------------------------------------------
Next ==
    \/ OpenPage \/ Render \/ Close \/ StorageStep
    \/ \E m \in Message : Accept(m) \/ ToggleSave(m) \/ DeleteMessage(m)
    \/ \E s \in Sender : SenderPaired(s)
    \/ \E c \in Call :
          \/ Wakeup(c) \/ FetchPending(c) \/ FetchFails(c) \/ Store(c) \/ EndSync(c)
          \/ NotificationFails(c)
          \/ AnswerStored(c) \/ ShowAnswer(c) \/ SenderRevoked(c) \/ ShowRevoked(c)
          \/ RequestFails(c)
          \/ \E m \in Message : Report(c, m) \/ SubmitAnswer(c, m)
          \/ \E s \in Sender : RevokeSender(c, s)

Spec == Init /\ [][Next]_vars

-----------------------------------------------------------------------------
(* Properties *)

\* Type correctness of the page, the operations in flight and the storage.
AppTypeOK ==
    /\ StorageTypeOK
    /\ page \in {"closed", "loaded", "open"}
    /\ state \in AppState /\ ref \in AppState /\ dirty \in BOOLEAN
    /\ call \in [Call -> CallType]
    /\ accepted \subseteq Message /\ delivered \subseteq Message /\ answers \subseteq Message
    /\ paired \subseteq Sender /\ revokedSenders \subseteq Sender
    /\ taken \subseteq Message /\ unshown \subseteq Message /\ overlapped \in BOOLEAN
    /\ events \in 0..MaxEvents /\ closes \in 0..MaxCloses

\* Every copy of the state there is: on the page, in operations, in storage.
Copies ==
    {state, ref} \cup {call[c].base : c \in Call}
    \cup ({idb, fallback, txn} \ {NoContent})
    \cup {puts[i].content : i \in DOMAIN puts} \cup {late[i] : i \in DOMAIN late}

\* A message is reported delivered only after a store of the phone has taken
\* it, however the writes of the page are delayed: localStorage, or IndexedDB,
\* whose word is that of the request, before the commit (app-runtime.ts:67-69,
\* storage.ts:32).
TakenBeforeReported == FallbackWorks => delivered \subseteq taken

\* No copy of the state, however old, shows an answer or a revocation that the
\* server has not stored: both follow the server's answer and survive in
\* snapshots only (useAppState.ts:198-226).
ShownIsOnServer ==
    \A copy \in Copies : copy.answered \subseteq answers /\ copy.revoked \subseteq revokedSenders

\* Whatever copy replaces the state, every message in it comes with its sender,
\* without which it could not be answered (app-runtime.ts:130-147, 149-156).
SendersCoverInbox ==
    \A copy \in Copies : \A m \in copy.inbox : SenderOf[m] \in copy.senders

\* The page is at rest: nothing to render, no operation, no write.
Quiet ==
    /\ page = "open" /\ ~dirty
    /\ \A c \in Call : call[c].pc = "idle"
    /\ puts = <<>> /\ late = <<>> /\ txn = NoContent

\* A page at rest has stored what it shows: the writes of effects and of
\* synchronisations, which nothing orders, end with the last state; only after
\* a late or failed write may it be the copy (useAppState.ts:61-64, 42-47).
\* Not if the last write was aborted behind the page's back, or failed next to
\* an earlier one; nor with messages a failed notification kept off the screen.
QuietPageIsStored ==
    Quiet /\ FallbackWorks /\ ~undone /\ unshown = {} =>
        idb = state \/ (faults > 0 /\ fallback = state)

Held == state.inbox \cup UNION {call[c].got : c \in {d \in Call : call[d].pc \in {"store", "report"}}}

\* As long as only one operation at a time replaces the state of the first
\* page, it loses no message it has reported: the message is in the state or in
\* the operation that is about to replace it (useAppState.ts:42-47), or one of
\* its notifications failed (app-runtime.ts:70-72).
LoneSyncKeepsMessages ==
    page = "open" /\ ~overlapped /\ closes = 0 => delivered \subseteq Held \cup unshown

\* docs/product-spec.md:1148: `delivered` means that the phone stored the
\* message.  Not one copy is left of a message that was reported.
DeliveredIsKept ==
    \A m \in delivered :
        \/ page = "open" /\ m \in Held
        \/ \E copy \in Copies : m \in copy.inbox
=============================================================================
