-------------------------- MODULE DeviceApp_proofs --------------------------
(***************************************************************************)
(* Theorems about DeviceApp, for any messages, senders and number of       *)
(* operations in flight, and any number of late, failed or aborted writes. *)
(***************************************************************************)
EXTENDS DeviceApp, SequenceTheorems, TLAPS

-----------------------------------------------------------------------------
(* The inductive invariant *)

\* A copy of the state shows no answer outside A and no revocation outside R,
\* and knows the senders of its messages.
SoundFor(x, A, R) ==
    /\ x \in AppState
    /\ x.answered \subseteq A
    /\ x.revoked \subseteq R
    /\ \A m \in x.inbox : SenderOf[m] \in x.senders
Sound(x) == SoundFor(x, answers, revokedSenders)

SoundCopies ==
    /\ Sound(state) /\ Sound(ref)
    /\ idb # NoContent => Sound(idb)
    /\ fallback # NoContent => Sound(fallback)
    /\ txn # NoContent => Sound(txn)
    /\ \A i \in 1..Len(puts) : Sound(puts[i].content)
    /\ \A i \in 1..Len(late) : Sound(late[i])

\* What an operation carries over.
CallInv(c) ==
    /\ Sound(call[c].base)
    /\ call[c].pc = "answered" => call[c].got \subseteq answers
    /\ call[c].pc = "revoked" => call[c].about \subseteq revokedSenders
    /\ call[c].pc = "report" /\ FallbackWorks => call[c].left \subseteq taken

\* A put somebody waits for is the only one of its caller, and holds what the
\* caller will report.
PutsAwaited ==
    \A i \in 1..Len(puts) :
       puts[i].caller # Nobody =>
          /\ call[puts[i].caller].pc = "store"
          /\ call[puts[i].caller].got \subseteq puts[i].content.inbox
          /\ \A j \in 1..Len(puts) : puts[j].caller = puts[i].caller => j = i

Writing(c) == call[c].pc \in {"store", "report"}

\* Where the state is when all that was written has been answered.
StateIsKept ==
    \/ late = <<>> /\ txn # NoContent /\ txn = state
    \/ late = <<>> /\ txn = NoContent /\ idb = state
    \/ faults > 0 /\ (FallbackWorks => fallback = state)

\* While nothing waits to be rendered or to replace the state, and nothing was
\* kept from the page, the last write is the one of the state.
LastWriteIsState ==
    (/\ page = "open" /\ ~dirty /\ ~undone /\ unshown = {}
     /\ \A c \in Call : ~Writing(c)) =>
        /\ puts # <<>> => puts[Len(puts)].content = state
        /\ puts = <<>> => StateIsKept

IInv ==
    /\ AppTypeOK
    /\ SoundCopies
    /\ \A c \in Call : CallInv(c)
    /\ PutsAwaited
    /\ TakenBeforeReported
    /\ LastWriteIsState

\* The steps that leave the storage alone: an operation may move on, but not
\* one that waits for a write, and one that writes ends by changing the state.
Moves(c) ==
    /\ call[c].pc # "store" /\ call'[c].pc # "store"
    /\ CallInv(c)'
    /\ call[c].pc = "report" => dirty' \/ unshown' # {} \/ call'[c].pc = "report"

Aside ==
    /\ dirty' \in BOOLEAN /\ overlapped' \in BOOLEAN
    /\ call' \in [Call -> CallType]
    /\ accepted' \subseteq Message /\ delivered' \subseteq Message /\ answers' \subseteq Message
    /\ paired' \subseteq Sender /\ revokedSenders' \subseteq Sender
    /\ events' \in 0..MaxEvents /\ closes' = closes
    /\ UNCHANGED <<idb, fallback, txn, puts, late, undone, taken, page>>
    /\ faults' \in 0..MaxFaults /\ unshown' \subseteq Message
    /\ answers \subseteq answers' /\ revokedSenders \subseteq revokedSenders'
    /\ Sound(state)' /\ Sound(ref)'
    /\ \/ dirty' \/ unshown' # {}
       \/ UNCHANGED <<dirty, state, unshown, faults>>
    /\ FallbackWorks => delivered' \subseteq taken
    /\ \A c \in Call : call'[c] = call[c] \/ Moves(c)

-----------------------------------------------------------------------------
(* Lemmas *)

\* The ended operation is well typed.
LEMMA IdleType == Idle \in CallType /\ Idle.pc = "idle" /\ DefaultState \in AppState
BY DEF Idle, CallType, Pc, DefaultState, AppState

\* A sound copy stays sound: the server takes nothing back.
LEMMA SoundStays ==
  ASSUME NEW x, NEW A, NEW B, NEW R, NEW S, A \subseteq B, R \subseteq S, SoundFor(x, A, R)
  PROVE  SoundFor(x, B, S)
BY DEF SoundFor

\* The empty state and the state after a first registration are sound.
LEMMA FirstStatesSound ==
  ASSUME NEW A, NEW R
  PROVE  SoundFor(DefaultState, A, R) /\ SoundFor(Registered, A, R)
BY AppAssumption DEF SoundFor, Registered, DefaultState, AppState

\* Merging messages with their senders keeps a copy sound.
LEMMA MergeSound ==
  ASSUME NEW A, NEW R, NEW x, SoundFor(x, A, R), NEW got \in SUBSET Message
  PROVE  SoundFor(MergePending(x, got), A, R) /\ got \subseteq MergePending(x, got).inbox
<1> DEFINE added == {SenderOf[m] : m \in got}
           merged == MergePending(x, got)
<1>1. added \subseteq Sender /\ \A m \in got : SenderOf[m] \in added
  BY AppAssumption
<1>2. x \in AppState /\ x.answered \subseteq A /\ x.revoked \subseteq R
      /\ \A m \in x.inbox : SenderOf[m] \in x.senders
  BY DEF SoundFor
<1>3. merged = [x EXCEPT !.inbox = @ \cup got, !.senders = @ \cup added]
  BY DEF MergePending
<1> HIDE DEF added, merged
<1>4. merged \in AppState /\ merged.inbox = x.inbox \cup got
      /\ merged.senders = x.senders \cup added
      /\ merged.answered = x.answered /\ merged.revoked = x.revoked
  BY <1>1, <1>2, <1>3 DEF AppState
<1>5. SoundFor(merged, A, R) /\ got \subseteq merged.inbox
  BY <1>1, <1>2, <1>4 DEF SoundFor
<1> QED  BY <1>5 DEF merged

\* A step that leaves the storage alone preserves the invariant.
LEMMA AsideInv == IInv /\ Aside => IInv'
<1> SUFFICES ASSUME IInv, Aside PROVE IInv'
  OBVIOUS
<1>0. UNCHANGED <<idb, fallback, txn, puts, late, undone, taken, page>>
  BY DEF Aside
<1>1. AppTypeOK /\ AppTypeOK'
  <2>1. AppTypeOK /\ StorageTypeOK'
    BY <1>0 DEF IInv, Aside, AppTypeOK, StorageTypeOK
  <2>2. state' \in AppState /\ ref' \in AppState
    BY DEF Aside, Sound, SoundFor
  <2> QED  BY <1>0, <2>1, <2>2 DEF Aside, AppTypeOK
<1>2. \A x : Sound(x) => SoundFor(x, answers', revokedSenders')
  BY SoundStays DEF Aside, Sound
<1>3. SoundCopies'
  <2>1. SoundCopies /\ Sound(state)' /\ Sound(ref)'
    BY DEF IInv, Aside
  <2> QED  BY <1>0, <1>2, <2>1 DEF SoundCopies, Sound
<1>4. \A c \in Call : CallInv(c)'
  <2> TAKE c \in Call
  <2>1. CASE call'[c] = call[c]
    <3>1. CallInv(c) /\ answers \subseteq answers' /\ revokedSenders \subseteq revokedSenders'
      BY DEF IInv, Aside
    <3> QED  BY <1>0, <1>2, <2>1, <3>1 DEF CallInv, Sound
  <2>2. CASE Moves(c)
    BY <2>2 DEF Moves
  <2> QED  BY <2>1, <2>2 DEF Aside
<1>5. PutsAwaited'
  <2>1. \A i \in 1..Len(puts) : puts[i].caller \in Call \cup {Nobody}
    <3>1. puts \in Seq(PutType)
      BY <1>1 DEF AppTypeOK, StorageTypeOK
    <3>2. \A i \in 1..Len(puts) : puts[i] \in PutType
      BY <3>1
    <3> QED  BY <3>2 DEF PutType
  <2>2. \A c \in Call : call[c].pc = "store" => call'[c] = call[c]
    BY DEF Aside, Moves
  <2> QED  BY <1>0, <2>1, <2>2 DEF IInv, PutsAwaited
<1>6. TakenBeforeReported'
  BY <1>0 DEF Aside, TakenBeforeReported
<1>7. LastWriteIsState'
  <2>1. \A c \in Call : Writing(c) => dirty' \/ unshown' # {} \/ Writing(c)'
    BY DEF Aside, Moves, Writing
  <2>2. CASE dirty' \/ unshown' # {}
    BY <2>2 DEF LastWriteIsState
  <2>3. CASE ~dirty' /\ unshown' = {}
    <3>1. UNCHANGED <<dirty, state, unshown, faults>>
      BY <2>3 DEF Aside
    <3> HIDE DEF Writing
    <3> QED  BY <1>0, <2>1, <2>3, <3>1 DEF IInv, LastWriteIsState, StateIsKept
  <2> QED  BY <2>2, <2>3
<1> QED  BY <1>1, <1>3, <1>4, <1>5, <1>6, <1>7 DEF IInv

\* What an operation may become, and what an operation becomes that ends.
LEMMA OneCall ==
  ASSUME IInv, NEW c \in Call, NEW q \in CallType,
         call' = [call EXCEPT ![c] = q],
         call[c].pc # "store", q.pc # "store",
         SoundFor(q.base, answers', revokedSenders'),
         q.pc = "answered" => q.got \subseteq answers',
         q.pc = "revoked" => q.about \subseteq revokedSenders',
         q.pc = "report" /\ FallbackWorks => q.left \subseteq taken',
         call[c].pc = "report" => dirty' \/ unshown' # {} \/ q.pc = "report"
  PROVE  /\ call' \in [Call -> CallType]
         /\ \A d \in Call : call'[d] = call[d] \/ Moves(d)
<1>1. call \in [Call -> CallType]
  BY DEF IInv, AppTypeOK
<1>2. call' \in [Call -> CallType] /\ call'[c] = q /\ \A d \in Call \ {c} : call'[d] = call[d]
  BY <1>1
<1>3. Moves(c)
  BY <1>2 DEF Moves, CallInv, Sound
<1> QED  BY <1>2, <1>3

\* A call that ends leaves what the others carry as it is.
LEMMA OneCallEnds ==
  ASSUME IInv, NEW c \in Call, Finish(c),
         call[c].pc # "store", call[c].pc = "report" => dirty' \/ unshown' # {}
  PROVE  /\ call' \in [Call -> CallType]
         /\ \A d \in Call : call'[d] = call[d] \/ Moves(d)
<1>1. Idle \in CallType /\ Idle.pc = "idle" /\ SoundFor(Idle.base, answers', revokedSenders')
  BY IdleType, FirstStatesSound DEF Idle
<1>2. call' = [call EXCEPT ![c] = Idle]
  BY DEF Finish
<1> HIDE DEF Idle
<1> QED  BY <1>1, <1>2, OneCall

\* What the invariant says of the page, the server and an operation.
LEMMA Facts ==
  ASSUME IInv
  PROVE  /\ SoundFor(state, answers, revokedSenders) /\ SoundFor(ref, answers, revokedSenders)
         /\ dirty \in BOOLEAN /\ overlapped \in BOOLEAN /\ call \in [Call -> CallType]
         /\ accepted \subseteq Message /\ delivered \subseteq Message /\ answers \subseteq Message
         /\ paired \subseteq Sender /\ revokedSenders \subseteq Sender
         /\ events \in 0..MaxEvents /\ unshown \subseteq Message /\ faults \in 0..MaxFaults
         /\ FallbackWorks => delivered \subseteq taken
         /\ \A c \in Call : /\ call[c] \in CallType
                             /\ SoundFor(call[c].base, answers, revokedSenders)
BY DEF IInv, AppTypeOK, StorageTypeOK, SoundCopies, Sound, CallInv, TakenBeforeReported

-----------------------------------------------------------------------------
(* Synchronisation *)

\* A wakeup starts a synchronisation from ref, a sound copy.
LEMMA WakeupStep ==
  ASSUME IInv, NEW c \in Call, Wakeup(c) PROVE Aside
<1> USE Facts
<1>1. events' \in 0..MaxEvents
  BY AppAssumption DEF Wakeup, Event
<1>2. CASE ~ref.device
  <2>1. Finish(c) /\ call[c].pc = "idle"
    BY <1>2 DEF Wakeup, Synchronise, Finish
  <2>2. /\ call' \in [Call -> CallType]
        /\ \A d \in Call : call'[d] = call[d] \/ Moves(d)
    BY <2>1, OneCallEnds
  <2> QED  BY <1>1, <2>2 DEF Aside, Wakeup, Event, Sound, serverVars, storageVars, history
<1>3. CASE ref.device
  <2> DEFINE q == [Idle EXCEPT !.pc = "fetch", !.base = ref]
  <2>1. q \in CallType /\ q.pc = "fetch" /\ q.base = ref
    <3>1. ref \in AppState
      BY DEF SoundFor
    <3> HIDE DEF Idle
    <3> QED  BY <3>1, IdleType DEF CallType, Pc
  <2>2. call' = [call EXCEPT ![c] = q] /\ call[c].pc = "idle"
    BY <1>3 DEF Wakeup, Synchronise
  <2> HIDE DEF q
  <2>3. UNCHANGED <<answers, revokedSenders, taken, dirty>>
    BY DEF Wakeup, Event, serverVars, storageVars, history
  <2>4. /\ call' \in [Call -> CallType]
        /\ \A d \in Call : call'[d] = call[d] \/ Moves(d)
    BY <2>1, <2>2, <2>3, OneCall
  <2> QED  BY <1>1, <2>4 DEF Aside, Wakeup, Event, Sound, serverVars, storageVars, history
<1> QED  BY <1>2, <1>3

\* The list of pending messages changes one call only.
LEMMA FetchPendingStep ==
  ASSUME IInv, NEW c \in Call, FetchPending(c) PROVE Aside
<1> USE Facts
<1> DEFINE q == [call[c] EXCEPT !.pc = "merge", !.got = accepted \ delivered]
<1>1. q \in CallType /\ q.pc = "merge" /\ q.base = call[c].base
  BY DEF CallType, Pc
<1>2. call' = [call EXCEPT ![c] = q] /\ call[c].pc = "fetch"
  BY DEF FetchPending
<1> HIDE DEF q
<1>3. UNCHANGED <<answers, revokedSenders, taken>>
  BY DEF FetchPending, serverVars, storageVars, history
<1>4. /\ call' \in [Call -> CallType]
      /\ \A d \in Call : call'[d] = call[d] \/ Moves(d)
  BY <1>1, <1>2, <1>3, OneCall
<1> QED  BY <1>4 DEF Aside, FetchPending, Sound, serverVars, storageVars, history, pageVars

\* A failed list ends its call and touches no copy of the state.
LEMMA FetchFailsStep ==
  ASSUME IInv, NEW c \in Call, FetchFails(c) PROVE Aside
<1> USE Facts
<1>1. Finish(c) /\ call[c].pc \in {"fetch", "merge"}
  BY DEF FetchFails
<1>2. /\ call' \in [Call -> CallType]
      /\ \A d \in Call : call'[d] = call[d] \/ Moves(d)
  BY <1>1, OneCallEnds
<1> QED  BY <1>2 DEF Aside, FetchFails, Sound, serverVars, storageVars, history, pageVars

\* A synchronisation that has nothing to store ends.
LEMMA StoreNothingStep ==
  ASSUME IInv, NEW c \in Call, Store(c), call[c].got = {} PROVE Aside
<1> USE Facts
<1>1. Finish(c) /\ call[c].pc = "merge"
  BY DEF Store
<1>2. /\ call' \in [Call -> CallType]
      /\ \A d \in Call : call'[d] = call[d] \/ Moves(d)
  BY <1>1, OneCallEnds
<1> QED  BY <1>2 DEF Aside, Store, Sound, serverVars, storageVars, history, pageVars

\* A report adds a message that its own call has had stored.
LEMMA ReportStep ==
  ASSUME IInv, NEW c \in Call, NEW m \in Message, Report(c, m) PROVE Aside
<1> USE Facts
<1> DEFINE q == [call[c] EXCEPT !.left = @ \ {m}]
<1>1. q \in CallType /\ q.pc = call[c].pc /\ q.base = call[c].base
      /\ q.left = call[c].left \ {m}
  BY DEF CallType
<1>2. call' = [call EXCEPT ![c] = q] /\ call[c].pc = "report" /\ m \in call[c].left
  BY DEF Report
<1> HIDE DEF q
<1>3. UNCHANGED <<answers, revokedSenders, taken>>
  BY DEF Report, history
<1>4. FallbackWorks => call[c].left \subseteq taken
  BY <1>2 DEF IInv, CallInv
<1>5. /\ call' \in [Call -> CallType]
      /\ \A d \in Call : call'[d] = call[d] \/ Moves(d)
  BY <1>1, <1>2, <1>3, <1>4, OneCall
<1>6. delivered' \subseteq Message /\ (FallbackWorks => delivered' \subseteq taken)
  BY <1>2, <1>4 DEF Report
<1> QED  BY <1>5, <1>6 DEF Aside, Report, Sound, pageVars, storageVars, history

\* The result of a synchronisation is a sound copy, and waits to be rendered.
LEMMA EndSyncStep ==
  ASSUME IInv, NEW c \in Call, EndSync(c) PROVE Aside
<1> USE Facts
<1>1. Finish(c) /\ call[c].pc = "report" /\ dirty'
  BY DEF EndSync
<1>2. /\ call' \in [Call -> CallType]
      /\ \A d \in Call : call'[d] = call[d] \/ Moves(d)
  BY <1>1, OneCallEnds
<1>3. call[c].got \in SUBSET Message
  BY DEF CallType
<1>4. SoundFor(Merged(c), answers, revokedSenders)
  BY <1>3, MergeSound DEF Merged
<1>5. SoundFor(state', answers', revokedSenders') /\ SoundFor(ref', answers', revokedSenders')
  BY <1>4 DEF EndSync, serverVars, storageVars, history
<1> QED  BY <1>1, <1>2, <1>5 DEF Aside, EndSync, Sound, serverVars, storageVars, history

\* A synchronisation that ends without its result leaves something unshown.
LEMMA NotificationFailsStep ==
  ASSUME IInv, NEW c \in Call, NotificationFails(c) PROVE Aside
<1> USE Facts
<1>1. /\ Finish(c) /\ call[c].pc = "report" /\ unshown' # {}
      /\ UNCHANGED <<idb, fallback, txn, puts, late, undone, page, state, dirty, ref, taken>>
      /\ UNCHANGED <<accepted, delivered, answers, paired, revokedSenders, overlapped>>
      /\ UNCHANGED <<events, closes>>
  BY DEF NotificationFails, pageVars, serverVars
<1>2. /\ call' \in [Call -> CallType]
      /\ \A d \in Call : call'[d] = call[d] \/ Moves(d)
  BY <1>1, OneCallEnds
<1>3. unshown' \subseteq Message
  BY DEF NotificationFails, CallType
<1>4. faults' \in 0..MaxFaults
  BY AppAssumption DEF NotificationFails
<1> QED  BY <1>1, <1>2, <1>3, <1>4 DEF Aside, Sound

-----------------------------------------------------------------------------
(* The server and the user *)

\* What the server accepts is no concern of the copies and reports.
LEMMA AcceptStep ==
  ASSUME IInv, NEW m \in Message, Accept(m) PROVE Aside
BY Facts DEF Aside, Accept, Sound, pageVars, storageVars, history

\* A sender paired elsewhere reaches the page with its first message only.
LEMMA SenderPairedStep ==
  ASSUME IInv, NEW s \in Sender, SenderPaired(s) PROVE Aside
BY Facts DEF Aside, SenderPaired, Sound, pageVars, storageVars, history

\* Saving a message changes neither the inbox nor what is answered.
LEMMA ToggleSaveStep ==
  ASSUME IInv, NEW m \in Message, ToggleSave(m) PROVE Aside
<1> USE Facts
<1>1. SoundFor(state', answers, revokedSenders)
  BY DEF ToggleSave, Edit, SoundFor, AppState
<1>2. dirty' /\ events' \in 0..MaxEvents /\ UNCHANGED <<ref, answers, revokedSenders, taken>>
  BY AppAssumption DEF ToggleSave, Edit, Event, serverVars, storageVars, history
<1> QED  BY <1>1, <1>2 DEF Aside, ToggleSave, Event, Sound, serverVars, storageVars, history

\* Deleting a message leaves its record, and its sender, in the state.
LEMMA DeleteMessageStep ==
  ASSUME IInv, NEW m \in Message, DeleteMessage(m) PROVE Aside
<1> USE Facts
<1>1. SoundFor(state', answers, revokedSenders)
  BY DEF DeleteMessage, Edit, SoundFor, AppState
<1>2. dirty' /\ events' \in 0..MaxEvents /\ UNCHANGED <<ref, answers, revokedSenders, taken>>
  BY AppAssumption DEF DeleteMessage, Edit, Event, serverVars, storageVars, history
<1> QED  BY <1>1, <1>2 DEF Aside, DeleteMessage, Event, Sound, serverVars, storageVars, history

\* An answer in flight is in no copy of the state.
LEMMA SubmitAnswerStep ==
  ASSUME IInv, NEW c \in Call, NEW m \in Message, SubmitAnswer(c, m) PROVE Aside
<1> USE Facts
<1> DEFINE q == [Idle EXCEPT !.pc = "answer", !.got = {m}]
<1>1. q \in CallType /\ q.pc = "answer" /\ SoundFor(q.base, answers, revokedSenders)
  <2>1. SoundFor(Idle.base, answers, revokedSenders)
    BY FirstStatesSound DEF Idle
  <2> HIDE DEF Idle
  <2> QED  BY <2>1, IdleType DEF CallType, Pc
<1>2. call' = [call EXCEPT ![c] = q] /\ call[c].pc = "idle"
  BY DEF SubmitAnswer
<1> HIDE DEF q
<1>3. UNCHANGED <<answers, revokedSenders, taken, state, dirty, ref>> /\ events' \in 0..MaxEvents
  BY AppAssumption DEF SubmitAnswer, Event, serverVars, storageVars, history
<1>4. /\ call' \in [Call -> CallType]
      /\ \A d \in Call : call'[d] = call[d] \/ Moves(d)
  BY <1>1, <1>2, <1>3, OneCall
<1> QED  BY <1>3, <1>4 DEF Aside, SubmitAnswer, Event, Sound, serverVars, storageVars, history

\* The server's answers only grow.
LEMMA AnswerStoredStep ==
  ASSUME IInv, NEW c \in Call, AnswerStored(c) PROVE Aside
<1> USE Facts
<1> DEFINE q == [call[c] EXCEPT !.pc = "answered"]
<1>1. q \in CallType /\ q.pc = "answered" /\ q.base = call[c].base /\ q.got = call[c].got
      /\ q.got \subseteq Message
  BY DEF CallType, Pc
<1>2. call' = [call EXCEPT ![c] = q] /\ call[c].pc = "answer"
  BY DEF AnswerStored
<1>3. answers' = answers \cup q.got /\ UNCHANGED <<revokedSenders, taken>>
  BY <1>1 DEF AnswerStored, history
<1> HIDE DEF q
<1>4. \A x : Sound(x) => SoundFor(x, answers', revokedSenders')
  BY <1>3, SoundStays DEF Sound
<1>5. /\ call' \in [Call -> CallType]
      /\ \A d \in Call : call'[d] = call[d] \/ Moves(d)
  BY <1>1, <1>2, <1>3, <1>4, OneCall DEF Sound
<1>6. SoundFor(state', answers', revokedSenders') /\ SoundFor(ref', answers', revokedSenders')
  BY <1>4 DEF AnswerStored, Sound, pageVars, storageVars, history
<1> QED  BY <1>1, <1>3, <1>5, <1>6 DEF Aside, AnswerStored, Sound, pageVars, storageVars, history

\* The page shows an answer the server has stored.
LEMMA ShowAnswerStep ==
  ASSUME IInv, NEW c \in Call, ShowAnswer(c) PROVE Aside
<1> USE Facts
<1>1. Finish(c) /\ call[c].pc = "answered" /\ dirty' /\ UNCHANGED <<ref, answers, revokedSenders>>
  BY DEF ShowAnswer, Edit, serverVars, storageVars, history
<1>2. call[c].got \subseteq answers /\ call[c].got \subseteq Message
  BY <1>1 DEF IInv, CallInv, CallType
<1>3. /\ call' \in [Call -> CallType]
      /\ \A d \in Call : call'[d] = call[d] \/ Moves(d)
  BY <1>1, OneCallEnds
<1>4. SoundFor(state', answers, revokedSenders)
  BY <1>2 DEF ShowAnswer, Edit, SoundFor, AppState
<1> QED  BY <1>1, <1>3, <1>4 DEF Aside, ShowAnswer, Sound, serverVars, storageVars, history

\* A revocation in flight is in no copy of the state.
LEMMA RevokeSenderStep ==
  ASSUME IInv, NEW c \in Call, NEW s \in Sender, RevokeSender(c, s) PROVE Aside
<1> USE Facts
<1> DEFINE q == [Idle EXCEPT !.pc = "revoke", !.about = {s}]
<1>1. q \in CallType /\ q.pc = "revoke" /\ SoundFor(q.base, answers, revokedSenders)
  <2>1. SoundFor(Idle.base, answers, revokedSenders)
    BY FirstStatesSound DEF Idle
  <2> HIDE DEF Idle
  <2> QED  BY <2>1, IdleType DEF CallType, Pc
<1>2. call' = [call EXCEPT ![c] = q] /\ call[c].pc = "idle"
  BY DEF RevokeSender
<1> HIDE DEF q
<1>3. UNCHANGED <<answers, revokedSenders, taken, state, dirty, ref>> /\ events' \in 0..MaxEvents
  BY AppAssumption DEF RevokeSender, Event, serverVars, storageVars, history
<1>4. /\ call' \in [Call -> CallType]
      /\ \A d \in Call : call'[d] = call[d] \/ Moves(d)
  BY <1>1, <1>2, <1>3, OneCall
<1> QED  BY <1>3, <1>4 DEF Aside, RevokeSender, Event, Sound, serverVars, storageVars, history

\* The server's revocations only grow.
LEMMA SenderRevokedStep ==
  ASSUME IInv, NEW c \in Call, SenderRevoked(c) PROVE Aside
<1> USE Facts
<1> DEFINE q == [call[c] EXCEPT !.pc = "revoked"]
<1>1. q \in CallType /\ q.pc = "revoked" /\ q.base = call[c].base /\ q.about = call[c].about
      /\ q.about \subseteq Sender
  BY DEF CallType, Pc
<1>2. call' = [call EXCEPT ![c] = q] /\ call[c].pc = "revoke"
  BY DEF SenderRevoked
<1>3. revokedSenders' = revokedSenders \cup q.about /\ UNCHANGED <<answers, taken>>
  BY <1>1 DEF SenderRevoked, history
<1> HIDE DEF q
<1>4. \A x : Sound(x) => SoundFor(x, answers', revokedSenders')
  BY <1>3, SoundStays DEF Sound
<1>5. /\ call' \in [Call -> CallType]
      /\ \A d \in Call : call'[d] = call[d] \/ Moves(d)
  BY <1>1, <1>2, <1>3, <1>4, OneCall DEF Sound
<1>6. SoundFor(state', answers', revokedSenders') /\ SoundFor(ref', answers', revokedSenders')
  BY <1>4 DEF SenderRevoked, Sound, pageVars, storageVars, history
<1> QED  BY <1>1, <1>3, <1>5, <1>6 DEF Aside, SenderRevoked, Sound, pageVars, storageVars, history

\* The page shows a revocation the server has stored.
LEMMA ShowRevokedStep ==
  ASSUME IInv, NEW c \in Call, ShowRevoked(c) PROVE Aside
<1> USE Facts
<1>1. Finish(c) /\ call[c].pc = "revoked" /\ dirty' /\ UNCHANGED <<ref, answers, revokedSenders>>
  BY DEF ShowRevoked, Edit, serverVars, storageVars, history
<1>2. call[c].about \subseteq revokedSenders /\ call[c].about \subseteq Sender
  BY <1>1 DEF IInv, CallInv, CallType
<1>3. /\ call' \in [Call -> CallType]
      /\ \A d \in Call : call'[d] = call[d] \/ Moves(d)
  BY <1>1, OneCallEnds
<1>4. SoundFor(state', answers, revokedSenders)
  BY <1>2 DEF ShowRevoked, Edit, SoundFor, AppState
<1> QED  BY <1>1, <1>3, <1>4 DEF Aside, ShowRevoked, Sound, serverVars, storageVars, history

\* A failed request changes no copy of the state.
LEMMA RequestFailsStep ==
  ASSUME IInv, NEW c \in Call, RequestFails(c) PROVE Aside
<1> USE Facts
<1>1. Finish(c) /\ call[c].pc \in {"answer", "answered", "revoke", "revoked"}
  BY DEF RequestFails
<1>2. /\ call' \in [Call -> CallType]
      /\ \A d \in Call : call'[d] = call[d] \/ Moves(d)
  BY <1>1, OneCallEnds
<1> QED  BY <1>2 DEF Aside, RequestFails, Sound, serverVars, storageVars, history, pageVars

-----------------------------------------------------------------------------
(* The life of a page *)

\* The invariant holds at the start.
LEMMA InitInv == Init => IInv
<1> SUFFICES ASSUME Init PROVE IInv
  OBVIOUS
<1>1. /\ \A A, R : SoundFor(DefaultState, A, R) /\ SoundFor(Registered, A, R)
      /\ Idle \in CallType /\ Idle.pc = "idle" /\ Idle.base = DefaultState
  BY FirstStatesSound, IdleType DEF Idle
<1>2. DefaultState \in AppState /\ Registered \in AppState
  BY <1>1 DEF SoundFor
<1> HIDE DEF Idle
<1>3. StorageTypeOK
  <2>1. idb \in AppState /\ fallback = NoContent /\ txn = NoContent
    BY <1>2 DEF Init, StorageInit
  <2>2. puts = <<>> /\ late = <<>> /\ faults \in 0..MaxFaults
    BY AppAssumption DEF Init, StorageInit
  <2>3. puts \in Seq(PutType) /\ late \in Seq(AppState)
    BY <2>2
  <2>4. undone \in BOOLEAN
    BY DEF Init, StorageInit
  <2> QED  BY <2>1, <2>2, <2>3, <2>4 DEF StorageTypeOK
<1>4. AppTypeOK
  <2>1. call \in [Call -> CallType]
    BY <1>1 DEF Init
  <2>2. state \in AppState /\ ref \in AppState
    BY <1>2 DEF Init
  <2>3. events \in 0..MaxEvents /\ closes \in 0..MaxCloses
    BY AppAssumption DEF Init
  <2>4. paired \subseteq Sender /\ accepted \subseteq Message /\ taken \subseteq Message
        /\ unshown \subseteq Message
    BY AppAssumption DEF Init
  <2>5. delivered \subseteq Message /\ answers \subseteq Message /\ revokedSenders \subseteq Sender
    BY DEF Init
  <2>6. page \in {"closed", "loaded", "open"} /\ dirty \in BOOLEAN /\ overlapped \in BOOLEAN
    BY DEF Init
  <2> QED  BY <1>3, <2>1, <2>2, <2>3, <2>4, <2>5, <2>6 DEF AppTypeOK
<1>5. SoundCopies
  BY <1>1 DEF Init, StorageInit, SoundCopies, Sound
<1>6. \A c \in Call : CallInv(c)
  BY <1>1 DEF Init, CallInv, Sound
<1>7. PutsAwaited
  BY DEF Init, StorageInit, PutsAwaited
<1>8. TakenBeforeReported /\ LastWriteIsState
  BY DEF Init, TakenBeforeReported, LastWriteIsState
<1> QED  BY <1>4, <1>5, <1>6, <1>7, <1>8 DEF IInv

\* A page opens with a stored copy, or the default state, and must render.
LEMMA OpenPageStep ==
  ASSUME IInv, OpenPage PROVE IInv'
<1>1. /\ UNCHANGED <<idb, fallback, txn, puts, late, undone, ref, call, taken, unshown>>
      /\ UNCHANGED <<accepted, delivered, answers, paired, revokedSenders, overlapped, events, closes>>
      /\ page' = "loaded" /\ dirty' = TRUE
  BY DEF OpenPage, ReadStoredState, serverVars, history
<1>2. faults' \in 0..MaxFaults
  BY AppAssumption DEF OpenPage, ReadStoredState, IInv, AppTypeOK, StorageTypeOK
<1>3. Sound(state')
  <2>1. Sound(DefaultState)
    BY FirstStatesSound DEF Sound
  <2>2. /\ idb # NoContent => Sound(idb)
        /\ fallback # NoContent => Sound(fallback)
    BY DEF IInv, SoundCopies
  <2> HIDE DEF DefaultState
  <2> QED  BY <2>1, <2>2 DEF OpenPage
<1>4. AppTypeOK'
  <2>1. StorageTypeOK'
    BY <1>1, <1>2 DEF IInv, AppTypeOK, StorageTypeOK
  <2>2. state' \in AppState
    BY <1>3 DEF Sound, SoundFor
  <2> QED  BY <1>1, <2>1, <2>2 DEF IInv, AppTypeOK
<1>5. SoundCopies'
  BY <1>1, <1>3 DEF IInv, SoundCopies, Sound
<1>6. \A c \in Call : CallInv(c)'
  BY <1>1 DEF IInv, CallInv, Sound
<1>7. PutsAwaited'
  BY <1>1 DEF IInv, PutsAwaited
<1>8. TakenBeforeReported' /\ LastWriteIsState'
  BY <1>1 DEF IInv, TakenBeforeReported, LastWriteIsState
<1> QED  BY <1>4, <1>5, <1>6, <1>7, <1>8 DEF IInv

\* A closed page leaves only the two stored copies.
LEMMA CloseStep ==
  ASSUME IInv, Close PROVE IInv'
<1>1. /\ UNCHANGED <<fallback, faults, taken, events>>
      /\ UNCHANGED <<accepted, delivered, answers, paired, revokedSenders>>
      /\ page' = "closed" /\ dirty' = FALSE /\ state' = DefaultState /\ ref' = DefaultState
      /\ puts' = <<>> /\ late' = <<>> /\ txn' = NoContent /\ undone' = FALSE
      /\ idb' = idb \/ (txn # NoContent /\ idb' = txn)
      /\ call' = [c \in Call |-> Idle] /\ overlapped' = FALSE /\ unshown' = {}
  BY DEF Close, ClosePage, serverVars
<1>2. closes' \in 0..MaxCloses
  BY AppAssumption DEF Close, IInv, AppTypeOK
<1>3. /\ \A A, R : SoundFor(DefaultState, A, R)
      /\ Idle \in CallType /\ Idle.pc = "idle" /\ Idle.base = DefaultState
  BY FirstStatesSound, IdleType DEF Idle
<1>4. DefaultState \in AppState
  BY <1>3 DEF SoundFor
<1> HIDE DEF Idle, DefaultState
<1>5. StorageTypeOK'
  <2>1. StorageTypeOK
    BY DEF IInv, AppTypeOK
  <2>2. {idb', fallback', txn'} \subseteq AppState \cup {NoContent}
    BY <1>1, <2>1 DEF StorageTypeOK
  <2>3. puts' \in Seq(PutType) /\ late' \in Seq(AppState)
    BY <1>1
  <2>5. undone' \in BOOLEAN
    BY <1>1
  <2>4. faults' \in 0..MaxFaults
    BY <1>1, <2>1 DEF StorageTypeOK
  <2> QED  BY <2>2, <2>3, <2>4, <2>5 DEF StorageTypeOK
<1>6. AppTypeOK'
  BY <1>1, <1>2, <1>3, <1>4, <1>5 DEF IInv, AppTypeOK
<1>7. SoundCopies'
  BY <1>1, <1>3 DEF IInv, SoundCopies, Sound
<1>8. \A c \in Call : CallInv(c)'
  BY <1>1, <1>3 DEF CallInv, Sound
<1>9. PutsAwaited'
  BY <1>1 DEF PutsAwaited
<1>10. TakenBeforeReported' /\ LastWriteIsState'
  BY <1>1 DEF IInv, TakenBeforeReported, LastWriteIsState
<1> QED  BY <1>6, <1>7, <1>8, <1>9, <1>10 DEF IInv

\* What a new write does to the sequence of puts.
LEMMA NewPut ==
  ASSUME StorageTypeOK, NEW x \in AppState, NEW c \in Call \cup {Nobody}, WriteStoredState(x, c)
  PROVE  /\ StorageTypeOK'
         /\ Len(puts') = Len(puts) + 1 /\ puts' # <<>>
         /\ puts'[Len(puts')] = [content |-> x, caller |-> c]
         /\ \A i \in 1..Len(puts) : puts'[i] = puts[i]
         /\ UNCHANGED <<idb, fallback, txn, late, faults>>
<1>1. [content |-> x, caller |-> c] \in PutType
  BY DEF PutType
<1>2. puts \in Seq(PutType)
  BY DEF StorageTypeOK
<1>3. puts' = Append(puts, [content |-> x, caller |-> c])
      /\ UNCHANGED <<idb, fallback, txn, late, faults>>
  BY DEF WriteStoredState
<1>4. puts' \in Seq(PutType) /\ Len(puts') = Len(puts) + 1
      /\ puts'[Len(puts')] = [content |-> x, caller |-> c]
      /\ \A i \in 1..Len(puts) : puts'[i] = puts[i]
  BY <1>1, <1>2, <1>3
<1>5. puts' # <<>> /\ undone' \in BOOLEAN
  <2>1. Len(puts') # 0
    BY <1>2, <1>4
  <2> QED  BY <2>1 DEF WriteStoredState
<1>6. StorageTypeOK'
  BY <1>2, <1>3, <1>4, <1>5 DEF StorageTypeOK
<1> QED  BY <1>3, <1>4, <1>5, <1>6

\* A render writes the state, so the last write is the state again.
LEMMA RenderStep ==
  ASSUME IInv, Render PROVE IInv'
<1> USE Facts
<1>1. /\ page' = "open" /\ dirty' = FALSE /\ ref' = state /\ state' = state
      /\ WriteStoredState(state, Nobody)
      /\ UNCHANGED <<accepted, delivered, answers, paired, revokedSenders>>
      /\ UNCHANGED <<taken, unshown, overlapped, events, closes>>
  BY DEF Render, serverVars, history
<1>2. state \in AppState
  BY DEF SoundFor
<1>3. /\ StorageTypeOK'
      /\ Len(puts') = Len(puts) + 1 /\ puts' # <<>>
      /\ puts'[Len(puts')] = [content |-> state, caller |-> Nobody]
      /\ \A i \in 1..Len(puts) : puts'[i] = puts[i]
      /\ UNCHANGED <<idb, fallback, txn, late, faults>>
      /\ Len(puts) \in Nat
  <2>1. StorageTypeOK
    BY DEF IInv, AppTypeOK
  <2> QED  BY <1>1, <1>2, <2>1, NewPut DEF StorageTypeOK
<1>4. /\ call' \in [Call -> CallType]
      /\ \A d \in Call : call'[d] = call[d] \/ Moves(d)
  <2>1. CASE page = "loaded" /\ ~state.device
    <3>1. PICK c \in Call : call[c].pc = "idle" /\ Synchronise(c, state)
      BY <2>1 DEF Render
    <3>2. Finish(c)
      BY <2>1, <3>1 DEF Synchronise, Finish
    <3> QED  BY <3>1, <3>2, OneCallEnds
  <2>2. CASE page = "loaded" /\ state.device
    <3>1. PICK c \in Call : call[c].pc = "idle" /\ Synchronise(c, state)
      BY <2>2 DEF Render
    <3> DEFINE q == [Idle EXCEPT !.pc = "fetch", !.base = state]
    <3>2. q \in CallType /\ q.pc = "fetch" /\ q.base = state
      <4> HIDE DEF Idle
      <4> QED  BY <1>2, IdleType DEF CallType, Pc
    <3>3. call' = [call EXCEPT ![c] = q]
      BY <2>2, <3>1 DEF Synchronise
    <3> HIDE DEF q
    <3> QED  BY <1>1, <3>1, <3>2, <3>3, OneCall
  <2>3. CASE page # "loaded"
    BY <2>3 DEF Render
  <2> QED  BY <2>1, <2>2, <2>3
<1>5. AppTypeOK'
  BY <1>1, <1>2, <1>3, <1>4 DEF IInv, AppTypeOK
<1>6. SoundCopies'
  <2>1. SoundCopies
    BY DEF IInv
  <2>2. \A i \in 1..Len(puts') : Sound(puts'[i].content)
    BY <1>3, <2>1 DEF SoundCopies, Sound
  <2> QED  BY <1>1, <1>3, <2>1, <2>2 DEF SoundCopies, Sound
<1>7. \A c \in Call : CallInv(c)'
  <2> TAKE c \in Call
  <2>1. CASE call'[c] = call[c]
    BY <1>1, <2>1 DEF IInv, CallInv, Sound
  <2>2. CASE Moves(c)
    BY <2>2 DEF Moves
  <2> QED  BY <1>4, <2>1, <2>2
<1>8. PutsAwaited'
  <2>1. \A c \in Call : call[c].pc = "store" => call'[c] = call[c]
    BY <1>4 DEF Moves
  <2>2. \A i \in 1..Len(puts) : puts[i].caller \in Call \cup {Nobody}
    <3>1. puts \in Seq(PutType)
      BY DEF IInv, AppTypeOK, StorageTypeOK
    <3>2. \A i \in 1..Len(puts) : puts[i] \in PutType
      BY <3>1
    <3> QED  BY <3>2 DEF PutType
  <2>3. PutsAwaited
    BY DEF IInv
  <2>5. ASSUME NEW i \in 1..Len(puts')
        PROVE  /\ puts'[i].caller # Nobody =>
                      /\ call'[puts'[i].caller].pc = "store"
                      /\ call'[puts'[i].caller].got \subseteq puts'[i].content.inbox
                      /\ \A j \in 1..Len(puts') : puts'[j].caller = puts'[i].caller => j = i
    <3>1. CASE i = Len(puts')
      BY <1>3, <3>1
    <3>2. CASE i # Len(puts')
      <4>1. i \in 1..Len(puts) /\ puts'[i] = puts[i]
        BY <1>3, <3>2
      <4>3. ASSUME puts[i].caller # Nobody
            PROVE  /\ call'[puts[i].caller].pc = "store"
                   /\ call'[puts[i].caller].got \subseteq puts[i].content.inbox
        BY <2>1, <2>2, <2>3, <4>1, <4>3 DEF PutsAwaited
      <4>4. ASSUME puts[i].caller # Nobody, NEW j \in 1..Len(puts'), puts'[j].caller = puts[i].caller
            PROVE  j = i
        <5>1. j # Len(puts')
          BY <1>3, <4>4
        <5>2. j \in 1..Len(puts) /\ puts'[j] = puts[j]
          BY <1>3, <5>1
        <5> QED  BY <2>3, <4>1, <4>4, <5>2 DEF PutsAwaited
      <4> QED  BY <4>1, <4>3, <4>4
    <3> QED  BY <3>1, <3>2
  <2> QED  BY <2>5 DEF PutsAwaited
<1>9. TakenBeforeReported' /\ LastWriteIsState'
  BY <1>1, <1>3 DEF IInv, TakenBeforeReported, LastWriteIsState
<1> QED  BY <1>5, <1>6, <1>7, <1>8, <1>9 DEF IInv

\* A synchronisation with something to store hands the merged state over.
LEMMA StoreMergedStep ==
  ASSUME IInv, NEW c \in Call, Store(c), call[c].got # {} PROVE IInv'
<1> USE Facts
<1> DEFINE merged == MergePending(call[c].base, call[c].got)
           q == [call[c] EXCEPT !.pc = "store"]
<1>1. /\ call[c].pc = "merge" /\ WriteStoredState(merged, c) /\ call' = [call EXCEPT ![c] = q]
      /\ UNCHANGED <<page, state, dirty, ref, accepted, delivered, answers, paired, revokedSenders>>
      /\ UNCHANGED <<taken, unshown, overlapped, events, closes>>
  BY DEF Store, Merged, pageVars, serverVars, history
<1>2. SoundFor(merged, answers, revokedSenders) /\ call[c].got \subseteq merged.inbox
  <2>1. call[c].got \in SUBSET Message
    BY DEF CallType
  <2> QED  BY <2>1, MergeSound
<1>3. q \in CallType /\ q.pc = "store" /\ q.base = call[c].base /\ q.got = call[c].got
  BY DEF CallType, Pc
<1>4. c # Nobody /\ merged \in AppState
  BY <1>2, AppAssumption DEF SoundFor
<1> HIDE DEF merged, q
<1>5. /\ StorageTypeOK'
      /\ Len(puts') = Len(puts) + 1
      /\ puts'[Len(puts')] = [content |-> merged, caller |-> c]
      /\ \A i \in 1..Len(puts) : puts'[i] = puts[i]
      /\ UNCHANGED <<idb, fallback, txn, late, faults>>
      /\ Len(puts) \in Nat
  <2>1. StorageTypeOK
    BY DEF IInv, AppTypeOK
  <2> QED  BY <1>1, <1>4, <2>1, NewPut DEF StorageTypeOK
<1>6. /\ call' \in [Call -> CallType] /\ call'[c] = q
      /\ \A d \in Call \ {c} : call'[d] = call[d]
  BY <1>1, <1>3
<1>7. AppTypeOK'
  BY <1>1, <1>5, <1>6 DEF IInv, AppTypeOK
<1>8. SoundCopies'
  <2>1. SoundCopies
    BY DEF IInv
  <2>2. \A i \in 1..Len(puts') : Sound(puts'[i].content)
    BY <1>2, <1>5, <2>1 DEF SoundCopies, Sound
  <2> QED  BY <1>1, <1>5, <2>1, <2>2 DEF SoundCopies, Sound
<1>9. \A d \in Call : CallInv(d)'
  <2> TAKE d \in Call
  <2>1. CASE d = c
    BY <1>1, <1>3, <1>6, <2>1 DEF CallInv, Sound
  <2>2. CASE d # c
    BY <1>1, <1>6, <2>2 DEF IInv, CallInv, Sound
  <2> QED  BY <2>1, <2>2
<1>10. PutsAwaited'
  <2>1. PutsAwaited
    BY DEF IInv
  <2>2. \A i \in 1..Len(puts) : puts[i].caller \in Call \cup {Nobody} /\ puts[i].caller # c
    <3>1. puts \in Seq(PutType)
      BY DEF IInv, AppTypeOK, StorageTypeOK
    <3>2. \A i \in 1..Len(puts) : puts[i] \in PutType
      BY <3>1
    <3> QED  BY <1>1, <1>4, <2>1, <3>2 DEF PutType, PutsAwaited
  <2>4. ASSUME NEW i \in 1..Len(puts')
        PROVE  /\ puts'[i].caller # Nobody =>
                      /\ call'[puts'[i].caller].pc = "store"
                      /\ call'[puts'[i].caller].got \subseteq puts'[i].content.inbox
                      /\ \A j \in 1..Len(puts') : puts'[j].caller = puts'[i].caller => j = i
    <3>1. \A j \in 1..Len(puts') : j # Len(puts') => j \in 1..Len(puts) /\ puts'[j] = puts[j]
      BY <1>5
    <3>2. CASE i = Len(puts')
      <4>1. \A j \in 1..Len(puts') : puts'[j].caller = c => j = i
        BY <2>2, <3>1, <3>2
      <4> QED  BY <1>2, <1>3, <1>5, <1>6, <3>2, <4>1
    <3>3. CASE i # Len(puts')
      <4>1. i \in 1..Len(puts) /\ puts'[i] = puts[i]
        BY <3>1, <3>3
      <4>3. ASSUME puts[i].caller # Nobody
            PROVE  /\ call'[puts[i].caller].pc = "store"
                   /\ call'[puts[i].caller].got \subseteq puts[i].content.inbox
        BY <1>6, <2>1, <2>2, <4>1, <4>3 DEF PutsAwaited
      <4>4. ASSUME puts[i].caller # Nobody, NEW j \in 1..Len(puts'), puts'[j].caller = puts[i].caller
            PROVE  j = i
        <5>1. j # Len(puts')
          BY <1>5, <2>2, <4>1, <4>4
        <5>2. j \in 1..Len(puts) /\ puts'[j] = puts[j]
          BY <3>1, <5>1
        <5> QED  BY <2>1, <4>1, <4>4, <5>2 DEF PutsAwaited
      <4> QED  BY <4>1, <4>3, <4>4
    <3> QED  BY <3>2, <3>3
  <2> QED  BY <2>4 DEF PutsAwaited
<1>11. TakenBeforeReported'
  BY <1>1 DEF IInv, TakenBeforeReported
<1>12. LastWriteIsState'
  BY <1>3, <1>6 DEF LastWriteIsState, Writing
<1> QED  BY <1>7, <1>8, <1>9, <1>10, <1>11, <1>12 DEF IInv

-----------------------------------------------------------------------------
(* The storage's own steps *)

\* What a step of the storage leaves alone, and what it remembers.
Frame ==
    /\ UNCHANGED <<page, state, dirty, ref, accepted, delivered, answers, paired, revokedSenders>>
    /\ UNCHANGED <<unshown, overlapped, events, closes>>
    /\ taken' = taken \cup Inbox(idb') \cup Inbox(fallback') \cup Inbox(txn')

\* The parts of the invariant that only look at what the storage holds.
LEMMA FrameInv ==
  ASSUME IInv, Frame, StorageTypeOK', call' \in [Call -> CallType],
         idb' # NoContent => Sound(idb'), fallback' # NoContent => Sound(fallback'),
         txn' # NoContent => Sound(txn'),
         \A i \in 1..Len(puts') : Sound(puts'[i].content),
         \A i \in 1..Len(late') : Sound(late'[i])
  PROVE  /\ AppTypeOK' /\ SoundCopies' /\ TakenBeforeReported'
         /\ taken \subseteq taken'
<1>1. taken' \subseteq Message /\ taken \subseteq taken'
  BY DEF IInv, AppTypeOK, StorageTypeOK, Frame, Inbox, AppState
<1>2. AppTypeOK'
  BY <1>1 DEF IInv, AppTypeOK, Frame
<1>3. SoundCopies'
  <2>1. Sound(state) /\ Sound(ref)
    BY DEF IInv, SoundCopies
  <2> QED  BY <2>1 DEF SoundCopies, Sound, Frame
<1>4. TakenBeforeReported'
  BY <1>1 DEF IInv, TakenBeforeReported, Frame
<1> QED  BY <1>1, <1>2, <1>3, <1>4

\* What the invariant says of the storage.
LEMMA StorageFacts ==
  ASSUME IInv
  PROVE  /\ StorageTypeOK
         /\ idb \in AppState \cup {NoContent} /\ fallback \in AppState \cup {NoContent}
         /\ txn \in AppState \cup {NoContent} /\ undone \in BOOLEAN
         /\ puts \in Seq(PutType) /\ Len(puts) \in Nat
         /\ late \in Seq(AppState) /\ Len(late) \in Nat /\ faults \in 0..MaxFaults
         /\ \A i \in 1..Len(puts) : puts[i] \in PutType /\ Sound(puts[i].content)
                                    /\ puts[i].content \in AppState
         /\ \A i \in 1..Len(late) : Sound(late[i]) /\ late[i] \in AppState
         /\ idb # NoContent => Sound(idb)
         /\ fallback # NoContent => Sound(fallback)
         /\ txn # NoContent => Sound(txn)
         /\ PutsAwaited /\ LastWriteIsState
<1>1. StorageTypeOK /\ SoundCopies /\ PutsAwaited /\ LastWriteIsState
  BY DEF IInv, AppTypeOK
<1>2. puts \in Seq(PutType) /\ late \in Seq(AppState)
  BY <1>1 DEF StorageTypeOK
<1>3. \A i \in 1..Len(puts) : puts[i] \in PutType
  BY <1>2
<1>4. \A i \in 1..Len(late) : late[i] \in AppState
  BY <1>2
<1>5. \A i \in 1..Len(puts) : Sound(puts[i].content) /\ puts[i].content \in AppState
  BY <1>1 DEF SoundCopies, Sound, SoundFor
<1> QED  BY <1>1, <1>2, <1>3, <1>4, <1>5 DEF StorageTypeOK, SoundCopies

\* What happens behind the page's back: a transaction ends, or a put that was
\* given up is carried out or fails.
Background == Commit \/ Abort \/ LatePutCommits \/ LatePutFails

\* None of it answers a write.
LEMMA BackgroundStep ==
  ASSUME IInv, Frame, UNCHANGED call, Background PROVE IInv'
<1> USE StorageFacts
<1>1. UNCHANGED <<fallback, puts>>
  BY DEF Background, Commit, Abort, LatePutCommits, LatePutFails
<1>2. late' = late \/ (late # <<>> /\ late' = Tail(late))
  BY DEF Background, Commit, Abort, LatePutCommits, LatePutFails
<1>3. late' \in Seq(AppState) /\ \A i \in 1..Len(late') : Sound(late'[i])
  <2>1. CASE late' = late
    BY <2>1
  <2>2. CASE late # <<>> /\ late' = Tail(late)
    <3>1. \A i \in 1..Len(late') : late'[i] = late[i + 1] /\ i + 1 \in 1..Len(late)
      BY <2>2
    <3>2. late' \in Seq(AppState)
      BY <2>2
    <3> QED  BY <3>1, <3>2
  <2> QED  BY <1>2, <2>1, <2>2
<1>4. idb' = idb \/ (txn # NoContent /\ idb' = txn) \/ (late # <<>> /\ idb' = late[1])
  BY DEF Background, Commit, Abort, LatePutCommits, LatePutFails
<1>5. idb' \in AppState \cup {NoContent} /\ (idb' # NoContent => Sound(idb'))
  BY <1>4
<1>6. txn' = txn \/ txn' = NoContent
  BY DEF Background, Commit, Abort, LatePutCommits, LatePutFails
<1>7. undone' \in BOOLEAN
  BY DEF Background, Commit, Abort, LatePutCommits, LatePutFails
<1>8. faults' \in 0..MaxFaults /\ (faults > 0 => faults' > 0)
  BY AppAssumption DEF Background, Commit, Abort, LatePutCommits, LatePutFails
<1>9. StorageTypeOK'
  BY <1>1, <1>3, <1>5, <1>6, <1>7, <1>8 DEF StorageTypeOK
<1>10. call' \in [Call -> CallType]
  BY Facts
<1>11. AppTypeOK' /\ SoundCopies' /\ TakenBeforeReported' /\ taken \subseteq taken'
  <2>1. \A i \in 1..Len(puts') : Sound(puts'[i].content)
    BY <1>1
  <2>2. /\ fallback' # NoContent => Sound(fallback')
        /\ txn' # NoContent => Sound(txn')
    BY <1>1, <1>6
  <2> QED  BY <1>3, <1>5, <1>9, <1>10, <2>1, <2>2, FrameInv
<1>12. \A c \in Call : CallInv(c)'
  BY <1>11 DEF IInv, CallInv, Sound, Frame
<1>13. PutsAwaited'
  BY <1>1 DEF PutsAwaited
<1>14. LastWriteIsState'
  <2>1. undone => undone'
    BY DEF Background, Commit, Abort, LatePutCommits, LatePutFails
  <2>2. StateIsKept /\ ~undone' /\ puts = <<>> => StateIsKept'
    <3>1. CASE faults > 0 /\ (FallbackWorks => fallback = state)
      BY <1>1, <1>8, <3>1 DEF StateIsKept, Frame
    <3>2. CASE late = <<>> /\ txn # NoContent /\ txn = state
      BY <3>2 DEF Background, Commit, Abort, LatePutCommits, LatePutFails, StateIsKept, Frame
    <3>3. CASE late = <<>> /\ txn = NoContent /\ idb = state
      BY <3>3 DEF Background, Commit, Abort, LatePutCommits, LatePutFails, StateIsKept, Frame
    <3> QED  BY <3>1, <3>2, <3>3 DEF StateIsKept
  <2> HIDE DEF StateIsKept
  <2> QED  BY <1>1, <2>1, <2>2 DEF LastWriteIsState, Writing, Frame
<1> QED  BY <1>11, <1>12, <1>13, <1>14 DEF IInv

\* The only position of a sequence of one.
LEMMA OnlyOne == \A n \in Nat : \A i \in 1..n : n - 1 = 0 => n = 1 /\ i = 1
OBVIOUS

\* The puts but the i-th one.
LEMMA OnePutLess ==
  ASSUME NEW S, NEW s \in Seq(S), NEW i \in 1..Len(s)
  PROVE  /\ RemoveAt(s, i) \in Seq(S) /\ Len(RemoveAt(s, i)) = Len(s) - 1
         /\ \A j \in 1..(Len(s) - 1) :
               /\ j < i => j \in 1..Len(s) /\ RemoveAt(s, i)[j] = s[j]
               /\ ~(j < i) => j + 1 \in 1..Len(s) /\ RemoveAt(s, i)[j] = s[j + 1]
<1> DEFINE t == RemoveAt(s, i)
           a == SubSeq(s, 1, i - 1)
           b == SubSeq(s, i + 1, Len(s))
<1>1. Len(s) \in Nat /\ i \in 1..Len(s)
  OBVIOUS
<1>2. a \in Seq(S) /\ Len(a) = i - 1 /\ \A j \in 1..(i - 1) : a[j] = s[j]
  BY <1>1
<1>3. b \in Seq(S) /\ Len(b) = Len(s) - i /\ \A j \in 1..(Len(s) - i) : b[j] = s[i + j]
  BY <1>1
<1> HIDE DEF t, a, b
<1>4. t = a \o b
  BY DEF t, a, b, RemoveAt
<1>5. /\ t \in Seq(S) /\ Len(t) = Len(a) + Len(b)
      /\ \A j \in 1..(Len(a) + Len(b)) : t[j] = IF j <= Len(a) THEN a[j] ELSE b[j - Len(a)]
  <2>1. a \in Seq(S) /\ b \in Seq(S)
    BY <1>2, <1>3
  <2>2. /\ a \o b \in Seq(S) /\ Len(a \o b) = Len(a) + Len(b)
        /\ \A j \in 1..(Len(a) + Len(b)) :
              (a \o b)[j] = IF j <= Len(a) THEN a[j] ELSE b[j - Len(a)]
    BY <2>1, ConcatProperties, Zenon
  <2> QED  BY <1>4, <2>2, Zenon
<1>6. Len(t) = Len(s) - 1
  BY <1>1, <1>2, <1>3, <1>5
<1>7. \A j \in 1..(Len(s) - 1) : t[j] = IF j <= i - 1 THEN a[j] ELSE b[j - (i - 1)]
  BY <1>1, <1>2, <1>3, <1>5
<1>8. ASSUME NEW j \in 1..(Len(s) - 1), j < i
      PROVE  j \in 1..Len(s) /\ t[j] = s[j]
  BY <1>1, <1>2, <1>6, <1>7, <1>8
<1>9. ASSUME NEW j \in 1..(Len(s) - 1), ~(j < i)
      PROVE  j + 1 \in 1..Len(s) /\ t[j] = s[j + 1]
  <2>1. j + 1 \in 1..Len(s) /\ j - (i - 1) \in 1..(Len(s) - i) /\ i + (j - (i - 1)) = j + 1
    BY <1>1, <1>6, <1>9
  <2>2. t[j] = b[j - (i - 1)]
    BY <1>1, <1>6, <1>7, <1>9
  <2> QED  BY <1>3, <2>1, <2>2
<1> QED  BY <1>5, <1>6, <1>8, <1>9 DEF t

\* A write is answered, and some store has taken what it wrote.
LEMMA AnsweredInv ==
  ASSUME IInv, Frame, NEW i \in 1..Len(puts), Resume(puts[i].caller),
         puts' = RemoveAt(puts, i),
         taken \subseteq taken',
         FallbackWorks => puts[i].content.inbox \subseteq taken'
  PROVE  /\ call' \in [Call -> CallType] /\ \A c \in Call : CallInv(c)'
         /\ PutsAwaited'
         /\ \A c \in Call : Writing(c) => Writing(c)'
         /\ puts' \in Seq(PutType) /\ Len(puts') = Len(puts) - 1
         /\ \A j \in 1..Len(puts') : Sound(puts'[j].content)
         /\ i < Len(puts) => puts'[Len(puts')] = puts[Len(puts)]
<1>0. puts \in Seq(PutType) /\ Len(puts) \in Nat /\ i \in 1..Len(puts)
  BY StorageFacts
<1>1. /\ puts' \in Seq(PutType) /\ Len(puts') = Len(puts) - 1
      /\ \A j \in 1..Len(puts') :
            /\ j < i => j \in 1..Len(puts) /\ puts'[j] = puts[j]
            /\ ~(j < i) => j + 1 \in 1..Len(puts) /\ puts'[j] = puts[j + 1]
  <2>1. /\ puts' = RemoveAt(puts, i)
        /\ RemoveAt(puts, i) \in Seq(PutType) /\ Len(RemoveAt(puts, i)) = Len(puts) - 1
        /\ \A j \in 1..(Len(puts) - 1) :
              /\ j < i => j \in 1..Len(puts) /\ RemoveAt(puts, i)[j] = puts[j]
              /\ ~(j < i) => j + 1 \in 1..Len(puts) /\ RemoveAt(puts, i)[j] = puts[j + 1]
    BY <1>0, OnePutLess
  <2>2. Len(puts') = Len(puts) - 1
    BY <2>1
  <2> QED  BY <2>1, <2>2
<1> DEFINE From(j) == IF j < i THEN j ELSE j + 1
<1>2. /\ \A j \in 1..Len(puts') : From(j) \in 1..Len(puts) /\ puts'[j] = puts[From(j)]
                                  /\ From(j) # i
      /\ \A j, k \in 1..Len(puts') : From(j) = From(k) => j = k
  BY <1>0, <1>1
<1>3. i < Len(puts) => puts'[Len(puts')] = puts[Len(puts)]
  <2>1. i < Len(puts) => Len(puts') \in 1..Len(puts') /\ ~(Len(puts') < i)
    BY <1>0, <1>1
  <2>2. i < Len(puts) => puts'[Len(puts')] = puts[Len(puts') + 1]
    BY <1>1, <2>1
  <2>3. Len(puts') + 1 = Len(puts)
    BY <1>0, <1>1
  <2> QED  BY <2>2, <2>3
<1> USE StorageFacts, Facts
<1> HIDE DEF From
<1>4. UNCHANGED <<answers, revokedSenders>>
  BY DEF Frame
<1> DEFINE w == puts[i].caller
           q == [call[w] EXCEPT !.pc = "report", !.left = call[w].got]
<1>5. w \in Call \cup {Nobody}
  BY DEF PutType
<1>6. ASSUME w # Nobody
      PROVE  /\ w \in Call /\ call[w].pc = "store"
             /\ q \in CallType /\ q.pc = "report" /\ q.base = call[w].base
             /\ FallbackWorks => q.left \subseteq taken'
             /\ call' = [call EXCEPT ![w] = q]
  <2>1. w \in Call /\ call[w].pc = "store" /\ call[w].got \subseteq puts[i].content.inbox
    BY <1>5, <1>6 DEF PutsAwaited
  <2>2. q \in CallType /\ q.pc = "report" /\ q.base = call[w].base /\ q.left = call[w].got
    BY <2>1 DEF CallType, Pc
  <2>3. FallbackWorks => q.left \subseteq taken'
    BY <2>1, <2>2
  <2>4. call' = [call EXCEPT ![w] = q]
    BY <1>6 DEF Resume
  <2> HIDE DEF q
  <2> QED  BY <2>1, <2>2, <2>3, <2>4
<1>7. w = Nobody => call' = call
  BY DEF Resume
<1> HIDE DEF w, q
<1>8. call' \in [Call -> CallType]
  BY <1>6, <1>7
<1>9. \A c \in Call : CallInv(c)'
  <2> TAKE c \in Call
  <2>1. CASE w # Nobody /\ c = w
    <3>1. call'[c] = q
      BY <1>6, <2>1
    <3> QED  BY <1>4, <1>6, <2>1, <3>1 DEF CallInv, Sound
  <2>2. CASE ~(w # Nobody /\ c = w)
    <3>1. call'[c] = call[c]
      BY <1>6, <1>7, <2>2
    <3> QED  BY <1>4, <3>1 DEF IInv, CallInv, Sound
  <2> QED  BY <2>1, <2>2
<1>10. \A c \in Call : Writing(c) => Writing(c)'
  <2> TAKE c \in Call
  <2>1. CASE w # Nobody /\ c = w
    <3>1. call'[c] = q
      BY <1>6, <2>1
    <3> QED  BY <1>6, <2>1, <3>1 DEF Writing
  <2>2. CASE ~(w # Nobody /\ c = w)
    <3>1. call'[c] = call[c]
      BY <1>6, <1>7, <2>2
    <3> QED  BY <3>1 DEF Writing
  <2> QED  BY <2>1, <2>2
<1>11. PutsAwaited'
  <2>1. ASSUME NEW j \in 1..Len(puts'), puts'[j].caller # Nobody
        PROVE  /\ call'[puts'[j].caller].pc = "store"
               /\ call'[puts'[j].caller].got \subseteq puts'[j].content.inbox
               /\ \A k \in 1..Len(puts') : puts'[k].caller = puts'[j].caller => k = j
    <3>1. From(j) \in 1..Len(puts) /\ puts'[j] = puts[From(j)] /\ From(j) # i
      BY <1>2
    <3>2. puts[From(j)].caller \in Call /\ puts[From(j)].caller # w
      BY <2>1, <3>1 DEF PutType, PutsAwaited, w
    <3>3. call'[puts[From(j)].caller] = call[puts[From(j)].caller]
      BY <1>6, <1>7, <3>2
    <3>4. ASSUME NEW k \in 1..Len(puts'), puts'[k].caller = puts'[j].caller PROVE k = j
      <4>1. From(k) \in 1..Len(puts) /\ puts'[k] = puts[From(k)]
        BY <1>2
      <4>2. From(k) = From(j)
        BY <2>1, <3>1, <3>4, <4>1 DEF PutsAwaited
      <4> QED  BY <1>2, <4>2
    <3> QED  BY <2>1, <3>1, <3>3, <3>4 DEF PutsAwaited
  <2> QED  BY <2>1 DEF PutsAwaited
<1>12. \A j \in 1..Len(puts') : Sound(puts'[j].content)
  BY <1>2
<1> QED  BY <1>1, <1>3, <1>8, <1>9, <1>10, <1>11, <1>12

\* The oldest write is the first of the puts.
LEMMA OldestPut ==
  ASSUME IInv, puts # <<>>
  PROVE  /\ 1 \in 1..Len(puts) /\ Head(puts) = puts[1]
         /\ Tail(puts) = RemoveAt(puts, 1)
<1>1. puts \in Seq(PutType) /\ Len(puts) \in Nat
  BY StorageFacts
<1>2. Len(puts) >= 1
  BY <1>1
<1>3. SubSeq(puts, 1, 0) = <<>> /\ Tail(puts) = SubSeq(puts, 2, Len(puts))
  BY <1>1, <1>2
<1>4. SubSeq(puts, 2, Len(puts)) \in Seq(PutType)
  BY <1>1, <1>2
<1>5. RemoveAt(puts, 1) = Tail(puts)
  BY <1>3, <1>4 DEF RemoveAt
<1> QED  BY <1>1, <1>2, <1>5

\* The caller hears of a put whose request has succeeded, and may report.
LEMMA PutSucceedsStep ==
  ASSUME IInv, Frame, PutSucceeds, Resume(Head(puts).caller) PROVE IInv'
<1> USE StorageFacts
<1>1. /\ puts # <<>> /\ late = <<>> /\ txn' = Head(puts).content /\ puts' = Tail(puts)
      /\ fallback' = NoContent /\ UNCHANGED <<idb, late, undone, faults>>
  BY DEF PutSucceeds
<1>2. /\ 1 \in 1..Len(puts) /\ Head(puts) = puts[1]
      /\ puts' = RemoveAt(puts, 1)
  BY <1>1, OldestPut
<1>3. txn' = puts[1].content /\ txn' \in AppState /\ Sound(txn') /\ txn' # NoContent
  BY <1>1, <1>2, AppAssumption
<1>4. taken \subseteq taken' /\ puts[1].content.inbox \subseteq taken'
  BY <1>3 DEF Frame, Inbox
<1>5. /\ call' \in [Call -> CallType] /\ \A c \in Call : CallInv(c)'
      /\ PutsAwaited'
      /\ \A c \in Call : Writing(c) => Writing(c)'
      /\ puts' \in Seq(PutType) /\ Len(puts') = Len(puts) - 1
      /\ \A j \in 1..Len(puts') : Sound(puts'[j].content)
      /\ 1 < Len(puts) => puts'[Len(puts')] = puts[Len(puts)]
  BY <1>2, <1>4, AnsweredInv
<1>6. StorageTypeOK'
  BY <1>1, <1>3, <1>5 DEF StorageTypeOK
<1>7. AppTypeOK' /\ SoundCopies' /\ TakenBeforeReported'
  BY <1>1, <1>3, <1>5, <1>6, FrameInv
<1>8. LastWriteIsState'
  <2>1. (\A c \in Call : ~Writing(c)') => \A c \in Call : ~Writing(c)
    BY <1>5
  <2>2. puts' # <<>> => 1 < Len(puts)
    BY <1>2, <1>5
  <2>3. puts' = <<>> => Len(puts) = 1
    BY <1>5
  <2> HIDE DEF Writing
  <2> QED  BY <1>1, <1>3, <1>5, <2>1, <2>2, <2>3 DEF LastWriteIsState, StateIsKept, Frame
<1> QED  BY <1>5, <1>7, <1>8 DEF IInv

\* What a put that is late or fails has in common: the caller goes on with the
\* copy, and may report what the copy holds.
LEMMA CopyStep ==
  ASSUME IInv, Frame, NEW i \in 1..Len(puts), Resume(puts[i].caller),
         puts' = RemoveAt(puts, i),
         SaveCopy(puts[i].content), faults < MaxFaults, faults' = faults + 1,
         UNCHANGED <<idb, txn>>, undone' \in BOOLEAN,
         undone \/ (i > 1 /\ i = Len(puts)) => undone',
         late' \in Seq(AppState), \A j \in 1..Len(late') : Sound(late'[j])
  PROVE  IInv'
<1> USE StorageFacts
<1>1. /\ Sound(puts[i].content) /\ puts[i].content \in AppState
      /\ puts[i].content # NoContent
  BY AppAssumption
<1>2. fallback' = (IF FallbackWorks THEN puts[i].content ELSE fallback)
  BY DEF SaveCopy
<1>3. taken \subseteq taken' /\ (FallbackWorks => puts[i].content.inbox \subseteq taken')
  BY <1>1, <1>2 DEF Frame, Inbox
<1>4. faults' \in 0..MaxFaults /\ faults' > 0
  BY AppAssumption
<1>5. /\ call' \in [Call -> CallType] /\ \A c \in Call : CallInv(c)'
      /\ PutsAwaited'
      /\ \A c \in Call : Writing(c) => Writing(c)'
      /\ puts' \in Seq(PutType) /\ Len(puts') = Len(puts) - 1
      /\ \A j \in 1..Len(puts') : Sound(puts'[j].content)
      /\ i < Len(puts) => puts'[Len(puts')] = puts[Len(puts)]
  BY <1>3, AnsweredInv
<1>6. StorageTypeOK'
  BY <1>1, <1>2, <1>4, <1>5 DEF StorageTypeOK
<1>7. AppTypeOK' /\ SoundCopies' /\ TakenBeforeReported'
  <2>1. fallback' # NoContent => Sound(fallback')
    BY <1>1, <1>2
  <2> QED  BY <1>5, <1>6, <2>1, FrameInv
<1>8. LastWriteIsState'
  <2>1. (\A c \in Call : ~Writing(c)') => \A c \in Call : ~Writing(c)
    BY <1>5
  <2>2. Len(puts) \in Nat /\ i \in 1..Len(puts) /\ puts # <<>>
    OBVIOUS
  <2>3. Len(puts') = Len(puts) - 1 /\ (puts' = <<>> => Len(puts') = 0)
    BY <1>5
  <2>4. puts' # <<>> => Len(puts') # 0
    BY <1>5
  <2>6. Len(puts) - 1 = 0 => Len(puts) = 1 /\ i = 1
    BY <2>2, OnlyOne
  <2>7. puts' = <<>> => Len(puts) = 1 /\ i = 1
    BY <2>3, <2>6, Zenon
  <2>5. puts' # <<>> => i < Len(puts) \/ (i > 1 /\ i = Len(puts))
    BY <2>2, <2>3, <2>4
  <2> HIDE DEF Writing
  <2> QED  BY <1>2, <1>4, <1>5, <2>1, <2>2, <2>5, <2>7 DEF LastWriteIsState, StateIsKept, Frame
<1> QED  BY <1>5, <1>7, <1>8 DEF IInv

\* A put is given up: it is the last of those that may be carried out late.
LEMMA PutTimesOutStep ==
  ASSUME IInv, Frame, PutTimesOut, Resume(Head(puts).caller) PROVE IInv'
<1> USE StorageFacts
<1>1. /\ puts # <<>> /\ puts' = Tail(puts) /\ SaveCopy(Head(puts).content)
      /\ faults < MaxFaults /\ faults' = faults + 1 /\ UNCHANGED <<idb, txn, undone>>
      /\ late' = Append(late, Head(puts).content)
  BY DEF PutTimesOut
<1>2. /\ 1 \in 1..Len(puts) /\ Head(puts) = puts[1]
      /\ puts' = RemoveAt(puts, 1)
  BY <1>1, OldestPut
<1>3. Sound(puts[1].content) /\ puts[1].content \in AppState /\ late' = Append(late, puts[1].content)
  BY <1>1, <1>2
<1>4. late' \in Seq(AppState) /\ Len(late') = Len(late) + 1
      /\ \A j \in 1..Len(late') : late'[j] = IF j = Len(late) + 1 THEN puts[1].content ELSE late[j]
  BY <1>3
<1>5. \A j \in 1..Len(late') : Sound(late'[j])
  <2> TAKE j \in 1..Len(late')
  <2>1. j = Len(late) + 1 \/ j \in 1..Len(late)
    BY <1>4
  <2>2. \A k \in 1..Len(late) : Sound(late[k])
    OBVIOUS
  <2> QED  BY <1>3, <1>4, <2>1, <2>2
<1>6. PICK i \in 1..Len(puts) : i = 1
  BY <1>2
<1>7. Resume(puts[i].caller) /\ puts' = RemoveAt(puts, i) /\ SaveCopy(puts[i].content)
  BY <1>1, <1>2, <1>6
<1>8. undone' \in BOOLEAN /\ (undone \/ (i > 1 /\ i = Len(puts)) => undone')
  <2>1. ~(i > 1)
    BY <1>6
  <2>2. undone \in BOOLEAN /\ undone' = undone
    BY <1>1
  <2> QED  BY <2>1, <2>2
<1> QED  BY <1>1, <1>4, <1>5, <1>7, <1>8, CopyStep

\* A put fails while its caller waits; the copy takes its content.
LEMMA PutFailsStep ==
  ASSUME IInv, Frame, NEW i \in DOMAIN puts, PutFails(i), Resume(puts[i].caller) PROVE IInv'
<1> USE StorageFacts
<1>1. i \in 1..Len(puts)
  OBVIOUS
<1>2. /\ puts' = RemoveAt(puts, i)
      /\ SaveCopy(puts[i].content) /\ faults < MaxFaults /\ faults' = faults + 1
      /\ UNCHANGED <<idb, txn, late>> /\ undone' = (undone \/ (i > 1 /\ i = Len(puts)))
  BY DEF PutFails
<1>3. late' \in Seq(AppState) /\ \A j \in 1..Len(late') : Sound(late'[j])
  BY <1>2
<1>4. undone' \in BOOLEAN /\ (undone \/ (i > 1 /\ i = Len(puts)) => undone')
  BY <1>2
<1> QED  BY <1>1, <1>2, <1>3, <1>4, CopyStep

\* Every step of the storage preserves the invariant.
LEMMA StorageStepInv ==
  ASSUME IInv, StorageStep PROVE IInv'
<1>1. Frame
  BY DEF StorageStep, Remember, Frame, pageVars, serverVars
<1>2. CASE Background /\ UNCHANGED call
  BY <1>1, <1>2, BackgroundStep
<1>3. CASE PutSucceeds /\ Resume(Head(puts).caller)
  BY <1>1, <1>3, PutSucceedsStep
<1>4. CASE PutTimesOut /\ Resume(Head(puts).caller)
  BY <1>1, <1>4, PutTimesOutStep
<1>5. ASSUME NEW i \in DOMAIN puts, PutFails(i), Resume(puts[i].caller) PROVE IInv'
  BY <1>1, <1>5, PutFailsStep
<1> QED  BY <1>2, <1>3, <1>4, <1>5 DEF StorageStep, Background

-----------------------------------------------------------------------------
(* The theorems *)

\* Every step preserves the invariant.
LEMMA StepInv == IInv /\ [Next]_vars => IInv'
<1> SUFFICES ASSUME IInv, [Next]_vars PROVE IInv'
  OBVIOUS
<1>1. CASE OpenPage
  BY <1>1, OpenPageStep
<1>2. CASE Render
  BY <1>2, RenderStep
<1>3. CASE Close
  BY <1>3, CloseStep
<1>4. CASE StorageStep
  BY <1>4, StorageStepInv
<1>5. ASSUME NEW m \in Message, Accept(m) \/ ToggleSave(m) \/ DeleteMessage(m)
      PROVE  IInv'
  BY <1>5, AcceptStep, ToggleSaveStep, DeleteMessageStep, AsideInv
<1>6. ASSUME NEW c \in Call, Wakeup(c) \/ FetchPending(c) \/ FetchFails(c) \/ EndSync(c)
                             \/ NotificationFails(c)
      PROVE  IInv'
  BY <1>6, WakeupStep, FetchPendingStep, FetchFailsStep, EndSyncStep,
     NotificationFailsStep, AsideInv
<1>7. ASSUME NEW c \in Call, Store(c)
      PROVE  IInv'
  BY <1>7, StoreNothingStep, StoreMergedStep, AsideInv
<1>8. ASSUME NEW s \in Sender, SenderPaired(s)
      PROVE  IInv'
  BY <1>8, SenderPairedStep, AsideInv
<1>9. ASSUME NEW c \in Call, AnswerStored(c) \/ ShowAnswer(c) \/ SenderRevoked(c)
                             \/ ShowRevoked(c) \/ RequestFails(c)
      PROVE  IInv'
  BY <1>9, AnswerStoredStep, ShowAnswerStep, SenderRevokedStep, ShowRevokedStep,
     RequestFailsStep, AsideInv
<1>10. ASSUME NEW c \in Call, NEW m \in Message, Report(c, m) \/ SubmitAnswer(c, m)
       PROVE  IInv'
  BY <1>10, ReportStep, SubmitAnswerStep, AsideInv
<1>11. ASSUME NEW c \in Call, NEW s \in Sender, RevokeSender(c, s)
       PROVE  IInv'
  BY <1>11, RevokeSenderStep, AsideInv
<1>12. CASE UNCHANGED vars
  <2>1. UNCHANGED <<idb, fallback, txn, puts, late, undone, faults, page, state, dirty, ref, call>>
        /\ UNCHANGED <<accepted, delivered, answers, paired, revokedSenders>>
        /\ UNCHANGED <<taken, unshown, overlapped, events, closes>>
    BY <1>12 DEF vars, storageVars, pageVars, serverVars, history
  <2>2. AppTypeOK' /\ SoundCopies' /\ TakenBeforeReported'
    BY <2>1 DEF IInv, AppTypeOK, StorageTypeOK, SoundCopies, Sound, TakenBeforeReported
  <2>3. (\A c \in Call : CallInv(c)') /\ PutsAwaited'
    BY <2>1 DEF IInv, CallInv, Sound, PutsAwaited
  <2>4. LastWriteIsState'
    BY <2>1 DEF IInv, LastWriteIsState, StateIsKept, Writing
  <2> QED  BY <2>2, <2>3, <2>4 DEF IInv
<1> QED
  BY <1>1, <1>2, <1>3, <1>4, <1>5, <1>6, <1>7, <1>8, <1>9, <1>10, <1>11, <1>12 DEF Next

\* The inductive invariant holds in every behaviour.
THEOREM AppInvariance == Spec => []IInv
BY InitInv, StepInv, PTL DEF Spec

\* Type correctness: what is carried from await to await, and the storage's
\* queue, stay well formed through late, failed and withdrawn writes.
THEOREM AppTypes == Spec => []AppTypeOK
<1>1. IInv => AppTypeOK
  BY DEF IInv
<1> QED  BY <1>1, AppInvariance, PTL

\* However many operations overlap and however late the writes are, a message
\* is reported delivered only after some store of the phone has held it.
THEOREM ReportSafe == Spec => []TakenBeforeReported
<1>1. IInv => TakenBeforeReported
  BY DEF IInv
<1> QED  BY <1>1, AppInvariance, PTL

\* No copy of the state, on the page or stored, shows an answer or a revocation
\* the server has not stored.
THEOREM ShownSafe == Spec => []ShownIsOnServer
<1>1. IInv => ShownIsOnServer
  <2> SUFFICES ASSUME IInv PROVE \A copy \in Copies : Sound(copy)
    BY DEF ShownIsOnServer, Sound, SoundFor
  <2> QED  BY StorageFacts DEF IInv, SoundCopies, CallInv, Copies
<1> QED  BY <1>1, AppInvariance, PTL

\* Every copy of the state has the sender of every message in it.
THEOREM SendersSafe == Spec => []SendersCoverInbox
<1>1. IInv => SendersCoverInbox
  <2> SUFFICES ASSUME IInv PROVE \A copy \in Copies : Sound(copy)
    BY DEF SendersCoverInbox, Sound, SoundFor
  <2> QED  BY StorageFacts DEF IInv, SoundCopies, CallInv, Copies
<1> QED  BY <1>1, AppInvariance, PTL

\* A page at rest has stored what it shows, for any number of writes by effects
\* and synchronisations that overtake each other.
THEOREM QuietSafe == Spec => []QuietPageIsStored
<1>1. IInv => QuietPageIsStored
  BY DEF IInv, LastWriteIsState, StateIsKept, Writing, QuietPageIsStored, Quiet
<1> QED  BY <1>1, AppInvariance, PTL

-----------------------------------------------------------------------------
(* One page whose synchronisations take turns: LoneSyncKeepsMessages.  What the first    *)
(* page loses when synchronisations overlap it does not lose when they take turns.       *)

\* The calls and the state of a page on which only one operation replaces the
\* state: what it carries is based on the inbox the page shows, and a message
\* reported is in one of them.
TakesTurns ==
    /\ page # "open" => delivered = {} /\ \A c \in Call : call[c].pc = "idle"
    /\ page = "open" => state.inbox = ref.inbox
    /\ \A c, d \in Call : call[c].pc \in Replacing /\ call[d].pc \in Replacing => c = d
    /\ \A c \in Call : call[c].pc \in Replacing => call[c].base.inbox = ref.inbox
    /\ \A c \in Call : call[c].pc = "report" => call[c].left \subseteq call[c].got
    /\ \A m \in delivered :
          \/ m \in ref.inbox \cup unshown
          \/ \E c \in Call : call[c].pc = "report" /\ m \in call[c].got

\* The page is the first one, and no two operations have overlapped.
Lone == closes = 0 /\ ~overlapped

LoneInv == Lone => TakesTurns

-----------------------------------------------------------------------------
(* Lemmas *)

\* An operation moves on with the base it started from, and one that reports
\* may have reported one of its messages.
LEMMA LoneMove ==
  ASSUME IInv, LoneInv, NEW c \in Call, NEW q \in CallType,
         call' = [call EXCEPT ![c] = q],
         UNCHANGED <<page, closes, overlapped, ref, unshown>>,
         state'.inbox = state.inbox,
         page = "open" \/ call[c].pc # "idle",
         q.pc \in Replacing => call[c].pc \in Replacing /\ q.base = call[c].base,
         q.pc = "report" => q.left \subseteq q.got,
         call[c].pc = "report" => q.pc = "report" /\ q.got = call[c].got,
         \A m \in delivered' : m \in delivered \/ (q.pc = "report" /\ m \in q.got)
  PROVE  LoneInv'
<1> SUFFICES ASSUME Lone PROVE TakesTurns'
  BY DEF LoneInv, Lone
<1>1. call'[c] = q /\ \A d \in Call \ {c} : call'[d] = call[d]
  BY Facts
<1>2. TakesTurns
  BY DEF LoneInv
<1>3. page = "open" /\ page' = "open" /\ state'.inbox = ref'.inbox
  BY <1>2 DEF TakesTurns
<1>4. \A d \in Call : call'[d].pc \in Replacing =>
         call[d].pc \in Replacing /\ call'[d].base = call[d].base
  BY <1>1
<1>5. \A d, e \in Call : call'[d].pc \in Replacing /\ call'[e].pc \in Replacing => d = e
  BY <1>2, <1>4 DEF TakesTurns
<1>6. \A d \in Call : call'[d].pc \in Replacing => call'[d].base.inbox = ref'.inbox
  BY <1>2, <1>4 DEF TakesTurns
<1>7. \A d \in Call : call'[d].pc = "report" => call'[d].left \subseteq call'[d].got
  BY <1>1, <1>2 DEF TakesTurns
<1>8. \A m \in delivered' :
         \/ m \in ref'.inbox \cup unshown'
         \/ \E d \in Call : call'[d].pc = "report" /\ m \in call'[d].got
  BY <1>1, <1>2 DEF TakesTurns
<1> QED  BY <1>3, <1>5, <1>6, <1>7, <1>8 DEF TakesTurns

\* The ended operation replaces nothing and has nothing left.
LEMMA IdleIsDone == Idle \in CallType /\ Idle.pc = "idle" /\ Idle.left = {} /\ Idle.got = {}
BY IdleType DEF Idle

\* Nothing of the page's own changes.
LEMMA LoneQuiet ==
  ASSUME IInv, LoneInv, UNCHANGED <<page, call, closes, overlapped, ref, unshown, delivered>>,
         state'.inbox = state.inbox
  PROVE  LoneInv'
BY DEF LoneInv, Lone, TakesTurns

\* An operation that does not report ends.
LEMMA LoneEnd ==
  ASSUME IInv, LoneInv, NEW c \in Call, Finish(c),
         call[c].pc \notin {"idle", "report"},
         UNCHANGED <<page, closes, overlapped, ref, unshown, delivered>>,
         state'.inbox = state.inbox
  PROVE  LoneInv'
<1>1. call' = [call EXCEPT ![c] = Idle]
  BY DEF Finish
<1>2. Idle.pc \notin Replacing
  BY IdleIsDone DEF Replacing
<1> HIDE DEF Idle
<1> QED  BY <1>1, <1>2, IdleIsDone, LoneMove

-----------------------------------------------------------------------------
(* The steps *)

\* A wakeup while another operation is under way is an overlap.
LEMMA LoneWakeup ==
  ASSUME IInv, LoneInv, NEW c \in Call, Wakeup(c) PROVE LoneInv'
<1> SUFFICES ASSUME Lone, ~Busy PROVE TakesTurns'
  BY DEF LoneInv, Lone, Wakeup, Event
<1> DEFINE q == [Idle EXCEPT !.pc = "fetch", !.base = ref]
<1>1. /\ q.pc = "fetch" /\ q.base = ref /\ q.left = {}
      /\ Idle.pc = "idle" /\ Idle.left = {}
  BY DEF Idle
<1>2. /\ UNCHANGED <<page, state, ref, unshown, delivered>>
      /\ page = "open" /\ call[c].pc = "idle"
      /\ call' = [call EXCEPT ![c] = IF ref.device THEN q ELSE Idle]
  BY DEF Wakeup, Event, serverVars, Synchronise
<1> HIDE DEF q, Idle
<1>3. /\ \A d \in Call \ {c} : call'[d] = call[d]
      /\ call'[c] = q \/ call'[c] = Idle
  BY <1>2, Facts
<1>4. TakesTurns /\ \A d \in Call : call[d].pc \notin Replacing
  BY DEF LoneInv, Busy
<1>5. \A d \in Call : call'[d].pc \in Replacing => d = c /\ call'[d] = q
  BY <1>1, <1>3, <1>4 DEF Replacing
<1>6. \A m \in delivered : m \in ref.inbox \cup unshown
  BY <1>4 DEF TakesTurns, Replacing
<1>7. \A d \in Call : call'[d].pc = "report" => call'[d].left \subseteq call'[d].got
  BY <1>1, <1>3, <1>4 DEF TakesTurns
<1> QED  BY <1>1, <1>2, <1>4, <1>5, <1>6, <1>7 DEF TakesTurns

\* The first render starts the first operation.
LEMMA LoneRender ==
  ASSUME IInv, LoneInv, Render PROVE LoneInv'
<1> SUFFICES ASSUME Lone PROVE TakesTurns'
  BY DEF LoneInv, Lone, Render, history
<1> DEFINE q == [Idle EXCEPT !.pc = "fetch", !.base = state]
<1>1. /\ q.pc = "fetch" /\ q.base = state /\ q.left = {}
      /\ Idle.pc = "idle" /\ Idle.left = {}
  BY DEF Idle
<1>2. UNCHANGED <<state, unshown, delivered>> /\ ref' = state /\ page' = "open" /\ page # "closed"
  BY DEF Render, serverVars, history
<1>3. TakesTurns
  BY DEF LoneInv
<1>4. CASE page = "loaded"
  <2>1. PICK c \in Call : call' = [call EXCEPT ![c] = IF state.device THEN q ELSE Idle]
    BY <1>4 DEF Render, Synchronise
  <2> HIDE DEF q, Idle
  <2>2. /\ \A d \in Call \ {c} : call'[d] = call[d]
        /\ call'[c] = q \/ call'[c] = Idle
    BY <2>1, Facts
  <2>3. delivered = {} /\ \A d \in Call : call[d].pc = "idle"
    BY <1>3, <1>4 DEF TakesTurns
  <2>4. \A d \in Call : call'[d].pc \in Replacing => d = c /\ call'[d] = q
    BY <1>1, <2>2, <2>3 DEF Replacing
  <2>5. \A d \in Call : call'[d].pc = "report" => call'[d].left \subseteq call'[d].got
    BY <1>1, <1>3, <2>2 DEF TakesTurns
  <2> QED  BY <1>1, <1>2, <2>3, <2>4, <2>5 DEF TakesTurns
<1>5. CASE page # "loaded"
  <2>1. call' = call /\ page = "open"
    BY <1>2, <1>5 DEF Render, IInv, AppTypeOK
  <2> QED  BY <1>2, <1>3, <2>1 DEF TakesTurns
<1> QED  BY <1>4, <1>5

\* A page that opens for the first time has no operation in flight.
LEMMA LoneOpenPage ==
  ASSUME IInv, LoneInv, OpenPage PROVE LoneInv'
<1> SUFFICES ASSUME Lone PROVE TakesTurns'
  BY DEF LoneInv, Lone, OpenPage, history
<1>1. UNCHANGED <<ref, call, delivered>> /\ page' = "loaded" /\ page = "closed"
  BY DEF OpenPage, serverVars
<1> QED  BY <1>1 DEF LoneInv, TakesTurns, Replacing

\* The list of pending messages is what the operation will report.
LEMMA LoneFetchPending ==
  ASSUME IInv, LoneInv, NEW c \in Call, FetchPending(c) PROVE LoneInv'
<1> DEFINE q == [call[c] EXCEPT !.pc = "merge", !.got = accepted \ delivered]
<1>1. call[c] \in CallType /\ accepted \subseteq Message
  BY Facts
<1>2. /\ q \in CallType /\ q.pc = "merge" /\ q.base = call[c].base
      /\ q.got = accepted \ delivered /\ q.left = call[c].left
  BY <1>1 DEF CallType, Pc
<1>3. call[c].pc = "fetch" /\ call' = [call EXCEPT ![c] = q]
  BY DEF FetchPending
<1>4. UNCHANGED <<page, closes, overlapped, ref, unshown, delivered, state>>
  BY DEF FetchPending, pageVars, serverVars, history
<1>5. q.pc \in Replacing /\ call[c].pc \in Replacing
  BY <1>2, <1>3 DEF Replacing
<1> HIDE DEF q
<1> QED  BY <1>2, <1>3, <1>4, <1>5, LoneMove

\* The merged state goes to the storage.
LEMMA LoneStore ==
  ASSUME IInv, LoneInv, NEW c \in Call, Store(c) PROVE LoneInv'
<1> DEFINE q == [call[c] EXCEPT !.pc = "store"]
<1>1. UNCHANGED <<page, closes, overlapped, ref, unshown, delivered, state>> /\ call[c].pc = "merge"
  BY DEF Store, pageVars, serverVars, history
<1>2. CASE Finish(c)
  BY <1>1, <1>2, LoneEnd
<1>3. CASE call' = [call EXCEPT ![c] = q]
  <2>1. call[c] \in CallType
    BY Facts
  <2>2. /\ q \in CallType /\ q.pc = "store" /\ q.base = call[c].base
        /\ q.got = call[c].got /\ q.left = call[c].left
    BY <2>1 DEF CallType, Pc
  <2>3. call[c].pc \in Replacing
    BY <1>1 DEF Replacing
  <2> HIDE DEF q
  <2> QED  BY <1>1, <1>3, <2>2, <2>3, LoneMove
<1> QED  BY <1>2, <1>3 DEF Store

\* A report that arrives is one of a message the operation carries.
LEMMA LoneReport ==
  ASSUME IInv, LoneInv, NEW c \in Call, NEW m \in Message, Report(c, m) PROVE LoneInv'
<1> SUFFICES ASSUME Lone PROVE LoneInv'
  BY DEF LoneInv, Lone, Report, history
<1> DEFINE q == [call[c] EXCEPT !.left = @ \ {m}]
<1>1. call[c] \in CallType
  BY Facts
<1>2. /\ q \in CallType /\ q.pc = call[c].pc /\ q.base = call[c].base
      /\ q.got = call[c].got /\ q.left = call[c].left \ {m}
  BY <1>1 DEF CallType
<1>3. /\ call[c].pc = "report" /\ m \in call[c].left /\ call' = [call EXCEPT ![c] = q]
      /\ \A n \in delivered' : n \in delivered \/ n = m
      /\ UNCHANGED <<page, closes, overlapped, ref, unshown, state>>
  BY DEF Report, pageVars, history
<1>4. call[c].left \subseteq call[c].got
  BY <1>3 DEF LoneInv, TakesTurns
<1>5. call[c].pc \in Replacing
  BY <1>3 DEF Replacing
<1> HIDE DEF q
<1> QED  BY <1>2, <1>3, <1>4, <1>5, LoneMove

\* The result that replaces the state holds what the operation has reported.
LEMMA LoneEndSync ==
  ASSUME IInv, LoneInv, NEW c \in Call, EndSync(c) PROVE LoneInv'
<1> SUFFICES ASSUME Lone PROVE TakesTurns'
  BY DEF LoneInv, Lone, EndSync
<1>1. TakesTurns
  BY DEF LoneInv
<1>2. /\ call[c].pc = "report" /\ call' = [call EXCEPT ![c] = Idle]
      /\ state' = Merged(c) /\ ref' = Merged(c) /\ UNCHANGED <<page, delivered>>
      /\ unshown' = unshown \ call[c].got
  BY DEF EndSync, Finish, serverVars
<1>3. Merged(c).inbox = call[c].base.inbox \cup call[c].got
  BY Facts DEF Merged, MergePending, SoundFor, AppState
<1>4. call[c].pc \in Replacing /\ Idle.pc \notin Replacing /\ Idle.pc # "report"
  BY <1>2, IdleIsDone DEF Replacing
<1> HIDE DEF Idle
<1>5. call'[c] = Idle /\ \A d \in Call \ {c} : call'[d] = call[d]
  BY <1>2, Facts
<1>6. page = "open"
  BY <1>1, <1>2 DEF TakesTurns
<1>7. \A d \in Call : call'[d].pc \notin Replacing
  BY <1>1, <1>4, <1>5 DEF TakesTurns
<1>8. \A n \in delivered : n \in ref'.inbox \cup unshown'
  <2>1. \A d \in Call : call[d].pc = "report" => d = c
    BY <1>1, <1>4 DEF TakesTurns, Replacing
  <2>2. ref'.inbox = ref.inbox \cup call[c].got
    BY <1>1, <1>2, <1>3, <1>4 DEF TakesTurns
  <2> QED  BY <1>1, <1>2, <2>1, <2>2 DEF TakesTurns
<1>9. \A d \in Call : call'[d].pc # "report"
  BY <1>7 DEF Replacing
<1> QED  BY <1>2, <1>6, <1>7, <1>8, <1>9 DEF TakesTurns

\* What a failed notification keeps off the page is known to be.
LEMMA LoneNotificationFails ==
  ASSUME IInv, LoneInv, NEW c \in Call, NotificationFails(c) PROVE LoneInv'
<1> SUFFICES ASSUME Lone PROVE TakesTurns'
  BY DEF LoneInv, Lone, NotificationFails
<1>1. TakesTurns
  BY DEF LoneInv
<1>2. /\ call[c].pc = "report" /\ call' = [call EXCEPT ![c] = Idle]
      /\ UNCHANGED <<page, state, ref, delivered>>
      /\ unshown' = unshown \cup (call[c].got \ call[c].base.inbox)
  BY DEF NotificationFails, Finish, pageVars, serverVars
<1>3. call[c].pc \in Replacing /\ Idle.pc \notin Replacing
  BY <1>2, IdleIsDone DEF Replacing
<1> HIDE DEF Idle
<1>4. call'[c] = Idle /\ \A d \in Call \ {c} : call'[d] = call[d]
  BY <1>2, Facts
<1>5. page = "open"
  BY <1>1, <1>2 DEF TakesTurns
<1>6. \A d \in Call : call'[d].pc \notin Replacing
  BY <1>1, <1>3, <1>4 DEF TakesTurns
<1>7. \A n \in delivered : n \in ref.inbox \cup unshown'
  <2>1. \A d \in Call : call[d].pc = "report" => d = c
    BY <1>1, <1>3 DEF TakesTurns, Replacing
  <2>2. call[c].base.inbox = ref.inbox
    BY <1>1, <1>3 DEF TakesTurns
  <2> QED  BY <1>1, <1>2, <2>1, <2>2 DEF TakesTurns
<1>8. \A d \in Call : call'[d].pc # "report"
  BY <1>6 DEF Replacing
<1> QED  BY <1>1, <1>2, <1>5, <1>6, <1>7, <1>8 DEF TakesTurns

\* The operation whose write is answered has still to report everything.
LEMMA LoneStorageStep ==
  ASSUME IInv, LoneInv, StorageStep PROVE LoneInv'
<1>1. UNCHANGED <<page, closes, overlapped, ref, unshown, delivered, state>>
  BY DEF StorageStep, pageVars, serverVars
<1>2. CASE UNCHANGED call
  BY <1>1, <1>2, LoneQuiet
<1>3. ASSUME NEW i \in 1..Len(puts), Resume(puts[i].caller), call' # call
      PROVE  LoneInv'
  <2> DEFINE w == puts[i].caller
             q == [call[w] EXCEPT !.pc = "report", !.left = call[w].got]
  <2>1. puts[i] \in PutType
    BY StorageFacts
  <2>2. w # Nobody /\ w \in Call /\ call' = [call EXCEPT ![w] = q]
    BY <1>3, <2>1 DEF Resume, PutType
  <2>3. call[w].pc = "store" /\ call[w] \in CallType
    BY <2>2, StorageFacts, Facts DEF PutsAwaited
  <2>4. /\ q \in CallType /\ q.pc = "report" /\ q.base = call[w].base
        /\ q.got = call[w].got /\ q.left = call[w].got
    BY <2>3 DEF CallType, Pc
  <2>5. call[w].pc \in Replacing
    BY <2>3 DEF Replacing
  <2> HIDE DEF q, w
  <2> QED  BY <1>1, <2>2, <2>3, <2>4, <2>5, LoneMove
<1>4. CASE (PutSucceeds \/ PutTimesOut) /\ Resume(Head(puts).caller)
  <2>1. puts # <<>>
    BY <1>4 DEF PutSucceeds, PutTimesOut
  <2>2. 1 \in 1..Len(puts) /\ Head(puts) = puts[1]
    BY <2>1, OldestPut
  <2> QED  BY <1>2, <1>3, <1>4, <2>2
<1>5. ASSUME NEW i \in DOMAIN puts, Resume(puts[i].caller) PROVE LoneInv'
  <2>1. i \in 1..Len(puts)
    BY StorageFacts
  <2> QED  BY <1>2, <1>3, <1>5, <2>1
<1> QED  BY <1>2, <1>4, <1>5 DEF StorageStep

\* What the user does with a message leaves the inbox as it is.
LEMMA LoneEdits ==
  ASSUME IInv, LoneInv, NEW m \in Message, ToggleSave(m) \/ DeleteMessage(m) PROVE LoneInv'
<1>1. UNCHANGED <<page, call, closes, overlapped, ref, unshown, delivered>>
  BY DEF ToggleSave, DeleteMessage, Event, Edit, serverVars
<1>2. state \in AppState
  BY Facts DEF SoundFor
<1>3. state'.inbox = state.inbox
  BY <1>2 DEF ToggleSave, DeleteMessage, Edit, AppState
<1> QED  BY <1>1, <1>3, LoneQuiet

\* An answer or a revocation begins on the open page, and replaces nothing.
LEMMA LoneSubmit ==
  ASSUME IInv, LoneInv, NEW c \in Call,
         \/ \E m \in Message : SubmitAnswer(c, m)
         \/ \E s \in Sender : RevokeSender(c, s)
  PROVE  LoneInv'
<1>1. /\ UNCHANGED <<page, closes, overlapped, ref, unshown, delivered, state>>
      /\ page = "open" /\ call[c].pc = "idle"
  BY DEF SubmitAnswer, RevokeSender, Event, serverVars
<1>2. Idle \in CallType
  BY IdleType
<1> HIDE DEF Idle
<1>3. PICK q : /\ q \in CallType /\ q.pc \in {"answer", "revoke"}
               /\ call' = [call EXCEPT ![c] = q]
  <2>1. ASSUME NEW m \in Message, SubmitAnswer(c, m)
        PROVE  /\ [Idle EXCEPT !.pc = "answer", !.got = {m}] \in CallType
               /\ [Idle EXCEPT !.pc = "answer", !.got = {m}].pc = "answer"
               /\ call' = [call EXCEPT ![c] = [Idle EXCEPT !.pc = "answer", !.got = {m}]]
    BY <1>2, <2>1 DEF SubmitAnswer, CallType, Pc
  <2>2. ASSUME NEW s \in Sender, RevokeSender(c, s)
        PROVE  /\ [Idle EXCEPT !.pc = "revoke", !.about = {s}] \in CallType
               /\ [Idle EXCEPT !.pc = "revoke", !.about = {s}].pc = "revoke"
               /\ call' = [call EXCEPT ![c] = [Idle EXCEPT !.pc = "revoke", !.about = {s}]]
    BY <1>2, <2>2 DEF RevokeSender, CallType, Pc
  <2> QED  BY <2>1, <2>2
<1>4. q.pc \notin Replacing /\ q.pc # "report"
  BY <1>3 DEF Replacing
<1> QED  BY <1>1, <1>3, <1>4, LoneMove

\* The server has stored an answer or a revocation.
LEMMA LoneAnswered ==
  ASSUME IInv, LoneInv, NEW c \in Call, AnswerStored(c) \/ SenderRevoked(c)
  PROVE  LoneInv'
<1> DEFINE a == [call[c] EXCEPT !.pc = "answered"]
           r == [call[c] EXCEPT !.pc = "revoked"]
<1>1. call[c] \in CallType
  BY Facts
<1>2. /\ a \in CallType /\ a.pc = "answered" /\ r \in CallType /\ r.pc = "revoked"
      /\ a.pc \notin Replacing /\ r.pc \notin Replacing
  BY <1>1 DEF CallType, Pc, Replacing
<1>3. /\ call[c].pc \in {"answer", "revoke"}
      /\ UNCHANGED <<page, closes, overlapped, ref, unshown, delivered, state>>
      /\ call' = [call EXCEPT ![c] = a] \/ call' = [call EXCEPT ![c] = r]
  BY DEF AnswerStored, SenderRevoked, pageVars, history
<1> HIDE DEF a, r
<1> QED  BY <1>2, <1>3, LoneMove

\* What the server has stored is shown; the inbox stays as it is.
LEMMA LoneShow ==
  ASSUME IInv, LoneInv, NEW c \in Call,
         ShowAnswer(c) \/ ShowRevoked(c) \/ RequestFails(c) \/ FetchFails(c)
  PROVE  LoneInv'
<1>1. /\ Finish(c) /\ call[c].pc \notin {"idle", "report"}
      /\ UNCHANGED <<page, closes, overlapped, ref, unshown, delivered>>
  BY DEF ShowAnswer, ShowRevoked, RequestFails, FetchFails, Edit, pageVars, serverVars, history
<1>2. state \in AppState
  BY Facts DEF SoundFor
<1>3. state'.inbox = state.inbox
  BY <1>2 DEF ShowAnswer, ShowRevoked, RequestFails, FetchFails, Edit, AppState, pageVars
<1> QED  BY <1>1, <1>3, LoneEnd

-----------------------------------------------------------------------------
(* The theorem *)

\* At the start there is neither a page nor an operation.
LEMMA LoneFirst == Init => LoneInv
BY IdleIsDone DEF Init, LoneInv, TakesTurns, Replacing

\* Every step of a lone page lets its operations take turns.
LEMMA LoneStep == IInv /\ LoneInv /\ [Next]_vars => LoneInv'
<1> SUFFICES ASSUME IInv, LoneInv, [Next]_vars PROVE LoneInv'
  OBVIOUS
<1>1. CASE OpenPage \/ Render \/ StorageStep
  BY <1>1, LoneOpenPage, LoneRender, LoneStorageStep
<1>2. CASE Close
  BY <1>2 DEF Close, LoneInv, Lone, IInv, AppTypeOK
<1>3. ASSUME NEW m \in Message, ToggleSave(m) \/ DeleteMessage(m) PROVE LoneInv'
  BY <1>3, LoneEdits
<1>4. CASE \/ \E m \in Message : Accept(m)
           \/ \E s \in Sender : SenderPaired(s)
           \/ UNCHANGED vars
  <2>1. UNCHANGED <<page, call, closes, overlapped, ref, unshown, delivered, state>>
    BY <1>4 DEF Accept, SenderPaired, vars, pageVars, serverVars, history
  <2> QED  BY <2>1, LoneQuiet
<1>5. ASSUME NEW c \in Call,
             Wakeup(c) \/ FetchPending(c) \/ Store(c) \/ EndSync(c) \/ NotificationFails(c)
      PROVE  LoneInv'
  BY <1>5, LoneWakeup, LoneFetchPending, LoneStore, LoneEndSync, LoneNotificationFails
<1>6. ASSUME NEW c \in Call, AnswerStored(c) \/ SenderRevoked(c) PROVE LoneInv'
  BY <1>6, LoneAnswered
<1>7. ASSUME NEW c \in Call,
             ShowAnswer(c) \/ ShowRevoked(c) \/ RequestFails(c) \/ FetchFails(c)
      PROVE  LoneInv'
  BY <1>7, LoneShow
<1>8. ASSUME NEW c \in Call, NEW m \in Message, Report(c, m) PROVE LoneInv'
  BY <1>8, LoneReport
<1>9. ASSUME NEW c \in Call,
             \/ \E m \in Message : SubmitAnswer(c, m)
             \/ \E s \in Sender : RevokeSender(c, s)
      PROVE  LoneInv'
  BY <1>9, LoneSubmit
<1> QED
  BY <1>1, <1>2, <1>3, <1>4, <1>5, <1>6, <1>7, <1>8, <1>9 DEF Next

\* As long as only one operation at a time replaces the state of the first
\* page, it loses no message it has reported, however late the storage is and
\* whatever the user does meanwhile.
THEOREM LoneSyncSafe == Spec => []LoneSyncKeepsMessages
<1>1. IInv /\ LoneInv => LoneSyncKeepsMessages
  <2> SUFFICES ASSUME LoneInv, page = "open", Lone, NEW m \in delivered
               PROVE  m \in Held \cup unshown
    BY DEF LoneSyncKeepsMessages, Lone
  <2>1. TakesTurns
    BY DEF LoneInv
  <2>2. m \in state.inbox \cup unshown \/ \E c \in Call : call[c].pc = "report" /\ m \in call[c].got
    BY <2>1 DEF TakesTurns
  <2> QED  BY <2>2 DEF Held
<1> QED  BY <1>1, AppInvariance, LoneFirst, LoneStep, PTL DEF Spec
=============================================================================
