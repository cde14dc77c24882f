--------------------------- MODULE SealedExchange ---------------------------
(***************************************************************************)
(* A message on its whole way: typed in a terminal, sealed by the CLI for  *)
(* the devices of its recipient, checked and kept by the server, opened by *)
(* a phone, answered there, and the answer opened by the CLI that sent it. *)
(* The modules MessageServer, DeviceApp and SenderCli say when these steps *)
(* happen and how they fail; this one says what the envelopes carry, while *)
(* devices register and move between recipients.                           *)
(***************************************************************************)
EXTENDS CommandLine, FiniteSets, SequencesExt
INSTANCE Envelopes

CONSTANTS
    Device,        \* device ids, in the order of their texts: numbers
    Scripts,       \* the sequences of command lines that may be typed
    Given,         \* what a user may answer
    Sync,          \* the synchronisations there may be: a device and a number each
    MaxMoves, MaxAnswers   \* bounds of the model

ASSUME ExchangeAssumption ==
    /\ Device \subseteq Nat /\ IsFiniteSet(Device) /\ Sync \subseteq Device \X Nat
    /\ MaxMoves \in Nat /\ MaxAnswers \in Nat
    /\ \A draft \in Given : /\ draft.kind \in {"reply", "approval"}
                            /\ draft.kind = "reply" => draft.text # None

Line == UNION {Range(script) : script \in Scripts}

ASSUME LineAssumption == \A typed \in Line : typed # None /\ typed \in Seq(Range(typed))

Message == 1..Max({Len(s) : s \in Scripts})

VARIABLES
    recipient,   \* of each device: the sender's ("ours"), another, none before it registers
    moves,
    line,        \* what was typed
    sending,     \* the submission of each message, on its way
    targets,     \* the devices in the sender's own record of a message
    stored,      \* messageEnvelopes with their messageKeyWraps
    delivered,   \* the wraps that are marked delivered
    fetch,       \* of each synchronisation: how far it is, and the state it started from
    shown,       \* of each device: the messages it holds
    answers,     \* the answers given on devices, on their way
    responses,   \* responseEnvelopes of each message, in the order they are stored
    told         \* what the sender was told when it asked for the answer, of response 0 nothing

vars == <<recipient, moves, line, sending, targets, stored, delivered, fetch, shown,
          answers, responses, told>>

SenderId == "sender"
EncryptionKey(party) == <<"encryption key", party>>
SigningKey(party) == <<"signing key", party>>
Active == {d \in Device : recipient[d] = "ours"}

Empty == [m \in Message |-> None]
Quiet == [pc |-> "idle", listed |-> {}, reply |-> {}, held |-> Empty]
Done == [Quiet EXCEPT !.pc = "done"]
\* The device of a synchronisation.
Of(f) == f[1]

Init ==
    /\ recipient = [d \in Device |-> None] /\ moves = 0
    /\ line = [m \in Message |-> None]
    /\ sending = [m \in Message |-> [pc |-> "none"]]
    /\ targets = [m \in Message |-> <<>>]
    /\ stored = [m \in Message |-> None]
    /\ delivered = {}
    /\ fetch = [f \in Sync |-> Quiet]
    /\ shown = [d \in Device |-> Empty]
    /\ answers = <<>>
    /\ responses = [m \in Message |-> <<>>]
    /\ told = [m \in Message |-> [response |-> 0, devices |-> {}, result |-> None]]

-----------------------------------------------------------------------------
(* Devices *)

Register(d, r) ==
    /\ recipient[d] = None
    /\ recipient' = [recipient EXCEPT ![d] = r]
    /\ UNCHANGED <<moves, line, sending, targets, stored, delivered, fetch, shown, answers,
                   responses, told>>

\* A device that approves a session takes over the session's recipient.
Move(d) ==
    /\ recipient[d] # None
    /\ moves < MaxMoves
    /\ moves' = moves + 1
    /\ recipient' = [recipient EXCEPT ![d] = IF @ = "ours" THEN "other" ELSE "ours"]
    /\ UNCHANGED <<line, sending, targets, stored, delivered, fetch, shown, answers,
                   responses, told>>

-----------------------------------------------------------------------------
(* The sender and the server: sending *)

Type(m, typed) ==
    /\ line[m] = None
    /\ \E script \in Scripts : /\ m \in DOMAIN script /\ script[m] = typed
                               /\ \A k \in 1..(m - 1) : line[k] = script[k]
    /\ line' = [line EXCEPT ![m] = typed]
    /\ sending' = [sending EXCEPT ![m].pc = IF RunCli(typed) = None THEN "failed" ELSE "typed"]
    /\ UNCHANGED <<recipient, moves, targets, stored, delivered, fetch, shown, answers,
                   responses, told>>

Metadata(m, input) ==
    [messageId |-> m, recipientId |-> "ours", senderId |-> SenderId, mode |-> input.mode,
     createdAt |-> <<"created", m>>, expiresAt |-> <<"expires", m>>,
     idempotencyKey |-> input.idempotencyKey]

Plaintext(m, input) ==
    [title |-> input.title, body |-> input.body, sensitive |-> input.sensitive,
     mode |-> input.mode, createdAt |-> <<"created", m>>, request |-> RequestPlaintext(input)]

\* remoteSendMessage, up to its signature; the rows of devices have no order.
Envelope(m, input, devices) ==
    LET metadata == Metadata(m, input)
        sealed == SealContentForDevices(
                      Plaintext(m, input), MessageContentAad(metadata),
                      [i \in DOMAIN devices |-> [deviceId |-> devices[i],
                                                 publicKey |-> EncryptionKey(devices[i])]],
                      <<"message", m>>)
        unsigned == [metadata |-> metadata, ciphertext |-> sealed.ciphertext,
                     contentNonce |-> sealed.contentNonce,
                     contentAadHash |-> sealed.contentAadHash, keyWraps |-> sealed.keyWraps,
                     senderSignature |-> None]
    IN  [unsigned EXCEPT !.senderSignature = Sign(SigningKey(SenderId), MessageSigningText(unsigned))]

\* senderTargets answers, and the CLI seals for the devices it names; without one it stops.
SealForTargets(m) ==
    /\ sending[m].pc = "typed"
    /\ IF Active = {}
       THEN sending' = [sending EXCEPT ![m].pc = "failed"]
       ELSE \E devices \in SetToSeqs(Active) :
                sending' = [sending EXCEPT ![m] =
                    [pc |-> "submitted", envelope |-> Envelope(m, RunCli(line[m]), devices)]]
    /\ UNCHANGED <<recipient, moves, line, targets, stored, delivered, fetch, shown, answers,
                   responses, told>>

WrappedDevices(envelope) == {envelope.keyWraps[i].deviceId : i \in DOMAIN envelope.keyWraps}

\* assertKeyWrapScope: one wrap for each active device, and no other.
KeyWrapScope(envelope) ==
    /\ WrappedDevices(envelope) = Active
    /\ Len(envelope.keyWraps) = Cardinality(Active)

ContentAadHashMatches(envelope) ==
    envelope.contentAadHash = Hash(MessageContentAad(envelope.metadata))

MessageSignatureHolds(envelope, key) ==
    Verify(key, MessageSigningText(envelope), envelope.senderSignature)

\* createMessage, first half: the checks.
CheckMessage(m) ==
    LET envelope == sending[m].envelope
        accepted == /\ KeyWrapScope(envelope)
                    /\ ContentAadHashMatches(envelope)
                    /\ MessageSignatureHolds(envelope, SigningKey(SenderId))
    IN  /\ sending[m].pc = "submitted"
        /\ sending' = [sending EXCEPT ![m].pc = IF accepted THEN "checked" ELSE "failed"]
        /\ UNCHANGED <<recipient, moves, line, targets, stored, delivered, fetch, shown,
                       answers, responses, told>>

\* Second half: the rows.  The answer reaches the sender, and its record keeps the
\* devices; or it is lost, or another command writes over the record.
StoreMessage(m) ==
    /\ sending[m].pc = "checked"
    /\ stored' = [stored EXCEPT ![m] = sending[m].envelope]
    /\ sending' = [sending EXCEPT ![m] = [pc |-> "sent"]]
    /\ \E kept \in {<<>>, sending[m].envelope.keyWraps} :
           targets' = [targets EXCEPT ![m] = [i \in DOMAIN kept |-> kept[i].deviceId]]
    /\ UNCHANGED <<recipient, moves, line, delivered, fetch, shown, answers, responses, told>>

\* The retention job deletes an old message, and with it its wraps and its responses.
Prune(m) ==
    /\ stored[m] # None
    /\ stored' = [stored EXCEPT ![m] = None]
    /\ responses' = [responses EXCEPT ![m] = <<>>]
    /\ delivered' = {w \in delivered : w[2] # m}
    /\ UNCHANGED <<recipient, moves, line, sending, targets, fetch, shown, answers, told>>

-----------------------------------------------------------------------------
(* A device fetches, opens and shows *)

\* runPendingSync: what the app holds at this moment is what it will merge into.
StartSync(f) ==
    /\ fetch[f].pc = "idle"
    /\ recipient[Of(f)] # None
    /\ fetch' = [fetch EXCEPT ![f].pc = "started", ![f].held = shown[Of(f)]]
    /\ UNCHANGED <<recipient, moves, line, sending, targets, stored, delivered, shown,
                   answers, responses, told>>

\* pendingMessages, first query: the undelivered wraps of this device, and their messages.
\* A synchronisation that finds none changes nothing, and is left out.
ListPending(f) ==
    LET d == Of(f)
        listed == {m \in Message : /\ stored[m] # None
                                   /\ d \in WrappedDevices(stored[m])
                                   /\ <<d, m>> \notin delivered}
    IN  /\ fetch[f].pc = "started"
        /\ listed # {}
        /\ fetch' = [fetch EXCEPT ![f].pc = "listed",
                                  ![f].listed = {<<m, stored[m]>> : m \in listed}]
        /\ UNCHANGED <<recipient, moves, line, sending, targets, stored, delivered, shown,
                       answers, responses, told>>

OwnWrap(d, wraps) == wraps[SelectInSeq(wraps, LAMBDA wrap : wrap.deviceId = d)]

\* compareKeyWraps: by their texts, which begin with the device id.
Sorted(wraps) == ByDevice(wraps)

\* A message of the first query with the wraps of the second.
Pending(d, m, row, wraps) ==
    [messageId |-> m, metadata |-> row.metadata, ciphertext |-> row.ciphertext,
     contentNonce |-> row.contentNonce, contentAadHash |-> row.contentAadHash,
     senderSignature |-> row.senderSignature,
     keyWrap |-> OwnWrap(d, row.keyWraps), keyWraps |-> wraps,
     sender |-> [senderId |-> SenderId, signingPublicKey |-> SigningKey(SenderId)]]

\* Second query: all wraps of those messages, sorted; of a message that is gone by now
\* there is only the wrap of this device, from the first.
ReplyPending(f) ==
    LET d == Of(f)
        Wraps(m, row) == IF stored[m] = None THEN <<OwnWrap(d, row.keyWraps)>>
                         ELSE Sorted(stored[m].keyWraps)
    IN  /\ fetch[f].pc = "listed"
        /\ fetch' = [fetch EXCEPT ![f].pc = "replied", ![f].listed = {},
                ![f].reply = {Pending(d, l[1], l[2], Wraps(l[1], l[2])) : l \in fetch[f].listed}]
        /\ UNCHANGED <<recipient, moves, line, sending, targets, stored, delivered, shown,
                       answers, responses, told>>

RequestToLocal(request) ==
    IF request = None THEN None
    ELSE IF request.kind = "reply" THEN [prompt |-> request.prompt]
    ELSE [actionLabel |-> request.actionLabel, riskText |-> request.riskText]

\* The message as the app keeps it.
LocalMessage(m, metadata, plaintext) ==
    [id |-> m, senderId |-> metadata.senderId, mode |-> metadata.mode,
     title |-> plaintext.title, body |-> plaintext.body, sensitive |-> plaintext.sensitive,
     expiresAt |-> metadata.expiresAt, request |-> RequestToLocal(plaintext.request),
     answered |-> FALSE]

\* Nothing that is sent, or shown in the end, is the value that stands for nothing.
ASSUME NoneAssumption ==
    \A m \in Message, typed \in Line :
        LET input == RunCli(typed)
        IN  input # None =>
                /\ input.mode # "notify" => RequestPlaintext(input) # None
                /\ Plaintext(m, input) # None
                /\ LET local == LocalMessage(m, Metadata(m, input), Plaintext(m, input))
                   IN  local # None /\ [local EXCEPT !.answered = TRUE] # None

PendingKeyWraps(pending) == IF pending.keyWraps # <<>> THEN pending.keyWraps ELSE <<pending.keyWrap>>

\* decryptPendingMessage; None stands for an error.
Decrypted(d, pending) ==
    LET wraps == PendingKeyWraps(pending)
        plaintext == OpenContent(pending, OwnWrap(d, wraps), EncryptionKey(d),
                                 MessageContentAad(pending.metadata))
        signed == [pending EXCEPT !.keyWraps = wraps]
    IN  IF \/ ~MessageSignatureHolds(signed, pending.sender.signingPublicKey)
           \/ \A i \in DOMAIN wraps : wraps[i].deviceId # d
        THEN None
        ELSE IF plaintext = None THEN None
        ELSE IF plaintext.mode # pending.metadata.mode THEN None
        ELSE LocalMessage(pending.messageId, pending.metadata, plaintext)

\* fetchPendingMessages: one message that cannot be decoded, and there is none.
Fetched(f) ==
    LET decoded == {Decrypted(Of(f), p) : p \in fetch[f].reply}
    IN  IF None \in decoded THEN {} ELSE decoded

\* mergePending: a message that is held already stays as it is.
MergePending(held, decoded) ==
    [m \in Message |-> IF held[m] = None /\ \E fresh \in decoded : fresh.id = m
                       THEN CHOOSE fresh \in decoded : fresh.id = m
                       ELSE held[m]]

\* syncPendingState, up to the write: what is new is merged into what was held at first.
Merge(f) ==
    LET decoded == Fetched(f)
    IN  /\ fetch[f].pc = "replied"
        /\ fetch' = [fetch EXCEPT ![f] =
                IF decoded = {} THEN Done
                ELSE [pc |-> "merged", listed |-> {message.id : message \in decoded},
                      reply |-> {}, held |-> MergePending(@.held, decoded)]]
        /\ UNCHANGED <<recipient, moves, line, sending, targets, stored, delivered, shown,
                       answers, responses, told>>

\* markDelivered, of every message that was decoded; the server refuses a device that
\* has moved, or a message that is gone.
Mark(f, m) ==
    LET d == Of(f)
    IN  /\ fetch[f].pc = "merged"
        /\ m \in fetch[f].listed
        /\ delivered' = IF stored[m] # None /\ recipient[d] = "ours"
                        THEN delivered \cup {<<d, m>>} ELSE delivered
        /\ fetch' = [fetch EXCEPT ![f].listed = @ \ {m}]
        /\ UNCHANGED <<recipient, moves, line, sending, targets, stored, shown, answers,
                       responses, told>>

\* The state that was merged takes the place of the one there is by now, unless a
\* notification fails.
Show(f) ==
    /\ fetch[f].pc = "merged"
    /\ fetch[f].listed = {}
    /\ \E screen \in {fetch[f].held, shown[Of(f)]} : shown' = [shown EXCEPT ![Of(f)] = screen]
    /\ fetch' = [fetch EXCEPT ![f] = Done]
    /\ UNCHANGED <<recipient, moves, line, sending, targets, stored, delivered, answers,
                   responses, told>>

-----------------------------------------------------------------------------
(* A user answers, and the sender asks *)

KindOf == [notify |-> None, request_reply |-> "reply", request_approval |-> "approval"]

\* The forms of MessageDetail: a reply has a text, a decision may have a note.
Draft(mode) == {draft \in Given : draft.kind = KindOf[mode]}

ResponsePlaintext(m, draft) ==
    IF draft.kind = "reply"
    THEN [messageId |-> m, kind |-> "reply", body |-> draft.text]
    ELSE [messageId |-> m, kind |-> "approval", decision |-> draft.decision, note |-> draft.text]

\* packResponseCiphertext: the sealed content, and the wrap for the sender with it.
Packed(sealed) ==
    [ciphertext |-> sealed.ciphertext, contentNonce |-> sealed.contentNonce,
     contentAadHash |-> sealed.contentAadHash, senderKeyWrap |-> sealed.keyWraps[1]]

\* submitMessageResponse, up to its request; n numbers the answers.
ResponseEnvelope(d, n, message, draft) ==
    LET header == [responseId |-> n, messageId |-> message.id, kind |-> draft.kind,
                   expiresAt |-> message.expiresAt, ciphertext |-> None, contentNonce |-> None,
                   deviceSignature |-> None]
        sealed == SealContentForDevices(
                      ResponsePlaintext(message.id, draft), ResponseContentAad(header),
                      <<[deviceId |-> message.senderId, publicKey |-> EncryptionKey(message.senderId)]>>,
                      <<"response", n>>)
        unsigned == [header EXCEPT !.ciphertext = Packed(sealed),
                                   !.contentNonce = sealed.contentNonce]
    IN  [unsigned EXCEPT !.deviceSignature = Sign(SigningKey(d), ResponseSigningText(unsigned))]

\* The buttons stay there until an answer is shown: a second press is a second answer.
Answer(d, m, draft) ==
    LET n == Len(answers) + 1
    IN  /\ shown[d][m] # None
        /\ ~shown[d][m].answered
        /\ draft \in Draft(shown[d][m].mode)
        /\ n <= MaxAnswers
        /\ answers' = Append(answers, [device |-> d, draft |-> draft, pc |-> "submitted",
                                       envelope |-> ResponseEnvelope(d, n, shown[d][m], draft)])
        /\ UNCHANGED <<recipient, moves, line, sending, targets, stored, delivered, fetch, shown,
                       responses, told>>

ResponseSignatureHolds(envelope, key) ==
    Verify(key, ResponseSigningText(envelope), envelope.deviceSignature)

\* The state of a message is "responded" once an answer has gone through.
Responded(m) == \E k \in DOMAIN answers : /\ answers[k].envelope.messageId = m
                                          /\ answers[k].pc \in {"responded", "shown"}

\* submitResponse, the checks.
CheckResponse(n) ==
    LET d == answers[n].device
        envelope == answers[n].envelope
        m == envelope.messageId
        accepted ==
            /\ stored[m] # None
            /\ recipient[d] = "ours"
            /\ d \in WrappedDevices(stored[m])
            /\ ~Responded(m)
            /\ envelope.kind = KindOf[stored[m].metadata.mode]
            /\ ResponseSignatureHolds(envelope, SigningKey(d))
    IN  /\ answers[n].pc = "submitted"
        /\ answers' = [answers EXCEPT ![n].pc = IF accepted THEN "checked" ELSE "refused"]
        /\ UNCHANGED <<recipient, moves, line, sending, targets, stored, delivered, fetch, shown,
                       responses, told>>

\* The response is inserted, or an error is, when the message is gone.
StoreResponse(n) ==
    LET m == answers[n].envelope.messageId
    IN  /\ answers[n].pc = "checked"
        /\ IF stored[m] = None
           THEN answers' = [answers EXCEPT ![n].pc = "refused"] /\ UNCHANGED responses
           ELSE /\ answers' = [answers EXCEPT ![n].pc = "stored"]
                /\ responses' = [responses EXCEPT ![m] = Append(@, n)]
        /\ UNCHANGED <<recipient, moves, line, sending, targets, stored, delivered, fetch, shown,
                       told>>

\* Then the message has its new state; or the request ends here, and never gets there.
SetResponded(n) ==
    /\ answers[n].pc = "stored"
    /\ answers' = [answers EXCEPT ![n].pc = "responded"]
    /\ UNCHANGED <<recipient, moves, line, sending, targets, stored, delivered, fetch, shown,
                   responses, told>>

\* Mutant: an error is taken for success.
AnyReply(n) == answers[n].pc \in {"refused", "responded"}

\* The request went well, and its reply has come.
GoodReply(n) == answers[n].pc = "responded"

\* respond: what the app holds of the message becomes answered.  A reply may be lost.
ShowAnswer(n) ==
    LET d == answers[n].device
        m == answers[n].envelope.messageId
    IN  /\ GoodReply(n)
        /\ answers' = [answers EXCEPT ![n].pc = "shown"]
        /\ shown' = IF shown[d][m] = None THEN shown
                    ELSE [shown EXCEPT ![d][m].answered = TRUE]
        /\ UNCHANGED <<recipient, moves, line, sending, targets, stored, delivered, fetch,
                       responses, told>>

\* parseResponsePlaintext: the text of a reply is not empty.
ParsedPlaintext(plaintext) ==
    IF plaintext = None THEN None
    ELSE IF plaintext.kind = "reply" /\ plaintext.body = None THEN None
    ELSE plaintext

\* What decryptSenderResponse returns, None for an error; of the rows of the message
\* the server sends any one.
Opened(n, devices) ==
    LET response == answers[n].envelope
        packed == response.ciphertext
        plaintext == ParsedPlaintext(OpenContent(packed, packed.senderKeyWrap,
                                                 EncryptionKey(SenderId), ResponseContentAad(response)))
    IN  IF \/ answers[n].device \notin devices
           \/ ~ResponseSignatureHolds(response, SigningKey(answers[n].device))
           \/ packed.contentNonce # response.contentNonce
           \/ packed.senderKeyWrap.deviceId # SenderId
        THEN None
        ELSE IF plaintext = None THEN None
        ELSE IF plaintext.messageId # response.messageId \/ plaintext.kind # response.kind
        THEN None
        ELSE plaintext

\* Mutant: the server's devices, although the record has some.
DevicesNow(m) == Active

\* The devices of the record, or else those the server names now.
KnownDevices(m) == IF targets[m] # <<>> THEN Range(targets[m]) ELSE Active

\* withRemoteResponse
ReadResponse(m) ==
    /\ \E i \in DOMAIN responses[m] :
           told' = [told EXCEPT ![m] =
               [response |-> responses[m][i], devices |-> KnownDevices(m),
                result |-> Opened(responses[m][i], KnownDevices(m))]]
    /\ UNCHANGED <<recipient, moves, line, sending, targets, stored, delivered, fetch, shown,
                   answers, responses>>

Next ==
    \/ \E d \in Device : \/ \E r \in {"ours", "other"} : Register(d, r)
                         \/ Move(d)
                         \/ \E m \in Message, draft \in Given : Answer(d, m, draft)
    \/ \E f \in Sync : \/ StartSync(f) \/ ListPending(f) \/ ReplyPending(f) \/ Merge(f) \/ Show(f)
                       \/ \E m \in Message : Mark(f, m)
    \/ \E m \in Message : \/ \E script \in Scripts : m \in DOMAIN script /\ Type(m, script[m])
                          \/ SealForTargets(m) \/ CheckMessage(m) \/ StoreMessage(m)
                          \/ Prune(m) \/ ReadResponse(m)
    \/ \E n \in DOMAIN answers : \/ CheckResponse(n) \/ StoreResponse(n)
                                 \/ SetResponded(n) \/ ShowAnswer(n)

Spec == Init /\ [][Next]_vars

-----------------------------------------------------------------------------
(* Properties *)

\* Whatever the server lists for a device can be decoded there, although the device may
\* have registered or moved while the message was on its way, and the server puts the
\* wraps in an order of its own; so no message keeps the others of its reply from being
\* shown.  The exception is a message that is deleted between the two queries.
PendingDecodes ==
    \A f \in Sync : fetch[f].pc = "replied" =>
        \A p \in fetch[f].reply : stored[p.messageId] = None \/ Decrypted(Of(f), p) # None

\* A sender that kept its record of a message reads the answer as it was given,
\* wherever the device that gave it is now; without the record it reads it as long as
\* that device is still one of its recipient's, and else nothing.
AnswerComesBack ==
    \A m \in Message : told[m].response # 0 =>
        LET answer == answers[told[m].response]
        IN  \/ told[m].result = ResponsePlaintext(m, answer.draft)
            \/ /\ told[m].result = None
               /\ targets[m] = <<>>
               /\ answer.device \notin told[m].devices


-----------------------------------------------------------------------------
(* What people see of it, as module Conversation has it *)

\* The words of an input, of what a line says, and of what is on a screen.
WordsOf(input) ==
    [mode |-> input.mode, title |-> input.title, body |-> input.body,
     sensitive |-> input.sensitive, request |-> RequestToLocal(RequestPlaintext(input))]
Sayable == {typed \in Line : SaidInput(typed) # None}
LineWords == [typed \in Sayable |-> WordsOf(SaidInput(typed))]
AllWords == Range(LineWords)
Replies == {ResponsePlaintext(m, draft) : m \in Message, draft \in Given}
Seen(local) ==
    [says |-> [mode |-> local.mode, title |-> local.title, body |-> local.body,
               sensitive |-> local.sensitive, request |-> local.request],
     answered |-> local.answered]

Spoken == {m \in Message : line[m] \in Sayable}
OnScreen(d) == {m \in Message : shown[d][m] # None}
Asked == {m \in Message : told[m].response # 0}

StateOf == [submitted |-> "given", checked |-> "given", stored |-> "taken",
            responded |-> "taken", shown |-> "taken", refused |-> "refused"]
AsGiven(a) ==
    [by |-> a.device, to |-> a.envelope.messageId,
     reply |-> ResponsePlaintext(a.envelope.messageId, a.draft), state |-> StateOf[a.pc]]

SaidNow == [m \in Spoken |-> LineWords[line[m]]]
ScreenNow == [d \in Device |-> [m \in OnScreen(d) |-> Seen(shown[d][m])]]
GivenNow == [n \in DOMAIN answers |-> AsGiven(answers[n])]
HeardNow == [m \in Asked |-> [answer |-> told[m].response, reply |-> told[m].result]]

People == INSTANCE Conversation WITH
    Screen <- Device,
    Words <- AllWords,
    Reply <- Replies,
    said <- SaidNow, screen <- ScreenNow, given <- GivenNow, heard <- HeardNow

\* With all that lies between them, people converse as module Conversation says: a screen
\* shows what was said, as it was said, and as answered only what the server has taken an
\* answer to that was given there, although synchronisations that overlap put screens back;
\* an answer is of the kind that its message asks for; and one is heard only when it was
\* taken, as it was given.
IsAConversation == People!Conversing
=============================================================================
