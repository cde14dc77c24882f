# Agent Notifier in TLA+

Specifications of the Agent Notifier server, of the web app on the phone, of the CLI
and MCP server on the sender's side, and of the envelopes that pass between them:
TLA+ modules translated from the source, TLC configurations that check them on small
instances, and TLAPS proofs of the properties that matter most, for every instance.
Paths are relative to the repository; files without a directory are in
`apps/web/src/server` and `apps/web/src/server/services`.

## 1. The system

An agent (a *sender*) sends an end-to-end encrypted notification, reply request
or approval request to a person (a *recipient*), who reads and answers it on one
or more *devices*. The parts, the state they keep and how they interact:

| Part | State | Operations | Interacts by |
|---|---|---|---|
| Message delivery `message-service.ts`, `device-service.ts` | D1 tables `message_envelopes`, `message_key_wraps`, `response_envelopes`, `delivery_events`, `devices`, `senders` | createMessage, senderTargets, messageStatus, messageEvents, messageResponse, pendingMessages, markDelivered, submitResponse, revokeSender, registerDevice, updatePushSubscription | HTTP requests; one SQL statement at a time on shared tables |
| Retention job `retention-service.ts` | none of its own (a list and a time during a run) | runRetention, hourly | the same tables, concurrently with requests |
| Signed-request authentication `auth.ts` | `auth_nonces` | verifySenderRequest, verifyDeviceRequest | runs before each signed handler |
| Rate limiting `rate-limit-service.ts` | `rate_limit_buckets` | enforceRateLimits | runs before createMessage and the handlers that start or claim a pairing |
| Pairing `pairing-service.ts` | `pairing_sessions`, `recipients`, `recipient_emails` | startEmailPairing, startCodePairing, claimCodePairing, approvePairing, pairingStatus | sender CLI, device app; writes `senders` and `devices` |
| Push wakeups `push-service.ts` | none | sendPushWakeups | background task of createMessage |
| Device app `apps/web/src/lib/app-runtime.ts`, `state/useAppState.ts`, `lib/device-client.ts` | React state, a ref to it, the stored copy | pairing, synchronisation, answers, revocations, local edits | HTTP, the device storage, messages from the service worker |
| Device storage `apps/web/src/lib/storage.ts` | IndexedDB record, localStorage copy | readStoredState, writeStoredState | callbacks and a timeout |
| Service worker `apps/web/public/sw.js` | caches | push, notification click | postMessage to open windows |
| Sender CLI `packages/cli/src` | one JSON state file per user | setup, send, status, wait, revoke | HTTP; several processes share the file |
| MCP server `packages/mcp/src` | none | tools that call the CLI's functions | stdio, one request at a time |
| Protocol and crypto packages | none | canonical JSON, signing bytes, sealing, wrapping | called by both ends |
| User interface, setup email, plugin, release scripts | - | - | - |

What is hard here:

* D1 statements are atomic one by one and the code uses no transactions. Every
  `await` between two statements lets other requests and the retention job run,
  and a worker may be stopped there.
* Decisions are taken on rows read earlier: the state of a message in
  submitResponse, the recipient of a device in every device request, the list of
  expired messages in the retention job, the session in the pairing handlers.
* Deadlines, retention periods, windows and nonce lifetimes are different clocks
  that meet at boundaries.
* The device app reads a whole state, awaits, and puts a whole state back, next to
  functional updates, an effect that stores every render, and a storage that may
  be late, fail, and still carry out what it was thought to have lost. The CLI
  does the same with its file, in several processes.

What makes each part correct: the status a sender polls is backed by rows
(delivered by a confirmation, responded by a response); only devices the sender
wrapped the key for answer, with the kind that was asked for; one message per
idempotency key; the retention job removes only what is old enough, and
eventually all of it; a pairing session pairs one sender, with the recipient it
belongs to; a signed request takes effect once; a window never admits more than
its limit; a message a device has confirmed is stored on it; what the app shows
as answered or revoked is so on the server.

## 2. Modules

| Module | Models |
|---|---|
| `Delivery` | the message tables, the requests in flight and the handlers that write |
| `Retention` | the hourly job over the tables of `Delivery` |
| `MessageServer` | the composition of the two, its fairness, and the properties |
| `SenderView` | abstract: the life of a message as a polling sender may see it |
| `RequestGate` | authentication and rate limits of a request, and the sweeps of their tables |
| `Pairing` | pairing sessions by email and by code, and device registration |
| `DeviceStorage` | IndexedDB with its timeout, and the copy in localStorage |
| `DeviceApp` | the page on a registered phone over `DeviceStorage` |
| `DevicePairing` | the page of a phone that is being paired, with the sessions of the server |
| `SenderCli` | CLI processes and MCP servers over one state file |
| `CommandLine` | how the CLI reads a command that sends a message |
| `Envelopes` | what is signed, sealed and opened by both ends |
| `SealedExchange` | `CommandLine` and `Envelopes` composed: a message and its answer on their whole way |
| `Conversation` | abstract: what is said, seen on screens, answered and heard, with nothing between the people |
| `MC...` | finite instances for TLC |
| `..._proofs` | inductive invariants and theorems |

The modules meet where the code does. `MessageServer` and `Pairing` are the server
statement by statement; `DeviceApp`, `DevicePairing` and `SenderCli` are clients, each
with as much of the server as it can tell apart; `SealedExchange` leaves the ways of
failing to those and says what is in the envelopes.

In the server modules an action is one SQL statement with the checks around it,
and `req[r]` is a request in flight: its next statement (`pc`) and the local
variables it still needs. A statement that fails ends its request; the `Crash`
actions cut one off between two statements.

### Delivery, Retention, MessageServer

`envelope[m]` is the state column of the row of message `m` (`"none"` without a
row); `wraps[m]` and `confirmed[m]` are the devices with a key-wrap row and those
whose row has `deliveredAt`; `responses` and `events` are the rows of the two
other tables, each event with its time; `home[d]` is `devices.recipientId`;
`revoked` the senders with `revokedAt`. `cron` is a run of the retention job: its
next statement, the time `at` and list `expired` it read at its start, and the
message `cur` of its loop.

| Code | Actions |
|---|---|
| createMessage | ReadSender, ReadTargets (with assertKeyWrapScope), InsertEnvelope, InsertWraps, AddAcceptedEvent; then RecordPushAttempt per target, behind the answer |
| verifyDeviceRequest, as far as a handler depends on it | Authenticate |
| markDelivered | ReadDelivery, ConfirmWrap, AdvanceState |
| submitResponse | ReadMessage, ReadWrap, CheckResponse, InsertResponse, SetResponded, AddRespondedEvent |
| revokeSender | RevokeSender (its read cannot become stale: a sender never changes its recipient) |
| registerDevice, approvePairing | RegisterDevice, RehomeDevice (only what they do to `devices`) |
| runRetention | SelectExpired, MarkExpired, then per message DeleteWraps, DeleteResponses, AddExpiredEvent, then DropEnvelopes, TrimEvents |

`FKEnforced` says whether the database enforces the REFERENCES clauses of the
schema; the models are checked and proved for both, because the repository does
not settle it.

Abstracted: contents, keys and signatures (a submission that reaches
`createMessage` is one its sender signed); the two outcomes of a push attempt
are one event `push`, as nothing reads the outcome; columns that only record
times (`firstDeliveredAt`, `lastSeenAt`); two responses of one device to one
message are one row. `createdAt` is the sender's clock and taken to be the
current time; `expiresAt` is whatever the sender asked for, also beyond the queue
retention, since the code has no cap.

### RequestGate

`nonces` holds the rows of `auth_nonces` with their expiry, `count` and `updated`
the columns of `rate_limit_buckets` per bucket and start of window. A *call* is a
request as its client made it, with its signature or `Unsigned`; it may arrive
any number of times, also at the same time.

| Code | Actions |
|---|---|
| verifySenderRequest, verifyDeviceRequest | ReadSubject, CheckFresh (timestamp against the skew, before the body is read), RecordNonce (unique index) |
| enforceRateLimits | StartLimits (one clock reading for all buckets), Consume per bucket: the upsert whose update needs `count < maxAttempts` |
| runRetention, last two statements | StartSweep, SweepBuckets, SweepNonces |

`accepted` and `passed` count, as history, how often a call and how many requests
per window were let through. A bucket stands for a policy with a scope id: how ids
are derived from addresses, IPs and fingerprints is left out. That a signature is
valid is an assumption on the calls. Named assumptions: windows are whole
seconds, and the longest window plus `MaxDelay` fits the retention of buckets.
`MaxDelay` is the time a request may spend between reading the clock and its last
upsert; it is an assumption on the platform (a request ends within a day), without
which a counter could be deleted under a request.

### Pairing

`session[s]` is the row of `pairing_sessions` (secrets and codes are random and
identify their session), `emailOwner` the rows of `recipient_emails`, `senders`
the rows of `senders`. History: the session a sender came from, and the sender
that was on the phone's screen when its user approved (`shown`; the app stops
polling once it has a sender to show).

| Code | Actions |
|---|---|
| startEmailPairing, getOrCreateRecipientEmail | ReadEmail, InsertRecipient, InsertEmail (unique index), InsertEmailSession; the email goes out behind the row |
| startCodePairing | InsertCodeSession |
| claimCodePairing | ReadForClaim, WriteClaim |
| approvePairing | RequestApproval (authentication), ReadForApproval, MoveDevice, InsertSender, FinishSession |
| registerDevice | RegisterAlone or RegisterWithLink, InsertRecipient, InsertDevice |
| pairingStatus | the operator Status |

### DeviceStorage, DeviceApp

`idb` and `fallback` are the two stored copies; `puts` the writes whose caller
has not been answered, in order; `late` the puts whose caller was answered by the
900 ms timeout and that may still be carried out. A write ends for its caller when
the request of its put succeeds (`storage.ts:32`); its transaction, `txn`, commits
after that, or is aborted, and then nobody listens: the copy has been removed and the
record is what it was. That puts are carried out in the order of the calls
follows from the IndexedDB standard: all calls open the same database, and
overlapping readwrite transactions run in the order they were created. A read
prefers IndexedDB; when that is late it takes the copy in localStorage, or the
default state without one. `FallbackWorks` says whether localStorage takes what
it is given (the code ignores that it may not). `undone` remembers that the last
write was aborted behind the page's back, or failed next to an earlier one whose
success then removed its copy.

`state` is what React will render (updates that wait for a render included, with
`dirty`), `ref` is `stateRef.current`, `call[c]` an operation in flight with the
snapshot `base` it started from. The last variables of the server that a phone can
tell apart (`accepted`, `delivered`, `answers`, `paired`, `revokedSenders`) close
the model.

| Code | Actions |
|---|---|
| loading, the effects after a render | OpenPage, Render (store, stateRef, first synchronisation) |
| runPendingSync, syncPendingState, fetchPending | Wakeup, FetchPending, FetchFails, Store (with MergePending), Report per message in any order, EndSync; or NotificationFails |
| writeStoredState, readStoredState | WriteStoredState, PutSucceeds, Commit, Abort, PutTimesOut, PutFails, LatePutCommits, LatePutFails, ReadStoredState; StorageStep combines them with the caller |
| another phone of the recipient pairs a sender | SenderPaired (a ready phone is sent from the setup screen to its inbox, App.tsx:140) |
| submitReply, submitApproval; revokeSender | SubmitAnswer, AnswerStored, ShowAnswer; RevokeSender, SenderRevoked, ShowRevoked; RequestFails |
| toggleSave, deleteMessage | ToggleSave, DeleteMessage |
| the page is closed or reloaded | Close, at any await |

A notification that cannot be shown rejects the synchronisation after it has stored and
reported its messages and before it shows them (`app-runtime.ts:70-72`); `unshown` are the
messages that were kept off the page in this way, and `taken`, as history, those a store
of the phone has ever taken.

A state of the app is reduced to the fields the operations relate: the device,
senders and revoked senders, messages and which of them are saved, deleted and
answered.

### DevicePairing

The first pairing of a phone, from a setup link or with a code. `session[s]` is a row
of `pairing_sessions`, `home` the recipients of the devices this phone has registered,
`subscribed` those with a push subscription. Of the page there are React's state, the
ref, the stored copy, the link in the address bar, the session the polling effect
watches (`watched`) with the answers on their way to it (`checks`), and the approvals
in flight. Each identity that is generated is a new device number.

| Code | Actions |
|---|---|
| loading, effects, loadPairingLink | OpenPage, Render; the page is closed or reloaded: Close |
| getPairingStatus, applyPairingStatus, the polling effect | Check, CheckAnswered, with RestartPolling in Render |
| startPairing | StartPairing, CodeReady, StartFails |
| requestPushPermission; the effect that stores a subscription | RequestPush; PushStored, PushFails |
| finishPairing, completePairingState | Approve, ReadStatus, RegisterDevice, Approved, PushSynced, EndPairing, or PairingFails at any of them |
| claimCodePairing; a deadline; another phone | Claim; Expire; ApproveElsewhere |

A request that fails may have been carried out (the last disjuncts of PairingFails).
Registration and approval, which are several statements in `Pairing`, are one step
each here: what happens between their statements is checked there. Storage is a
single copy written at each render; a page that cannot read it in time starts from the
empty state (the second case of OpenPage) and writes that over it. `DeviceApp` has the
failures of writing.

### SenderCli

`file` is whether the state file is there, empty, garbled or whole, `stored` what was
last written whole, `proc[p]` the command a process runs: where it is, its copy of the
state, and what it waits for. A terminal runs commands, an MCP server takes one
request at a time. `sessions` and `accepted` are the server: pairing sessions with the
keys they were started with, and messages with their state.

| Code | Actions |
|---|---|
| readState, writeState | Open; BeginWrite (the file is truncated) and EndWrite |
| setupNotifier, startRemoteSetup | SetupLocal; Setup, StartRemoteSetup or SetupBlocked |
| getMessageStatus with a pair_ id, applyPairingResult | Status, Ask |
| sendMessage, refreshPairing, remoteSendMessage | SendUnconfigured; Send, Refresh, Post |
| waitForMessageState, remoteWait | WaitTool, Await, Poll, GiveUp |
| revokeSender | Revoke |
| runCli, handleSetup, handleSend; callTool, runStdioServer | RunCli, HandleSetup, HandleSend; CallTool, Serve |
| a request that throws, with or without effect; the process ends | RequestFails; Crash |

Two writers of the file may leave one text behind the other (`garbled`). Every setup
by code claims a code of its own: the second claim of one code is in `Pairing`.

### CommandLine, Envelopes, SealedExchange, Conversation

`CommandLine` is parseArgs as a fold over arguments that are reduced to what it tells
apart (a word, a flag, `--name=text`, ...), then handleSend and requestPlaintext. What a
line says as a whole (`SaidInput`: the last mention of each flag, the first word) is stated
next to it, as a reference. It keeps the rules of args.ts for what one mention gives:
a boolean flag with a value or before a word (`--non-sensitive=true`,
`--non-sensitive word`) does not count, and a text behind `=` is cut at its next `=`. A
flag's name is one model value, trimmed; an argument without a name (`--=text`) is
skipped like an empty one.
`Envelopes` has hashes, signatures and ciphertexts as the terms they are made of, and
objects as records, so that canonical JSON is the object and only arrays have an
order. `SealedExchange` follows a message: typed, sealed for the devices that
senderTargets names (SealForTargets), checked (CheckMessage: assertKeyWrapScope, the
hash, the signature), stored, listed and replied in two queries (ListPending,
ReplyPending), decrypted and merged (Merge), confirmed (Mark) and shown (Show); and its
answer: sealed and signed (Answer), checked, stored and made the state of the message
(CheckResponse, StoreResponse, SetResponded), shown on the phone once its reply has come,
if it comes (ShowAnswer), read by the sender with the device keys of its record or, without one, those the
server names (ReadResponse). Devices register and move, and the retention job deletes,
at any moment between these steps.

A synchronisation (`Sync` names them, each with its device, and each happens once) merges
into the state it found at its start (StartSync, `useAppState.ts:42-43`) and puts the
result in the place of the one there is in the end (Show). So a message shown by another
synchronisation meanwhile vanishes, and one that was answered meanwhile looks unanswered
again; a notification that fails leaves the screen as it is. Reloads of the page and its
storage are in `DeviceApp`.

`Conversation` is what all of it promises. It knows no device keys, envelopes, rows or
queries: a thing is said once (Say); a screen shows some of what was said, as it was said,
and as answered only what an answer was taken to that it gave (Show); it is answered in
the kind it asks for as long as that screen does not look answered (Give), the answer is
taken or refused (Take, Refuse), and whoever said it hears a taken answer as it was given,
or nothing (Hear). A screen may lose a thing or turn back to unanswered, as the phone's
does, and two answers to one question may be taken (submitResponse checks and stores in
several statements). The mapping (`SaidNow`, `ScreenNow`, `GivenNow`, `HeardNow`) takes
what is said from the typed line by
`SaidInput`, not from what was sealed; an answer that has passed the checks but is not stored
is still given. Registering, moving, sealing, sending, storing, listing, marking and
pruning are steps that nobody sees.

Everybody in it is honest, what is drawn at random is fresh, and the sender's keys do
not change. Deadlines are in `MessageServer`; a text is a model value, with one text
that contains an equals sign.

## 3. Runs

Every action of the modules fires in the passing runs. CHECK_DEADLOCK is off
everywhere because every instance may come to rest: the clock, or the number of
events, is bounded.

| Run | Instance | Shows |
|---|---|---|
| races | 2 devices, 2 requests, clock 0..1, references enforced | ResponsesFitTheirMessage, ConfirmedAdvances, SenderSeesView (refinement of SenderView) |
| retention | 1 device, 1 request, 2 recipients, a deadline later than the queue retention, 1 crash, clock 0..4, references not enforced | ServerTypeOK, RespondedHasResponse, DeliveredWasConfirmed, AcceptedIsDeliverable, OnlyRetiredAreDeleted |
| settle | 2 messages with one key, 1 request, 1 crash, clock 0..2, fairness, references enforced | OpenMessagesSettle |
| gate | a device request signed at time 3 and an unsigned route with two buckets (limits 2 and 1), window 4, skew 2, retention 5, MaxDelay 1, clock 0..6, 2 requests | GateTypeOK, LetThroughOnce, QuotaHolds, RetryReachesNextWindow |
| pairing | 2 sessions, 1 agent, 2 devices, 1 address, 2 requests, 1 crash, lifetime 1, clock 0..2 | PairingTypeOK, RecipientsExist, EmailPairsItsOwner, PairedNamesItsSender, StatusMovesForward |
| device | 2 messages of 2 senders, 2 operations in flight, the synchronisation at each opening plus 1 event, 1 closed page, 2 faults (a late or failed access, an aborted transaction, a failed notification) | AppTypeOK, TakenBeforeReported, ShownIsOnServer, QuietPageIsStored, LoneSyncKeepsMessages, SendersCoverInbox |
| onboard | 1 link, 1 code, 2 devices, 2 approvals in flight, 1 poll answer, 2 events (a lost request or answer, a closed page, a read that is late, a permission, an expiry, another phone, an overlapping approval), fairness | OnboardTypeOK, ReadyIsPaired, ApprovedAsShown, GrantedIsSubscribed, PairedKeysAreHeld, IdentityIsKept, SetupGoesOn |
| cli | a terminal and an MCP server, 1 content, window 2, timeout and interval 1, 4 commands one after the other or 3 that overlap, 1 failed request or ended process, clock 0..2, fairness | CliTypeOK, IdentityHasItsKeys, SuppressesDuplicates, NothingForgotten, GivesUpOnlyInVain, CommandsEnd |
| exchange | 5 scripts of command lines, one of them two messages; 2 devices, 2 synchronisations of the second, 1 move, 2 answers | PendingDecodes, AnswerComesBack, IsAConversation (refinement of Conversation) |
| queue | fairness, references enforced | QueueIsDeleted is violated |
| overlap | 1 event, no closed page and no fault | DeliveredIsKept is violated |
| stuck | the instance of onboard | AsksToApprove is violated |

Why the bounds are enough. Periods are counted in clock units; 0, 1 and 2 units put
every deadline, cutoff and read time before, at and after each other, which is all
the code compares; in `gate` the clock passes the expiry of the nonce and the
retention of a bucket. Two requests are enough for every race between statements
of two handlers; `retention` has one request next to the job, since there the race
is between these two. `settle` has one request, so that its liveness is checked
with crashes and failing statements. No property repeats that two messages of a sender
have different keys: a unique index alone ensures it, and it is the guard KeyIsFree.
In `device` the first synchronisation and one event are two overlapping operations,
and two faults are enough for each way of failing to meet them and another one. In
`onboard` two events are one disturbance and what is tried after it; two approvals or
two sessions on one page are what its races are between. In `cli`
two processes are enough for one to write over the other, and three overlapping
commands for a third to find what they left; the bound of the clock does not stop it
under a wait. In `exchange` two devices have an order, and one move puts
each of them on either side of a message; the second device synchronises, and answers,
and its two synchronisations overlap or have an answer between them, while the first
is there for its wraps. Two answers are enough for two stored responses, and for a second
answer to a message that looks unanswered again. What is proved (section 4) holds without
any of these bounds.

The state properties of the message server end with `Retired` or `Outdated`: they
are promises up to the retention periods, after which the job takes a message
apart. LetThroughOnce ends with the freshness of the timestamp, after which the
nonce may be pruned and the timestamp refuses the call. LoneSyncKeepsMessages is
the promise the code can keep: as long as operations that replace the state do not
overlap; `overlap` shows what happens when they do. In the same way NothingForgotten
and SuppressesDuplicates speak of commands that do not overlap, IdentityHasItsKeys of
a file in which each session's status was asked by the sender that started it, and
IdentityIsKept, PairedKeysAreHeld and GrantedIsSubscribed of approvals that do not
overlap; ConfirmedAdvances of requests that are not cut off, QuietPageIsStored of a last
write that was not undone, LoneSyncKeepsMessages and QuietPageIsStored not of messages
whose notification failed, IdentityIsKept not of the first render of a page that could
not read what is stored. Without these conditions the code breaks them. In
TakenBeforeReported IndexedDB has taken what its request has reported as put: a
transaction that is aborted after that leaves a reported message in no store.

Fairness. Message server: weak fairness of `Tick` and of `CronStep`; time passes, the
platform starts the job every hour (`triggers.crons` of the worker) and a started
statement ends. Nothing is assumed of senders, devices or requests: they may stop for
ever. `DevicePairing`: React renders, the timer of the polling effect goes on, and a
request under way is answered or fails; no user has to do anything. `SenderCli`: a
process that was started goes on, and time passes. The synchronisation of a paired app
has no retry, so nothing eventual is promised of it.

### Disagreements with the documents

Each violation run checks one sentence of the documents against the code; the
entry in PROJECT.json quotes it.

* `queue`: an envelope that still has rows referring to it (it always has its
  events) makes the job's DELETE fail, at every run, where references are
  enforced. Where they are not, the statement succeeds (run `retention`).
* `overlap`: of two overlapping synchronisations the later result replaces the
  state and the stored copy with one that never had the message the other has
  reported; the server does not offer it again.
* `stuck`: a page that is closed during an approval comes back with the stored status
  `approving` and nothing that would end it: it is not polled, the same link does
  not replace it, and the button is disabled.

Noticed while translating, without a run of their own. Server:

* Two devices that both read a message before either answers both have their response
  stored (`message-service.ts:133`; `docs/product-spec.md:1165`).
* A confirmation is two statements (`device-service.ts:164`, `:168`): cut off or
  overtaken by the job between them, a message a device holds ends as `expired`
  (`docs/product-spec.md:124`).
* Two approvals of one session that both read it first store two senders
  (`pairing-service.ts:144`; `docs/product-spec.md:234`).
* A second claim that read the session before the first replaces the sender on the
  screen of the phone, which is then approved (`pairing-service.ts:118`;
  `docs/product-spec.md:235`).
* A response that was checked in time may overwrite `expired`
  (`message-service.ts:159`; `docs/product-spec.md:1197`). SenderView allows it.
* No cap on a request's deadline (`message-service.ts:50`;
  `docs/product-spec.md:319`).
* A session approved in time reads as expired when polled after its deadline
  (`pairing-service.ts:202`; `docs/product-spec.md:228`). StatusMovesForward allows it.
* The update that moves a device to the session's recipient is conditional and its
  effect is not looked at (`pairing-service.ts:163`): the sender is paired although the
  device is elsewhere, and may have nothing to send to (`docs/product-spec.md:198`).
* A read that is late when the page opens takes the missing copy for the state, and
  the first render stores the default state over the phone's identity
  (`storage.ts:52`, `useAppState.ts:53`).
* A write is taken for done before its transaction commits (`storage.ts:32`); when it is
  aborted, its message was reported and is stored nowhere (`docs/product-spec.md:1148`).
* A notification that cannot be shown ends a synchronisation whose messages are stored
  and reported, and the next render writes the state without them over the record
  (`lib/app-runtime.ts:70`, `useAppState.ts:43`; `docs/product-spec.md:1148`).
* After a write that failed, the newer copy in localStorage is not preferred to the
  older record in IndexedDB at the next start (`storage.ts:44-60`).
* Of the buckets of a route the first ones stay charged when a later one refuses
  (`rate-limit-service.ts:69`).
* A message that is deleted between the two queries of pendingMessages comes with the
  device's own wrap only, fails its signature, and hides the rest of that reply once
  (`device-service.ts:102`, `lib/device-client.ts:94`).

Phone:

* A local edit made during a synchronisation is overwritten by its result
  (`useAppState.ts:46`).
* mergeSenders takes the server's copy for a known sender, with the default preview
  policy (`lib/app-runtime.ts:140`, `lib/device-client.ts:173`).
* A ready phone is sent away from the setup screen and can approve no further sender
  (`App.tsx:140`; `docs/product-spec.md:226`).
* An approval whose answer is lost, or a later request of which fails, leaves a session
  that is approved and keys that are dropped; the next try says "Waiting for sender
  details." (`lib/app-runtime.ts:23`, `docs/product-spec.md:224`).
* An error of an earlier approval is shown on a later pairing (`useAppState.ts:38`), and a
  poll answer that is late enables the button during an approval.
* The dependencies of the polling effect omit the secret (`useAppState.ts:117`): a link
  opened without and then with its secret goes on being polled without it.
* A first pairing starts two synchronisations that overlap (`useAppState.ts:36`, `:66`).

Sender:

* Duplicate suppression (`docs/product-spec.md:637`) does not see a message of a command
  that overlaps, or one whose answer was lost (`store.ts:67`).
* A wait for a state that is not final can miss it between two polls and run to its
  timeout (`remote.ts:121`, `tools.ts:186`).
* `status pair_X` of a session another sender started gives the first active sender an
  id whose keys it does not have (`client.ts:155`; `docs/cli-mcp.md:103`).
* Two writers, or one that is cut off, leave a state file no command can parse
  (`store.ts:39`).
* An invalid `--wait-for` or `--timeout` is rejected after the message was sent
  (`commands.ts:86`).
* `--name=a=b` is cut at the second equals sign (`args.ts:25`), and a word behind a boolean
  flag is taken as its value, so that `--non-sensitive word` leaves the message
  sensitive (`args.ts:36`).

## 4. Proofs

All theorems are proved from the named assumptions on the constants, which state
their types, that absent values are no values, in RequestGate the two relations of
periods above, and in SealedExchange that a line is a sequence. No bound of a run is used.

`MessageServer_proofs`, for both values of `FKEnforced`: `TypeCorrect`,
`RespondedSafe`, `ResponsesSafe`, `DeliveredSafe`, `AcceptedSafe`, `ConfirmedSafe`
(the state invariants of the runs), `DeletionSafe` (OnlyRetiredAreDeleted) and
`ViewRefined` (MessageServer implements SenderView). The state invariants are not
inductive: what makes `responded` imply a response is that the request about to
write it has stored one, and that nobody has taken it away. `RequestInv(r)` says,
for each statement a request may be about to run, what it relies on; `CronInv` that
the job only holds retired messages; `IInv` is their conjunction with the
invariants. The frame is `Keeps(m)`: no step takes a row from a message that is not
retired, and age only grows; handlers only add (`Grows`), the job deletes only what
it selected. With it a waiting request keeps what it relies on (`RequestKept`), and
each state property is disturbed by a single action (`StateSteps`, `ResponseSteps`,
`EventSteps`). ConfirmedAdvances has a part of its own behind it: as long as no request is
cut off, the request that confirmed a wrap is the one whose next statement advances the
state, and no other step makes a state `accepted` again.

`RequestGate_proofs`: `GateTypes`, `QuotaSafe`, `OnceSafe`, `RetrySafe`. The
strengthening for the quota relates the history to the counter: a window whose
counter has been deleted is so old that no request can still count in it, which is
where `MaxDelay` is needed; otherwise the counter is what has passed. For
LetThroughOnce: a call that was let through has its nonce stored as long as its
timestamp can be fresh, because the job compares with a time read earlier.
`RetrySafe` is arithmetic over windows.

`Pairing_proofs`: `PairingTypes`, `RecipientsSafe`, `EmailOwnerSafe`, `PairedSafe`,
`StatusForward` (StatusMovesForward).
The invariant says for each statement of a pairing request what it has read that
stays true: recipients and address owners are never taken away, a session's kind
and address never change, a session with an address keeps its recipient, and a
sender that was inserted stays. For `StatusForward` no step takes a session back: it
stays and keeps its deadline, a claim and an approval stay, and the clock only
advances (`StepForward`); the rank of the status never falls with them (`RankForward`).

`DeviceApp_proofs`: `AppTypes`, `ReportSafe` (TakenBeforeReported), `ShownSafe`
(ShownIsOnServer), `SendersSafe` (SendersCoverInbox), `QuietSafe` (QuietPageIsStored).
Every copy of the state, on the page, in an operation or anywhere in the storage, is
sound (`Sound`); a write whose caller waits belongs to exactly one operation and
contains what that one will report (`PutsAwaited`); the last write under way, or
else what is stored, is the state that was rendered (`LastWriteIsState`), unless it was
undone or a notification kept messages off the page. Steps that
leave the storage alone share one lemma (`AsideInv`), the storage's own steps another
(`FrameInv`).

Its last part is `LoneSyncSafe` (LoneSyncKeepsMessages). On the first page,
without overlaps, one operation at most replaces the state, it started from the inbox the
page still shows, and a reported message is in that inbox, in what the operation got, or
among those whose notification failed (`TakesTurns`); a wakeup during an operation is an overlap, and edits leave the inbox
as it is. Every operation that moves on shares one lemma (`LoneMove`).

`SenderCli_proofs`: `CliTypes`, `IdentitySafe` (IdentityHasItsKeys), `ForgetsNothing`
(NothingForgotten), `GivesUpRightly` (GivesUpOnlyInVain). Types are not enough alone:
`CommandFits` says what each command has found by its next step (a sender to act for, a
message to wait for). The keys of a sender are those of its session in every copy of the
file, as long as nobody asked for another's session (`KeyInv`); a command that is alone
holds all that is stored (`LoneInv`), and what it prepares takes nothing back
(`Extends`); a wait polls within an interval of the clock, and an answer it has not seen
by its deadline came after its last poll (`WaitInv`).

`SenderCliDuplicates_proofs`: `SendsOnce` (SuppressesDuplicates). In every copy of the
file a key pair is one sender's (`Distinct`), so that a sender that has just got its id
has sent nothing under it; without overlaps and failures the file has the record of
every accepted message, or a command is about to write it (`CalmInv`).

`DevicePairing_proofs`: `OnboardTypes`, `ReadySafe` (ReadyIsPaired), `ApprovalShownSafe`
(ApprovedAsShown), `GrantedSafe` (GrantedIsSubscribed), `KeysHeld` (PairedKeysAreHeld),
`IdentityKept` (IdentityIsKept). Every session the page has from anywhere was started
(`StartedInv`); an approval knows at each request what it has registered and approved
(`OpInv`), so that the snapshot it ends with is paired (`Paired`); an approval that met no
other runs on a phone that is not paired yet (`AloneInv`), which is why it takes no identity
and no subscription from it. The tables only grow (`RowsGrow`), so these facts stay; the
steps that touch neither identity nor approvals share one lemma (`QuietKeeps`), the
requests of an approval another (`AdvanceKeeps`). Sessions and approvals are assumed
finite, because bounds of the model count them.

`SealedExchange_proofs`, for command lines of any length and any finite set of devices:
`FlagsAreSaid`, `LineIsSaid`, `ExchangeInvariant`, `ShownAsSaid` (every screen shows
what the typed line says, by `SaidInput`), `PendingSafe` (PendingDecodes), `AnswersComeBack`
(AnswerComesBack) and `ConversationRefined` (IsAConversation). It has four parts.

* Reading. Turn by turn the loop of parseArgs has read what the line up to there says
  (`ReadTo`, kept by `TurnReads`): the flags it has set are those mentioned so far, with
  what their last mention gives them, and the command has the words met so far. That every
  line is read is shown by the least turn at which it would not be. So the input that
  is sealed is `SaidInput` of the line.
* Boxes. What is sealed for a list of devices is opened with the wrap of any of them
  (`SealedOpens`), both ends deriving one wrapping key (`WrapKeysAgree`). Wraps can always be
  put in the order of their devices (`OrderExists`), and one that puts them in order
  again finds the same text (`ByDeviceOrders`): this is why the signature still holds of what
  the server has sorted (`SortedShows`), and why nothing is claimed of a reply with the
  device's own wrap only (`OwnShows`).
* Steps. What was typed stays, a message that was sent stays sent with its record, and its
  row stays or goes for good (`Kept`); answers stay what they are (`AnswersGrow`).
  The properties alone are not inductive: the invariant says that whatever is submitted,
  stored or listed is an envelope of the typed line (`SendingInv`, `StoredInv`, `Listed`),
  that a reply decodes to it, or its row is gone (`Replied`), that an answer is made of what
  its device shows and, once checked, its device is in the sender's record (`AnswerInv`),
  and what the sender was told stays true (`ToldInv`).
* People. Each step that somebody sees is one of Conversation (`TypeIsSay`, `ScreenIsShow`,
  `AnswerIsGive`, `CheckIsSeen`, `StoreIsSeen`, `ReadIsHear`), and every other leaves what is
  mapped as it was (`NothingSeen`). The invariant is needed throughout: whatever copy of
  its messages a synchronisation holds or a screen shows is of what was said, and answered
  only where a taken answer of that device backs it (`Backed`), which no later step takes
  back (`BackedKept`); so a copy that is put back is still one a screen may show.

Each inductive invariant was checked with TLC on the instances above first.

Only model-checked:

* OpenMessagesSettle, CommandsEnd and SetupGoesOn: liveness under fairness is out of the
  prover's reach.
* The violated properties of the runs `queue`, `overlap` and `stuck`, which are refuted.

## 5. What could follow

1. Several windows of one phone over one storage, should the code come to coordinate them.
2. `RequestGate` in front of the handlers of `Delivery`: a repeated signed answer has no
   second effect.

## 6. Not modelled, and why

* Setup email, Codex plugin, release and repository scripts: one outgoing call with its
  templates, instructions, and programs run by hand. None keeps state of the protocol.
* User interface: what the setup screen and the answer form let a user do is in the guards
  of `DevicePairing`, `DeviceApp` and `SealedExchange`; rendering, wording and navigation
  are left out, except where App.tsx sends a ready phone away from the setup screen.
* Settings nothing else reads (retention days, device name, preview policies),
  and the commands and tools that only list what is stored.
* Routes and schemas: what they enforce is part of the first action of each handler;
  parsing of bodies, error texts and the OpenAPI document are left out.
* Push: the payload, VAPID and the exchange with the push service. A device that gets no
  wakeup finds its messages when it opens; nothing else depends on them.
* Encodings: a canonical text or a base64 string is the value it stands for; only the
  order of arrays and the absence of fields are kept.
* Cryptography is taken to be sound: who has the key opens, a signature or hash fits only
  what it was made of, random ids and secrets differ.
* Several windows of one phone: the code has nothing that coordinates them; each is a
  page as in `DeviceApp`, but writes over a storage it does not have to itself.
