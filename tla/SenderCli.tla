------------------------------ MODULE SenderCli ------------------------------
(***************************************************************************)
(* The sender's side (packages/cli, packages/mcp): processes that share    *)
(* one JSON file.  Every command reads the whole file, works on the copy   *)
(* across its requests to the server, and writes the whole copy back,      *)
(* once or more; fs.writeFile empties the file before it fills it.         *)
(* Of the server there is what these commands can tell apart: pairing      *)
(* sessions, whose number is also the number of the sender they create,    *)
(* and the messages it accepted, each with the state a poll would see.     *)
(***************************************************************************)
EXTENDS Naturals, Sequences

CONSTANTS
    Terminal,      \* processes that run CLI commands, one after the other
    ToolServer,    \* MCP servers: one request at a time
    Content,       \* what a message says: the hash localDedupeKey takes of it
    Window,        \* DUPLICATE_WINDOW_MS, in clock units
    Timeout, Interval,   \* of a wait
    Wanted,        \* the delivery states that are waited for
    MaxCommands,   \* bounds of the model: commands one after the other,
    MaxMixed,      \* commands some of which overlap,
    MaxClock, MaxFaults

DeliveryState == {"accepted", "delivered", "responded", "expired"}

ASSUME CliAssumption ==
    /\ Window \in Nat /\ Timeout \in Nat /\ Interval \in Nat \ {0}
    /\ MaxClock \in Nat /\ MaxFaults \in Nat /\ MaxCommands \in Nat /\ MaxMixed \in 0..MaxCommands
    /\ Terminal \cap ToolServer = {} /\ Wanted \subseteq DeliveryState

Process == Terminal \cup ToolServer

VARIABLES
    file,       \* whether the state file exists and can be parsed
    stored,     \* the state that was last written whole
    proc,       \* the command each process runs, with its copy of the state
    sessions,   \* pairing sessions: the keys of the sender that started each
    accepted,   \* messages the server accepted
    clock,
    made,       \* key pairs generated so far
    started, faults,   \* commands started; requests and processes that failed
    lone,       \* history: no two commands have overlapped
    own         \* history: each status was asked by the sender that started the session

server == <<sessions, accepted>>
vars == <<file, proc, server, clock, made, started, faults, lone, own, stored>>

\* 0 stands for a server id, session or key pair that is not there yet (snd_local...).
Sender == [id : Nat, keys : Nat, session : Nat, revoked : BOOLEAN]
StoredState == [api : BOOLEAN, senders : Seq(Sender), messages : SUBSET Nat]
FileKind == {"none", "empty", "garbled", "whole"}
Pc == {"idle", "write", "writing", "start", "refresh", "post", "ask", "await", "poll"}
Command ==
    [pc : Pc, next : Pc, state : StoredState, me : Nat, content : Content \cup {"none"},
     at : Nat, session : Nat, message : Nat, want : DeliveryState \cup {"none"},
     remote : BOOLEAN, until : Nat, wake : Nat]
SessionRow == [keys : Nat, status : {"pending", "paired", "expired"}]
MessageRow == [sender : Nat, content : Content, at : Nat, state : DeliveryState, since : Nat]

NewSender == [id |-> 0, keys |-> 0, session |-> 0, revoked |-> FALSE]
DefaultState == [api |-> FALSE, senders |-> <<>>, messages |-> {}]
Idle == [pc |-> "idle", next |-> "idle", state |-> DefaultState, me |-> 0, content |-> "none",
         at |-> 0, session |-> 0, message |-> 0, want |-> "none", remote |-> FALSE,
         until |-> 0, wake |-> 0]

Init ==
    /\ file = "none" /\ stored = DefaultState
    /\ proc = [p \in Process |-> Idle]
    /\ sessions = <<>> /\ accepted = <<>>
    /\ clock = 0 /\ made = 0 /\ started = 0 /\ faults = 0
    /\ lone = TRUE /\ own = TRUE

-----------------------------------------------------------------------------
(* Reading and writing the file *)

\* readState: no file is the default state; a text that cannot be parsed throws.
Readable == file \in {"none", "whole"}

\* The index of the first sender that is not revoked, 0 without one.
Active(st) ==
    IF \E i \in DOMAIN st.senders : ~st.senders[i].revoked
    THEN CHOOSE i \in DOMAIN st.senders :
            /\ ~st.senders[i].revoked
            /\ \A j \in DOMAIN st.senders : ~st.senders[j].revoked => i <= j
    ELSE 0

\* Mutant: the senders that are stored are not looked at.
AlwaysNewSender(st) == [st EXCEPT !.senders = <<NewSender>>]

EnsureSender(st) ==
    IF Active(st) # 0 THEN st ELSE [st EXCEPT !.senders = Append(@, NewSender)]

\* ensureSenderIdentity: keys are made once per sender record.
EnsureIdentity(st) ==
    LET i == Active(st)
    IN  IF st.senders[i].keys # 0 THEN st ELSE [st EXCEPT !.senders[i].keys = made + 1]

\* A process starts a command; one that cannot read the file, or that finds nothing
\* to do (an unknown id, a suppressed duplicate), ends with no effect.
Open(p, command) ==
    /\ proc[p].pc = "idle"
    /\ Readable
    /\ started' = started + 1
    /\ lone' = (lone /\ \A q \in Process : proc[q].pc = "idle")
    /\ started < IF lone' THEN MaxCommands ELSE MaxMixed
    /\ proc' = [proc EXCEPT ![p] = command]

Finish(p) == proc' = [proc EXCEPT ![p] = Idle]
Save(p, st, then) ==
    proc' = [proc EXCEPT ![p] = [@ EXCEPT !.pc = "write", !.next = then, !.state = st]]

\* writeState, first half: the file is opened and truncated.
BeginWrite(p) ==
    /\ proc[p].pc = "write"
    /\ file' = "empty"
    /\ proc' = [proc EXCEPT ![p].pc = "writing"]
    /\ UNCHANGED <<server, clock, made, started, faults, lone, own, stored>>

\* Second half: the text goes over whatever another process wrote since then, and the
\* end of a longer text stays behind it.
EndWrite(p) ==
    /\ proc[p].pc = "writing"
    /\ \/ file' = "whole" /\ stored' = proc[p].state
       \/ file # "empty" /\ file' = "garbled" /\ UNCHANGED stored
    /\ proc' = [proc EXCEPT ![p] =
          IF proc[p].next = "idle" THEN Idle ELSE [@ EXCEPT !.pc = proc[p].next, !.next = "idle"]]
    /\ UNCHANGED <<server, clock, made, started, faults, lone, own>>

-----------------------------------------------------------------------------
(* setupNotifier *)

SetupLocal(p) ==
    /\ Open(p, [Idle EXCEPT !.pc = "write", !.state = EnsureSender(stored)])
    /\ UNCHANGED <<file, server, clock, made, faults, own, stored>>

\* With the server's address: the sender and its keys are written before the request.
Setup(p) ==
    LET st == EnsureIdentity([EnsureSender(stored) EXCEPT !.api = TRUE]) IN
    /\ Open(p, [Idle EXCEPT !.pc = "write", !.next = "start", !.state = st, !.me = Active(st)])
    /\ made' = IF st = [EnsureSender(stored) EXCEPT !.api = TRUE] THEN made ELSE made + 1
    /\ UNCHANGED <<file, server, clock, faults, own, stored>>

Started(p) == Append(sessions, [keys |-> proc[p].state.senders[proc[p].me].keys, status |-> "pending"])

\* Mutant: the session goes to whichever sender the file has by now.
MergeSession(p) ==
    /\ proc[p].pc = "start"
    /\ Readable /\ Active(stored) # 0
    /\ sessions' = Started(p)
    /\ Save(p, [stored EXCEPT !.senders[Active(stored)].session = Len(sessions) + 1], "idle")
    /\ UNCHANGED <<file, accepted, clock, made, started, faults, lone, own, stored>>

\* startRemoteSetup: a setup email, or the claim of a code with its secret.  A code is
\* claimed once here; that its second claim is refused is Pairing's.
StartRemoteSetup(p) ==
    /\ proc[p].pc = "start"
    /\ sessions' = Started(p)
    /\ Save(p, [proc[p].state EXCEPT !.senders[proc[p].me].session = Len(sessions) + 1], "idle")
    /\ UNCHANGED <<file, accepted, clock, made, started, faults, lone, own, stored>>

\* liveBlocked: a code without its secret, as the MCP tool always sends it.
SetupBlocked(p) ==
    /\ proc[p].pc = "start"
    /\ Save(p, proc[p].state, "idle")
    /\ UNCHANGED <<file, server, clock, made, started, faults, lone, own, stored>>

\* What remotePairingStatus tells of a session: its sender, once it is paired.
Told(s) == IF sessions[s].status = "paired" THEN s ELSE 0

ApplyPairing(st, i, s) == IF Told(s) = 0 THEN st ELSE [st EXCEPT !.senders[i].id = s]

\* getMessageStatus with a pair_ id: applied to the first active sender, whichever
\* sender started the session.
Status(p, s) ==
    LET me == Active(stored) IN
    /\ stored.api
    /\ Open(p, [Idle EXCEPT !.pc = "ask", !.state = stored, !.me = me, !.session = s])
    /\ own' = (own /\ (me # 0 => stored.senders[me].session = s))
    /\ UNCHANGED <<file, server, clock, made, faults, stored>>

Ask(p) ==
    /\ proc[p].pc = "ask"
    /\ IF proc[p].me = 0
       THEN Finish(p)
       ELSE Save(p, ApplyPairing(proc[p].state, proc[p].me, proc[p].session), "idle")
    /\ UNCHANGED <<file, server, clock, made, started, faults, lone, own, stored>>

\* revokeSender: only the local record is marked.
Revoke(p, i) ==
    /\ i \in DOMAIN stored.senders
    /\ Open(p, [Idle EXCEPT !.pc = "write",
                            !.state = [stored EXCEPT !.senders[i].revoked = TRUE]])
    /\ UNCHANGED <<file, server, clock, made, faults, own, stored>>

-----------------------------------------------------------------------------
(* sendMessage *)

\* Mutant: only the current instant is looked at.
HasDuplicateNow(st, i, c) ==
    \E m \in st.messages : /\ accepted[m].sender = st.senders[i].id
                           /\ accepted[m].content = c
                           /\ clock = accepted[m].at

\* A stored message of this sender with this content, not older than the window.
HasRecentDuplicate(st, i, c) ==
    \E m \in st.messages : /\ accepted[m].sender = st.senders[i].id
                           /\ accepted[m].content = c
                           /\ clock - accepted[m].at < Window

SendUnconfigured(p) ==
    /\ ~stored.api
    /\ Open(p, [Idle EXCEPT !.pc = "write", !.state = EnsureSender(stored)])
    /\ UNCHANGED <<file, server, clock, made, faults, own, stored>>

\* want is the state a CLI command with --wait goes on to wait for.
Send(p, c, want) ==
    LET st == EnsureIdentity(EnsureSender(stored))
        i  == Active(st)
    IN
    /\ stored.api
    /\ ~HasRecentDuplicate(st, i, c)
    /\ Open(p, [Idle EXCEPT !.pc = "write", !.next = "refresh", !.state = st, !.me = i,
                            !.content = c, !.at = clock, !.want = want])
    /\ made' = IF st = EnsureSender(stored) THEN made ELSE made + 1
    /\ UNCHANGED <<file, server, clock, faults, own, stored>>

\* refreshPairing: a sender without an id asks for its own session; without one, or
\* if it is not paired, the command ends with setup_required.
Refresh(p) ==
    LET me == proc[p].state.senders[proc[p].me]
        st == IF me.id = 0 /\ me.session # 0
              THEN ApplyPairing(proc[p].state, proc[p].me, me.session) ELSE proc[p].state
    IN
    /\ proc[p].pc = "refresh"
    /\ IF st.senders[proc[p].me].id = 0
       THEN Save(p, st, "idle")
       ELSE proc' = [proc EXCEPT ![p] = [@ EXCEPT !.pc = "post", !.state = st]]
    /\ UNCHANGED <<file, server, clock, made, started, faults, lone, own, stored>>

\* The server lets a request in if it is signed with the keys of its sender.
MayAct(sender) == sender.id # 0 /\ sessions[sender.id].keys = sender.keys

Accepted(p) == Append(accepted,
    [sender |-> proc[p].state.senders[proc[p].me].id, content |-> proc[p].content,
     at |-> proc[p].at, state |-> "accepted", since |-> clock])

\* remoteSendMessage: the record is kept in the copy, and written with it.
Post(p) ==
    LET n == Len(accepted) + 1 IN
    /\ proc[p].pc = "post"
    /\ IF MayAct(proc[p].state.senders[proc[p].me])
       THEN /\ accepted' = Accepted(p)
            /\ proc' = [proc EXCEPT ![p] =
                  [@ EXCEPT !.pc = "write", !.next = IF proc[p].want = "none" THEN "idle" ELSE "await",
                            !.state = [proc[p].state EXCEPT !.messages = @ \cup {n}],
                            !.message = n]]
       ELSE Finish(p) /\ UNCHANGED accepted
    /\ UNCHANGED <<file, sessions, clock, made, started, faults, lone, own, stored>>

-----------------------------------------------------------------------------
(* waitForMessageState *)

WaitTool(p, m, want) ==
    /\ m \in DOMAIN accepted
    /\ Open(p, [Idle EXCEPT !.pc = "await", !.message = m, !.want = want])
    /\ UNCHANGED <<file, server, clock, made, faults, own, stored>>

\* Mutant: the deadline is reckoned backwards.
AwaitBackwards(p) ==
    /\ proc[p].pc = "await"
    /\ IF Readable
       THEN LET i == Active(stored) IN
            proc' = [proc EXCEPT ![p] =
               [@ EXCEPT !.pc = "poll", !.state = stored, !.me = i, !.wake = clock,
                         !.remote = stored.api /\ i # 0 /\ stored.senders[i].id # 0,
                         !.until = clock - Timeout]]
       ELSE Finish(p)
    /\ UNCHANGED <<file, server, clock, made, started, faults, lone, own, stored>>

\* The wait reads the file anew and decides once whom it will ask.
Await(p) ==
    /\ proc[p].pc = "await"
    /\ IF Readable
       THEN LET i == Active(stored) IN
            proc' = [proc EXCEPT ![p] =
               [@ EXCEPT !.pc = "poll", !.state = stored, !.me = i, !.wake = clock,
                         !.remote = stored.api /\ i # 0 /\ stored.senders[i].id # 0,
                         !.until = clock + Timeout]]
       ELSE Finish(p)
    /\ UNCHANGED <<file, server, clock, made, started, faults, lone, own, stored>>

\* remoteStatus; "none" for an error that ends the wait.
RemoteState(p) ==
    LET m  == proc[p].message
        me == proc[p].state.senders[proc[p].me]
    IN  IF MayAct(me) /\ accepted[m].sender = me.id THEN accepted[m].state ELSE "none"

\* getMessageStatus without a server or a paired sender: the record in the file, read
\* anew, whose state never moves.
LocalState(p) ==
    IF ~Readable THEN "none"
    ELSE IF proc[p].message \in stored.messages THEN "accepted" ELSE "not_found"

Observed(p) == IF proc[p].remote THEN RemoteState(p) ELSE LocalState(p)

Due(p) == proc[p].pc = "poll" /\ proc[p].wake <= clock

\* Mutant: the loop ends one interval early.
PollTooShort(p) ==
    /\ Due(p)
    /\ clock + Interval <= proc[p].until
    /\ IF Observed(p) \in {proc[p].want, "none"}
       THEN Finish(p)
       ELSE proc' = [proc EXCEPT ![p].wake = IF clock + 2 * Interval <= proc[p].until
                                             THEN clock + Interval ELSE proc[p].until + 1]
    /\ UNCHANGED <<file, server, clock, made, started, faults, lone, own, stored>>

\* Mutant: the loop does not sleep.
PollAtOnce(p) ==
    /\ Due(p)
    /\ clock <= proc[p].until
    /\ IF Observed(p) \in {proc[p].want, "none"}
       THEN Finish(p)
       ELSE proc' = [proc EXCEPT ![p].wake = clock]
    /\ UNCHANGED <<file, server, clock, made, started, faults, lone, own, stored>>

Poll(p) ==
    /\ Due(p)
    /\ clock <= proc[p].until
    /\ IF Observed(p) \in {proc[p].want, "none"}
       THEN Finish(p)
       ELSE proc' = [proc EXCEPT ![p].wake = clock + Interval]
    /\ UNCHANGED <<file, server, clock, made, started, faults, lone, own, stored>>

GiveUp(p) ==
    /\ Due(p)
    /\ clock > proc[p].until
    /\ Finish(p)
    /\ UNCHANGED <<file, server, clock, made, started, faults, lone, own, stored>>

-----------------------------------------------------------------------------
(* Failures, the server and the clock *)

\* fetch or jsonOrThrow throws: the command ends without its next write.  The server
\* may have acted.
RequestFails(p) ==
    /\ faults < MaxFaults
    /\ faults' = faults + 1
    /\ \/ /\ proc[p].pc \in {"start", "refresh", "ask", "post", "poll"}
          /\ UNCHANGED server
       \/ /\ proc[p].pc = "start"
          /\ sessions' = Started(p)
          /\ UNCHANGED accepted
       \/ /\ proc[p].pc = "post" /\ MayAct(proc[p].state.senders[proc[p].me])
          /\ accepted' = Accepted(p)
          /\ UNCHANGED sessions
    /\ Finish(p)
    /\ UNCHANGED <<file, clock, made, started, lone, own, stored>>

Crash(p) ==
    /\ proc[p].pc # "idle"
    /\ faults < MaxFaults
    /\ faults' = faults + 1
    /\ Finish(p)
    /\ UNCHANGED <<file, server, clock, made, started, lone, own, stored>>

\* A phone approves the session, or its deadline passes; an expired session tells
\* nothing.  Moves before anybody asks are left to the first question.
SessionMoves(s) ==
    /\ \E p \in Process :
          \/ proc[p].pc = "ask" /\ proc[p].session = s
          \/ proc[p].pc = "refresh" /\ proc[p].state.senders[proc[p].me].session = s
    /\ \E to \in {"paired", "expired"} :
          /\ sessions[s].status \in {"pending", "paired"} \ {to}
          /\ sessions' = [sessions EXCEPT ![s].status = to]
    /\ UNCHANGED <<file, proc, accepted, clock, made, started, faults, lone, own, stored>>

\* The states of a message move on as SenderView has them; moves before anybody polls
\* are left to the first poll.
MessageMoves(m) ==
    /\ \E p \in Process : proc[p].pc = "poll" /\ proc[p].message = m
    /\ \E to \in DeliveryState :
          /\ <<accepted[m].state, to>> \in
                {<<"accepted", "delivered">>, <<"accepted", "responded">>, <<"accepted", "expired">>,
                 <<"delivered", "responded">>, <<"delivered", "expired">>, <<"expired", "responded">>}
          /\ accepted' = [accepted EXCEPT ![m].state = to, ![m].since = clock]
    /\ UNCHANGED <<file, proc, sessions, clock, made, started, faults, lone, own, stored>>

\* A poll that is due and its answer take less than a unit of the clock.  The clock
\* runs from the first message on, and its bound does not stop it under a wait.
Tick ==
    /\ accepted # <<>>
    /\ clock < MaxClock \/ \E p \in Process : proc[p].pc = "poll"
    /\ \A p \in Process : ~Due(p)
    /\ clock' = clock + 1
    /\ UNCHANGED <<file, proc, server, made, started, faults, lone, own, stored>>

-----------------------------------------------------------------------------

\* handleSetup and handleSend: what the flags of a command select.
HandleSetup(p) == SetupLocal(p) \/ Setup(p)
HandleSend(p) ==
    \/ SendUnconfigured(p)
    \/ \E c \in Content, want \in Wanted \cup {"none"} : Send(p, c, want)

\* runCli: the commands of a terminal.
RunCli(p) ==
    \/ HandleSetup(p) \/ HandleSend(p)
    \/ \E s \in DOMAIN sessions : Status(p, s)
    \/ \E i \in DOMAIN stored.senders : Revoke(p, i)

\* callTool: the same functions, with a wait of its own and no revocation.
CallTool(p) ==
    \/ Setup(p) \/ SendUnconfigured(p)
    \/ \E c \in Content : Send(p, c, "none")
    \/ \E s \in DOMAIN sessions : Status(p, s)
    \/ \E m \in DOMAIN accepted, want \in Wanted : WaitTool(p, m, want)

\* The server takes a line when the one before has been answered; other methods than
\* tools/call have no effect.
Serve(p) == proc[p].pc = "idle" /\ CallTool(p)

\* The rest of a command.
Continue(p) ==
    \/ BeginWrite(p) \/ EndWrite(p)
    \/ StartRemoteSetup(p) \/ SetupBlocked(p) \/ Ask(p)
    \/ Refresh(p) \/ Post(p)
    \/ Await(p) \/ Poll(p) \/ GiveUp(p)

Fault(p) == RequestFails(p) \/ Crash(p)

Next ==
    \/ \E p \in Terminal : RunCli(p)
    \/ \E p \in ToolServer : Serve(p)
    \/ \E p \in Process : Continue(p) \/ Fault(p)
    \/ \E s \in DOMAIN sessions : SessionMoves(s)
    \/ \E m \in DOMAIN accepted : MessageMoves(m)
    \/ Tick

Spec == Init /\ [][Next]_vars

\* A process that was started goes on, and time passes; nobody has to run a command,
\* approve a pairing or answer a message.
FairSpec == Spec /\ WF_vars(Tick) /\ \A p \in Process : WF_vars(Continue(p))

-----------------------------------------------------------------------------
(* Properties *)

\* Types of the file, the commands and the server's rows.
CliTypeOK ==
    /\ file \in FileKind /\ stored \in StoredState
    /\ proc \in [Process -> Command]
    /\ sessions \in Seq(SessionRow) /\ accepted \in Seq(MessageRow)
    /\ clock \in Nat /\ made \in Nat /\ started \in 0..MaxCommands
    /\ faults \in 0..MaxFaults /\ lone \in BOOLEAN /\ own \in BOOLEAN

\* A sender that is stored under a server's id has the keys the server knows for that
\* id, so that its requests are let in: whatever commands overlapped, failed or were
\* cut off, as long as the status of a session is asked for by the sender that started
\* it (applyPairingResult takes the answer for the first active sender).
IdentityHasItsKeys ==
    own => \A i \in DOMAIN stored.senders :
              stored.senders[i].id # 0 => MayAct(stored.senders[i])

\* As long as no commands overlap, none takes back what an earlier one stored: no
\* message record, sender, key pair or revocation is lost when the whole file is
\* written (client.ts writes a copy it read before its requests).
NothingForgotten ==
    [][lone' =>
          /\ stored.messages \subseteq stored'.messages
          /\ \A i \in DOMAIN stored.senders :
                /\ i \in DOMAIN stored'.senders
                /\ stored.senders[i].keys \in {0, stored'.senders[i].keys}
                /\ stored.senders[i].revoked => stored'.senders[i].revoked]_vars

\* As long as no commands overlap and no request or process fails, the server is sent
\* the same content by one sender at most once in the window (hasRecentDuplicate).
SuppressesDuplicates ==
    lone /\ faults = 0 =>
        \A m, n \in DOMAIN accepted :
            (/\ m < n
             /\ accepted[m].sender = accepted[n].sender
             /\ accepted[m].content = accepted[n].content)
            => accepted[n].at - accepted[m].at >= Window

\* A wait for an answer that gives up has not overlooked one: an answer that is there
\* came within the last interval (the loop of remoteWait, whose bound is inclusive).
GivesUpOnlyInVain ==
    [][\A p \in Process :
          (/\ GiveUp(p)
           /\ proc[p].remote /\ proc[p].want = "responded"
           /\ accepted[proc[p].message].state = "responded")
          => accepted[proc[p].message].since > proc[p].until - Interval]_vars

\* Every command ends, also a wait for a state that is never reached.
CommandsEnd ==
    \A p \in Process : [](proc[p].pc # "idle" => <>(proc[p].pc = "idle"))
=============================================================================
