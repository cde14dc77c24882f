--------------------------- MODULE SenderCli_proofs ---------------------------
(***************************************************************************)
(* Theorems about SenderCli, for any processes, contents, intervals and    *)
(* bounds.                                                                 *)
(***************************************************************************)
EXTENDS SenderCli, SequenceTheorems, WellFoundedInduction, TLAPS

-----------------------------------------------------------------------------
(* The operators on the state *)

\* A set of numbers that is not empty has a least element.
LEMMA Least ==
    ASSUME NEW T, T \subseteq Nat, T # {}
    PROVE  \E x \in T : \A y \in T : x <= y
<1>1. PICK x \in T : \A y \in T : <<y, x>> \notin OpToRel(<, Nat)
  BY NatLessThanWellFounded, WFMin
<1>2. \A y \in T : ~(y < x)
  BY <1>1 DEF OpToRel
<1>3. QED
  BY <1>2

\* Active is the first sender that is not revoked, if there is one.
LEMMA ActiveIsFirst ==
    ASSUME NEW st \in StoredState
    PROVE  /\ Active(st) = 0 \/ Active(st) \in DOMAIN st.senders
           /\ \A i \in DOMAIN st.senders : ~st.senders[i].revoked =>
                 /\ Active(st) \in DOMAIN st.senders
                 /\ ~st.senders[Active(st)].revoked
                 /\ Active(st) <= i
<1>1. st.senders \in Seq(Sender) /\ DOMAIN st.senders = 1..Len(st.senders) /\ Len(st.senders) \in Nat
  BY DEF StoredState
<1> DEFINE T == {i \in DOMAIN st.senders : ~st.senders[i].revoked}
           First(i) == /\ ~st.senders[i].revoked
                       /\ \A j \in DOMAIN st.senders : ~st.senders[j].revoked => i <= j
<1>2. CASE T = {}
  BY <1>2 DEF Active
<1>3. CASE T # {}
  <2>1. T \subseteq Nat
    BY <1>1
  <2>2. \E i \in DOMAIN st.senders : First(i)
    BY <1>3, <2>1, Least
  <2>3. Active(st) = CHOOSE i \in DOMAIN st.senders : First(i)
    BY <1>3 DEF Active
  <2>4. Active(st) \in DOMAIN st.senders /\ First(Active(st))
    <3> HIDE DEF First
    <3>1. QED
      BY <2>2, <2>3
  <2>5. QED
    BY <2>4
<1>4. QED
  BY <1>2, <1>3

\* States whose senders are revoked alike have the same active sender.
LEMMA SameActive ==
    ASSUME NEW st \in StoredState, NEW new \in StoredState,
           DOMAIN new.senders = DOMAIN st.senders,
           \A i \in DOMAIN st.senders : new.senders[i].revoked = st.senders[i].revoked
    PROVE  Active(new) = Active(st)
<1>1. DOMAIN st.senders = 1..Len(st.senders) /\ Len(st.senders) \in Nat
  BY DEF StoredState
<1>2. CASE \A i \in DOMAIN st.senders : st.senders[i].revoked
  BY <1>2 DEF Active
<1>3. CASE \E i \in DOMAIN st.senders : ~st.senders[i].revoked
  <2>1. /\ Active(st) \in DOMAIN st.senders /\ Active(new) \in DOMAIN st.senders
        /\ ~st.senders[Active(st)].revoked /\ ~new.senders[Active(new)].revoked
    BY <1>3, ActiveIsFirst
  <2>2. Active(st) <= Active(new) /\ Active(new) <= Active(st)
    BY <2>1, ActiveIsFirst
  <2>3. QED
    BY <1>1, <2>1, <2>2
<1>4. QED
  BY <1>2, <1>3

\* A change of one sender changes nothing else.
LEMMA SetSender ==
    ASSUME NEW st \in StoredState, NEW i \in DOMAIN st.senders, NEW x \in Sender,
           NEW new, new = [st EXCEPT !.senders[i] = x]
    PROVE  /\ new \in StoredState
           /\ new.messages = st.messages
           /\ DOMAIN new.senders = DOMAIN st.senders
           /\ \A j \in DOMAIN st.senders : new.senders[j] = IF j = i THEN x ELSE st.senders[j]
<1>1. st.senders \in Seq(Sender) /\ i \in 1..Len(st.senders) /\ DOMAIN st.senders = 1..Len(st.senders)
  BY DEF StoredState
<1> DEFINE s == [st.senders EXCEPT ![i] = x]
<1>2. /\ s \in Seq(Sender) /\ DOMAIN s = DOMAIN st.senders
      /\ \A j \in DOMAIN st.senders : s[j] = IF j = i THEN x ELSE st.senders[j]
  BY <1>1, ExceptSeq
<1>3. new = [st EXCEPT !.senders = s]
  OBVIOUS
<1> HIDE DEF s
<1>4. new.senders = s /\ new.messages = st.messages /\ new \in StoredState
  BY <1>2, <1>3 DEF StoredState
<1>5. QED
  BY <1>2, <1>4

\* What a command may have done to the state it read, before it is stored: no record,
\* sender, key pair or revocation is taken back.
Extends(old, new) ==
    /\ old.messages \subseteq new.messages
    /\ \A i \in DOMAIN old.senders :
          /\ i \in DOMAIN new.senders
          /\ old.senders[i].keys \in {0, new.senders[i].keys}
          /\ old.senders[i].revoked => new.senders[i].revoked

\* Senders that a command adds or gives keys to have no id and no session on their own.
Prepares(old, new) ==
    /\ new \in StoredState
    /\ Extends(old, new)
    /\ \A i \in DOMAIN new.senders :
          \/ /\ i \in DOMAIN old.senders
             /\ new.senders[i].id = old.senders[i].id
             /\ new.senders[i].session = old.senders[i].session
             /\ old.senders[i].keys \in {0, new.senders[i].keys}
          \/ new.senders[i].id = 0 /\ new.senders[i].session = 0

\* What two commands prepare one after the other is prepared.
LEMMA PreparesTransitive ==
    ASSUME NEW a \in StoredState, NEW b, NEW c, Prepares(a, b), Prepares(b, c)
    PROVE  Prepares(a, c)
<1>1. Extends(a, c)
  BY DEF Prepares, Extends
<1>2. c \in StoredState
  BY DEF Prepares
<1>3. ASSUME NEW i \in DOMAIN c.senders
      PROVE  \/ /\ i \in DOMAIN a.senders
                /\ c.senders[i].id = a.senders[i].id
                /\ c.senders[i].session = a.senders[i].session
                /\ a.senders[i].keys \in {0, c.senders[i].keys}
             \/ c.senders[i].id = 0 /\ c.senders[i].session = 0
  BY DEF Prepares
<1>4. QED
  BY <1>1, <1>2, <1>3 DEF Prepares

\* Nothing need be prepared.
LEMMA PreparesReflexive ==
    ASSUME NEW st \in StoredState
    PROVE  Prepares(st, st)
BY DEF Prepares, Extends

\* The address of the server is no sender's affair.
LEMMA SetApi ==
    ASSUME NEW st \in StoredState, NEW new, new = [st EXCEPT !.api = TRUE]
    PROVE  Prepares(st, new) /\ Active(new) = Active(st) /\ DOMAIN new.senders = DOMAIN st.senders
<1>1. new.senders = st.senders /\ new.messages = st.messages /\ new \in StoredState
  BY DEF StoredState
<1>2. Active(new) = Active(st)
  BY <1>1 DEF Active
<1>3. QED
  BY <1>1, <1>2, PreparesReflexive DEF Prepares, Extends

\* A new sender is well typed, and has no id, session or keys.
LEMMA NewSenderType ==
    /\ NewSender \in Sender /\ NewSender.id = 0 /\ NewSender.session = 0
    /\ NewSender.keys = 0 /\ ~NewSender.revoked
BY DEF NewSender, Sender

\* ensureSender leaves an active sender there.
LEMMA EnsureSenderIs ==
    ASSUME NEW st \in StoredState, NEW new, new = EnsureSender(st)
    PROVE  Prepares(st, new) /\ Active(new) \in DOMAIN new.senders
<1>1. CASE Active(st) # 0
  BY <1>1, ActiveIsFirst, PreparesReflexive DEF EnsureSender
<1>2. CASE Active(st) = 0
  <2> DEFINE s == Append(st.senders, NewSender)
  <2>1. st.senders \in Seq(Sender) /\ NewSender \in Sender
    BY NewSenderType DEF StoredState
  <2>2. /\ s \in Seq(Sender) /\ Len(s) = Len(st.senders) + 1
        /\ \A i \in 1..Len(st.senders) : s[i] = st.senders[i]
        /\ s[Len(st.senders) + 1] = NewSender
        /\ Len(st.senders) \in Nat
    BY <2>1, AppendProperties
  <2>3. DOMAIN s = 1..(Len(st.senders) + 1) /\ DOMAIN st.senders = 1..Len(st.senders)
    BY <2>1, <2>2
  <2>4. new = [st EXCEPT !.senders = s]
    BY <1>2 DEF EnsureSender
  <2> HIDE DEF s
  <2>5. new.senders = s /\ new.messages = st.messages /\ new \in StoredState
    BY <2>2, <2>4 DEF StoredState
  <2>6. \A i \in DOMAIN s : (i \in DOMAIN st.senders /\ s[i] = st.senders[i]) \/ s[i] = NewSender
    BY <2>2, <2>3
  <2>7. Extends(st, new)
    BY <2>2, <2>3, <2>5 DEF Extends
  <2>8. Prepares(st, new)
    BY <2>5, <2>6, <2>7, NewSenderType DEF Prepares
  <2>9. Active(new) \in DOMAIN new.senders
    BY <2>2, <2>3, <2>5, NewSenderType, ActiveIsFirst
  <2>10. QED
    BY <2>8, <2>9
<1>3. QED
  BY <1>1, <1>2

\* ensureSenderIdentity leaves the active sender with keys.
LEMMA EnsureIdentityIs ==
    ASSUME made \in Nat, NEW st \in StoredState, Active(st) \in DOMAIN st.senders,
           NEW new, new = EnsureIdentity(st)
    PROVE  /\ Prepares(st, new)
           /\ Active(new) \in DOMAIN new.senders
           /\ new.senders[Active(new)].keys # 0
<1> DEFINE i == Active(st)
<1>1. CASE st.senders[i].keys # 0
  BY <1>1, PreparesReflexive DEF EnsureIdentity
<1>2. CASE st.senders[i].keys = 0
  <2> DEFINE x == [st.senders[i] EXCEPT !.keys = made + 1]
  <2>1. st.senders[i] \in Sender
    BY DEF StoredState
  <2>2. /\ x \in Sender /\ x.keys = made + 1 /\ x.id = st.senders[i].id
        /\ x.session = st.senders[i].session /\ x.revoked = st.senders[i].revoked
    BY <2>1 DEF Sender
  <2>3. new = [st EXCEPT !.senders[i] = x]
    BY <1>2 DEF EnsureIdentity
  <2>4. i \in DOMAIN st.senders
    OBVIOUS
  <2> HIDE DEF x, i
  <2>5. /\ new \in StoredState /\ new.messages = st.messages /\ DOMAIN new.senders = DOMAIN st.senders
        /\ \A j \in DOMAIN st.senders : new.senders[j] = IF j = i THEN x ELSE st.senders[j]
    BY <2>2, <2>3, <2>4, SetSender
  <2>6. Active(new) = i
    BY <2>2, <2>5, SameActive DEF i
  <2>7. Extends(st, new)
    BY <1>2, <2>2, <2>5 DEF Extends
  <2>8. Prepares(st, new)
    BY <1>2, <2>2, <2>5, <2>7 DEF Prepares
  <2>9. QED
    BY <2>2, <2>4, <2>5, <2>6, <2>8
<1>3. QED
  BY <1>1, <1>2

-----------------------------------------------------------------------------
(* Types *)

\* What a command relies on at its next step.
CommandFits(c, ses, acc) ==
    /\ c.me = 0 \/ c.me \in DOMAIN c.state.senders
    /\ c.next \in {"idle", "start", "refresh", "await"}
    /\ c.pc \notin {"write", "writing"} => c.next = "idle"
    /\ c.pc \in {"start", "refresh", "post"} \/ c.next \in {"start", "refresh"} => c.me # 0
    /\ c.pc \in {"refresh", "post"} \/ c.next = "refresh" => c.content \in Content
    /\ c.pc \in {"await", "poll"} \/ c.next = "await" => c.message \in DOMAIN acc
    /\ c.pc = "ask" => c.session \in DOMAIN ses

TypeInv ==
    /\ CliTypeOK
    /\ \A p \in Process : CommandFits(proc[p], sessions, accepted)

\* The state without a file is well typed and has no sender.
LEMMA DefaultStateType == DefaultState \in StoredState /\ DOMAIN DefaultState.senders = {}
<1>1. <<>> \in Seq(Sender) /\ DOMAIN <<>> = {}
  OBVIOUS
<1>2. QED
  BY <1>1 DEF DefaultState, StoredState

\* A process that is idle is well typed and holds the default state.
LEMMA IdleType ==
    /\ Idle \in Command /\ Idle.pc = "idle" /\ Idle.next = "idle" /\ Idle.me = 0
    /\ Idle.session = 0 /\ Idle.message = 0 /\ Idle.want = "none" /\ ~Idle.remote
    /\ Idle.state = DefaultState
BY DefaultStateType DEF Idle, Command, Pc

\* It relies on nothing.
LEMMA IdleFits ==
    ASSUME NEW ses, NEW acc
    PROVE  CommandFits(Idle, ses, acc)
BY IdleType DEF CommandFits

\* A step of one process keeps the types, if the rows of the server stay and the
\* process has what it relies on.
LEMMA TypesKept ==
    ASSUME TypeInv, NEW p \in Process, NEW c \in Command,
           proc' = [proc EXCEPT ![p] = c], CommandFits(c, sessions', accepted'),
           sessions' \in Seq(SessionRow), DOMAIN sessions \subseteq DOMAIN sessions',
           accepted' \in Seq(MessageRow), DOMAIN accepted \subseteq DOMAIN accepted',
           file' \in FileKind, stored' \in StoredState, made' \in Nat, clock' = clock,
           started' \in 0..MaxCommands, faults' \in 0..MaxFaults,
           lone' \in BOOLEAN, own' \in BOOLEAN
    PROVE  TypeInv'
<1>1. /\ proc' \in [Process -> Command]
      /\ \A q \in Process : proc'[q] = IF q = p THEN c ELSE proc[q]
  BY DEF TypeInv, CliTypeOK
<1>2. CliTypeOK'
  BY <1>1 DEF TypeInv, CliTypeOK
<1>3. ASSUME NEW q \in Process PROVE CommandFits(proc'[q], sessions', accepted')
  <2>1. CASE q = p
    BY <1>1, <2>1
  <2>2. CASE q # p
    BY <1>1, <2>2 DEF TypeInv, CommandFits
  <2>3. QED
    BY <2>1, <2>2
<1>4. QED
  BY <1>2, <1>3 DEF TypeInv

\* The start of a command keeps its bounds.
LEMMA OpenBounds ==
    ASSUME TypeInv, NEW p \in Process, NEW c, Open(p, c)
    PROVE  started' \in 0..MaxCommands /\ lone' \in BOOLEAN
BY CliAssumption DEF Open, TypeInv, CliTypeOK

\* A command that opens keeps the types, if it has what it relies on.
LEMMA OpenTypes ==
    ASSUME TypeInv, NEW p \in Process, NEW c \in Command, Open(p, c),
           CommandFits(c, sessions, accepted), made' \in Nat, own' \in BOOLEAN,
           UNCHANGED <<file, server, clock, faults, stored>>
    PROVE  TypeInv'
<1>1. proc' = [proc EXCEPT ![p] = c]
  BY DEF Open
<1>2. started' \in 0..MaxCommands /\ lone' \in BOOLEAN
  BY OpenBounds
<1>3. /\ sessions' \in Seq(SessionRow) /\ accepted' \in Seq(MessageRow)
      /\ file' \in FileKind /\ stored' \in StoredState /\ faults' \in 0..MaxFaults
      /\ sessions' = sessions /\ accepted' = accepted /\ clock' = clock
  BY DEF TypeInv, CliTypeOK, server
<1> HIDE DEF TypeInv
<1>4. QED
  BY <1>1, <1>2, <1>3, TypesKept

\* A command that goes on with nothing but its own step keeps the types.
LEMMA StepTypes ==
    ASSUME TypeInv, NEW p \in Process, NEW c \in Command,
           proc' = [proc EXCEPT ![p] = c], CommandFits(c, sessions, accepted),
           file' \in FileKind, stored' \in StoredState,
           UNCHANGED <<server, clock, made, started, faults, lone, own>>
    PROVE  TypeInv'
<1>1. /\ sessions' \in Seq(SessionRow) /\ accepted' \in Seq(MessageRow)
      /\ faults' \in 0..MaxFaults /\ started' \in 0..MaxCommands /\ made' \in Nat
      /\ lone' \in BOOLEAN /\ own' \in BOOLEAN
      /\ sessions' = sessions /\ accepted' = accepted /\ clock' = clock
  BY DEF TypeInv, CliTypeOK, server
<1>2. QED
  BY <1>1, TypesKept

\* A command that ends keeps the types.
LEMMA FinishTypes ==
    ASSUME TypeInv, NEW p \in Process, Finish(p),
           UNCHANGED <<file, server, clock, made, started, faults, lone, own, stored>>
    PROVE  TypeInv'
<1>1. file' \in FileKind /\ stored' \in StoredState
  BY DEF TypeInv, CliTypeOK
<1>2. proc' = [proc EXCEPT ![p] = Idle]
  BY DEF Finish
<1>3. QED
  BY <1>1, <1>2, IdleType, IdleFits, StepTypes

\* setupNotifier prepares a state whose active sender has keys.
LEMMA SetupState ==
    ASSUME made \in Nat, NEW st \in StoredState, NEW with, with = [EnsureSender(st) EXCEPT !.api = TRUE],
           NEW new, new = EnsureIdentity(with)
    PROVE  /\ Prepares(st, new) /\ Active(new) \in DOMAIN new.senders
           /\ new.senders[Active(new)].keys # 0
<1>1. Prepares(st, EnsureSender(st)) /\ Active(EnsureSender(st)) \in DOMAIN EnsureSender(st).senders
  BY EnsureSenderIs
<1>2. Prepares(EnsureSender(st), with) /\ Active(with) \in DOMAIN with.senders
  BY <1>1, SetApi DEF Prepares
<1>3. /\ Prepares(with, new) /\ Active(new) \in DOMAIN new.senders
      /\ new.senders[Active(new)].keys # 0
  <2>1. with \in StoredState
    BY <1>2 DEF Prepares
  <2>2. QED
    BY <1>2, <2>1, EnsureIdentityIs
<1>4. Prepares(st, with)
  BY <1>1, <1>2, PreparesTransitive
<1>5. QED
  BY <1>3, <1>4, PreparesTransitive

\* So does sendMessage.
LEMMA SendState ==
    ASSUME made \in Nat, NEW st \in StoredState, NEW new, new = EnsureIdentity(EnsureSender(st))
    PROVE  /\ Prepares(st, new) /\ Active(new) \in DOMAIN new.senders
           /\ new.senders[Active(new)].keys # 0
<1>1. Prepares(st, EnsureSender(st)) /\ Active(EnsureSender(st)) \in DOMAIN EnsureSender(st).senders
  BY EnsureSenderIs
<1>2. /\ Prepares(EnsureSender(st), new) /\ Active(new) \in DOMAIN new.senders
      /\ new.senders[Active(new)].keys # 0
  BY <1>1, EnsureIdentityIs DEF Prepares
<1>3. QED
  BY <1>1, <1>2, PreparesTransitive

\* A sender gets a session.
LEMMA SetSession ==
    ASSUME NEW st \in StoredState, NEW i \in DOMAIN st.senders, NEW n \in Nat,
           NEW new, new = [st EXCEPT !.senders[i].session = n]
    PROVE  /\ new \in StoredState /\ new.messages = st.messages
           /\ DOMAIN new.senders = DOMAIN st.senders
           /\ new.senders[i].session = n /\ new.senders[i].keys = st.senders[i].keys
           /\ new.senders[i].id = st.senders[i].id /\ new.senders[i].revoked = st.senders[i].revoked
           /\ \A j \in DOMAIN st.senders : j # i => new.senders[j] = st.senders[j]
<1> DEFINE x == [st.senders[i] EXCEPT !.session = n]
<1>1. st.senders[i] \in Sender
  BY DEF StoredState
<1>2. /\ x \in Sender /\ x.session = n /\ x.id = st.senders[i].id
      /\ x.keys = st.senders[i].keys /\ x.revoked = st.senders[i].revoked
  BY <1>1 DEF Sender
<1>3. new = [st EXCEPT !.senders[i] = x]
  OBVIOUS
<1> HIDE DEF x
<1>4. QED
  BY <1>2, <1>3, SetSender

\* A sender gets its id.
LEMMA SetId ==
    ASSUME NEW st \in StoredState, NEW i \in DOMAIN st.senders, NEW n \in Nat,
           NEW new, new = [st EXCEPT !.senders[i].id = n]
    PROVE  /\ new \in StoredState /\ new.messages = st.messages
           /\ DOMAIN new.senders = DOMAIN st.senders
           /\ new.senders[i].id = n /\ new.senders[i].keys = st.senders[i].keys
           /\ new.senders[i].session = st.senders[i].session
           /\ new.senders[i].revoked = st.senders[i].revoked
           /\ \A j \in DOMAIN st.senders : j # i => new.senders[j] = st.senders[j]
<1> DEFINE x == [st.senders[i] EXCEPT !.id = n]
<1>1. st.senders[i] \in Sender
  BY DEF StoredState
<1>2. /\ x \in Sender /\ x.id = n /\ x.session = st.senders[i].session
      /\ x.keys = st.senders[i].keys /\ x.revoked = st.senders[i].revoked
  BY <1>1 DEF Sender
<1>3. new = [st EXCEPT !.senders[i] = x]
  OBVIOUS
<1> HIDE DEF x
<1>4. QED
  BY <1>2, <1>3, SetSender

\* A sender is revoked.
Revoked(st, i) == [st EXCEPT !.senders[i].revoked = TRUE]

\* Revoking changes that sender only.
LEMMA SetRevoked ==
    ASSUME NEW st \in StoredState, NEW i \in DOMAIN st.senders,
           NEW new, new = Revoked(st, i)
    PROVE  /\ new \in StoredState /\ new.messages = st.messages
           /\ DOMAIN new.senders = DOMAIN st.senders
           /\ new.senders[i].revoked = TRUE /\ new.senders[i].keys = st.senders[i].keys
           /\ new.senders[i].session = st.senders[i].session
           /\ new.senders[i].id = st.senders[i].id
           /\ \A j \in DOMAIN st.senders : j # i => new.senders[j] = st.senders[j]
<1> DEFINE x == [st.senders[i] EXCEPT !.revoked = TRUE]
<1>1. st.senders[i] \in Sender
  BY DEF StoredState
<1>2. x \in Sender
  BY <1>1 DEF Sender
<1>3. /\ x.id = st.senders[i].id /\ x.session = st.senders[i].session
      /\ x.keys = st.senders[i].keys
  BY <1>1 DEF Sender
<1>4. x.revoked = TRUE
  BY <1>1 DEF Sender
<1>5. new = [st EXCEPT !.senders[i] = x]
  BY DEF Revoked
<1> HIDE DEF x
<1>6. /\ new \in StoredState /\ new.messages = st.messages
      /\ DOMAIN new.senders = DOMAIN st.senders
      /\ \A j \in DOMAIN st.senders : new.senders[j] = IF j = i THEN x ELSE st.senders[j]
  BY <1>2, <1>5, SetSender
<1>7. new.senders[i] = x
  BY <1>6
<1>8. new.senders[i].revoked = TRUE
  BY <1>4, <1>7, Zenon
<1>9. /\ new.senders[i].keys = st.senders[i].keys
      /\ new.senders[i].session = st.senders[i].session
      /\ new.senders[i].id = st.senders[i].id
  BY <1>3, <1>7, Zenon
<1>10. QED
  BY <1>6, <1>8, <1>9, Zenon

\* What an answer about a pairing changes.
LEMMA ApplyPairingIs ==
    ASSUME NEW st \in StoredState, NEW i \in DOMAIN st.senders, NEW s \in Nat,
           NEW new, new = ApplyPairing(st, i, s)
    PROVE  /\ new \in StoredState /\ new.messages = st.messages
           /\ DOMAIN new.senders = DOMAIN st.senders
           /\ new.senders[i].id \in {st.senders[i].id, s}
           /\ new.senders[i].keys = st.senders[i].keys
           /\ new.senders[i].session = st.senders[i].session
           /\ new.senders[i].revoked = st.senders[i].revoked
           /\ \A j \in DOMAIN st.senders : j # i => new.senders[j] = st.senders[j]
<1>1. CASE Told(s) = 0
  BY <1>1 DEF ApplyPairing
<1>2. CASE Told(s) # 0
  <2>1. new = [st EXCEPT !.senders[i].id = s]
    BY <1>2 DEF ApplyPairing
  <2>2. QED
    BY <2>1, SetId
<1>3. QED
  BY <1>1, <1>2

\* Reading and writing the file keeps the types.
LEMMA WriteTypes ==
    ASSUME TypeInv, NEW p \in Process, BeginWrite(p) \/ EndWrite(p)
    PROVE  TypeInv'
<1>1. proc[p] \in Command /\ CommandFits(proc[p], sessions, accepted) /\ proc[p].state \in StoredState
  BY DEF TypeInv, CliTypeOK, Command
<1>2. CASE BeginWrite(p)
  <2> DEFINE c == [proc[p] EXCEPT !.pc = "writing"]
  <2>1. proc' = [proc EXCEPT ![p] = c]
    BY <1>2 DEF BeginWrite
  <2>2. proc[p].pc = "write"
    BY <1>2 DEF BeginWrite
  <2>3. c \in Command
    BY <1>1 DEF Command, Pc
  <2>4. /\ c.pc = "writing" /\ c.next = proc[p].next /\ c.me = proc[p].me /\ c.state = proc[p].state
        /\ c.content = proc[p].content /\ c.message = proc[p].message /\ c.session = proc[p].session
    BY <1>1 DEF Command
  <2>5. CommandFits(c, sessions, accepted)
    BY <1>1, <2>2, <2>4 DEF CommandFits
  <2>6. file' \in FileKind /\ stored' \in StoredState
    BY <1>2 DEF BeginWrite, FileKind, TypeInv, CliTypeOK
  <2>7. QED
    BY <1>2, <2>1, <2>3, <2>5, <2>6, StepTypes DEF BeginWrite
<1>3. CASE EndWrite(p)
  <2> DEFINE c == IF proc[p].next = "idle" THEN Idle
                  ELSE [proc[p] EXCEPT !.pc = proc[p].next, !.next = "idle"]
  <2>1. proc' = [proc EXCEPT ![p] = c]
    BY <1>3 DEF EndWrite
  <2>2. c \in Command /\ CommandFits(c, sessions, accepted)
    <3>1. CASE proc[p].next = "idle"
      BY <3>1, IdleType, IdleFits
    <3>2. CASE proc[p].next # "idle"
      <4>1. c = [proc[p] EXCEPT !.pc = proc[p].next, !.next = "idle"]
        BY <3>2
      <4>2. c \in Command
        BY <1>1, <4>1 DEF Command, Pc
      <4>3. /\ c.pc = proc[p].next /\ c.next = "idle" /\ c.me = proc[p].me /\ c.state = proc[p].state
            /\ c.content = proc[p].content /\ c.message = proc[p].message /\ c.session = proc[p].session
        BY <1>1, <4>1 DEF Command
      <4> HIDE DEF c
      <4>4. CommandFits(c, sessions, accepted)
        BY <1>1, <4>3 DEF CommandFits
      <4>5. QED
        BY <4>2, <4>4
    <3>3. QED
      BY <3>1, <3>2
  <2>3. file' \in FileKind /\ stored' \in StoredState
    BY <1>1, <1>3 DEF EndWrite, FileKind, TypeInv, CliTypeOK
  <2> HIDE DEF c
  <2>4. QED
    BY <1>3, <2>1, <2>2, <2>3, StepTypes DEF EndWrite
<1>4. QED
  BY <1>2, <1>3

\* A command that starts with the state it is about to store.
LEMMA OpenWriteFits ==
    ASSUME NEW st \in StoredState, NEW me \in Nat, me = 0 \/ me \in DOMAIN st.senders,
           NEW then \in {"idle", "start"}, then = "start" => me # 0,
           NEW c, c = [Idle EXCEPT !.pc = "write", !.next = then, !.state = st, !.me = me],
           NEW ses, NEW acc
    PROVE  c \in Command /\ CommandFits(c, ses, acc)
<1>1. c \in Command
  BY IdleType DEF Command, Pc
<1>2. c.pc = "write" /\ c.next = then /\ c.state = st /\ c.me = me
  BY IdleType DEF Command
<1>3. QED
  BY <1>1, <1>2 DEF CommandFits

\* The commands that prepare a state and write it before anything else.
Writes(p) ==
    \/ SetupLocal(p) \/ Setup(p) \/ SendUnconfigured(p)
    \/ \E i \in DOMAIN stored.senders : Revoke(p, i)
    \/ \E x \in Content, want \in Wanted \cup {"none"} : Send(p, x, want)

\* What such a command relies on, and what it is about to write.
WritesWell(c) ==
    /\ c \in Command /\ CommandFits(c, sessions, accepted)
    /\ c.pc = "write" /\ Prepares(stored, c.state)
    /\ c.next = "start" => c.state.senders[c.me].keys # 0

\* sendMessage, up to its first write.
LEMMA SendOpens ==
    ASSUME TypeInv, NEW p \in Process, NEW x \in Content, NEW want \in Wanted \cup {"none"},
           Send(p, x, want)
    PROVE  /\ UNCHANGED <<file, server, clock, faults, own, stored>> /\ made' \in Nat
           /\ \E c : Open(p, c) /\ WritesWell(c)
<1> DEFINE st == EnsureIdentity(EnsureSender(stored))
           i == Active(st)
           c == [Idle EXCEPT !.pc = "write", !.next = "refresh", !.state = st, !.me = i,
                             !.content = x, !.at = clock, !.want = want]
<1>1. /\ stored \in StoredState /\ made \in Nat /\ made + 1 \in Nat /\ clock \in Nat
      /\ own \in BOOLEAN /\ want \in DeliveryState \cup {"none"}
  BY CliAssumption DEF TypeInv, CliTypeOK
<1>2. Prepares(stored, st) /\ st \in StoredState /\ i \in DOMAIN st.senders
  BY <1>1, SendState DEF Prepares
<1>3. i \in Nat /\ i # 0
  BY <1>2 DEF StoredState
<1>4. Open(p, c)
  BY DEF Send
<1>5. UNCHANGED <<file, server, clock, faults, own, stored>> /\ made' \in {made, made + 1}
  BY DEF Send
<1> HIDE DEF st, i
<1>6. c \in Command
  BY <1>1, <1>2, <1>3, IdleType DEF Command, Pc
<1>7. c.pc = "write" /\ c.next = "refresh" /\ c.state = st /\ c.me = i /\ c.content = x
  BY IdleType DEF Command
<1> HIDE DEF c
<1>8. CommandFits(c, sessions, accepted)
  BY <1>2, <1>3, <1>7 DEF CommandFits
<1>9. WritesWell(c)
  BY <1>2, <1>6, <1>7, <1>8 DEF WritesWell
<1>10. QED
  BY <1>1, <1>4, <1>5, <1>9

\* Each of these commands opens with a prepared state.
LEMMA WriteOpens ==
    ASSUME TypeInv, NEW p \in Process, Writes(p)
    PROVE  /\ UNCHANGED <<file, server, clock, faults, own, stored>> /\ made' \in Nat
           /\ \E c : Open(p, c) /\ WritesWell(c)
<1>1. /\ stored \in StoredState /\ made \in Nat /\ made + 1 \in Nat /\ 0 \in Nat
  BY DEF TypeInv, CliTypeOK
<1>2. CASE SetupLocal(p) \/ SendUnconfigured(p)
  <2> DEFINE st == EnsureSender(stored)
             c == [Idle EXCEPT !.pc = "write", !.state = st]
  <2>1. st \in StoredState /\ Prepares(stored, st)
    BY <1>1, EnsureSenderIs DEF Prepares
  <2>2. c = [Idle EXCEPT !.pc = "write", !.next = "idle", !.state = st, !.me = 0]
    BY IdleType DEF Command
  <2>3. Open(p, c)
    BY <1>2 DEF SetupLocal, SendUnconfigured
  <2>4. UNCHANGED <<file, server, clock, made, faults, own, stored>>
    BY <1>2 DEF SetupLocal, SendUnconfigured
  <2> HIDE DEF st
  <2>5. /\ c \in Command /\ CommandFits(c, sessions, accepted)
        /\ c.pc = "write" /\ c.next = "idle" /\ c.state = st
    <3>1. c \in Command /\ CommandFits(c, sessions, accepted)
      BY <1>1, <2>1, <2>2, OpenWriteFits
    <3>2. c.pc = "write" /\ c.next = "idle" /\ c.state = st
      BY IdleType DEF Command
    <3>3. QED
      BY <3>1, <3>2
  <2> HIDE DEF c
  <2>6. WritesWell(c)
    BY <2>1, <2>5 DEF WritesWell
  <2>7. QED
    BY <1>1, <2>3, <2>4, <2>6
<1>3. CASE Setup(p)
  <2> DEFINE with == [EnsureSender(stored) EXCEPT !.api = TRUE]
             st == EnsureIdentity(with)
             me == Active(st)
             c == [Idle EXCEPT !.pc = "write", !.next = "start", !.state = st, !.me = me]
  <2>1. /\ st \in StoredState /\ Prepares(stored, st) /\ me \in DOMAIN st.senders
        /\ st.senders[me].keys # 0
    BY <1>1, SetupState DEF Prepares
  <2>2. me \in Nat /\ me # 0
    BY <2>1 DEF StoredState
  <2>3. Open(p, c)
    BY <1>3 DEF Setup
  <2>4. UNCHANGED <<file, server, clock, faults, own, stored>> /\ made' \in {made, made + 1}
    BY <1>3 DEF Setup
  <2> HIDE DEF st, me
  <2>5. /\ c \in Command /\ CommandFits(c, sessions, accepted)
        /\ c.pc = "write" /\ c.next = "start" /\ c.state = st /\ c.me = me
    <3>1. c \in Command /\ CommandFits(c, sessions, accepted)
      BY <1>1, <2>1, <2>2, OpenWriteFits
    <3>2. c.pc = "write" /\ c.next = "start" /\ c.state = st /\ c.me = me
      BY IdleType DEF Command
    <3>3. QED
      BY <3>1, <3>2
  <2> HIDE DEF c
  <2>6. WritesWell(c)
    BY <2>1, <2>5 DEF WritesWell
  <2>7. QED
    BY <1>1, <2>3, <2>4, <2>6
<1>4. ASSUME NEW i \in DOMAIN stored.senders, Revoke(p, i)
      PROVE  /\ UNCHANGED <<file, server, clock, faults, own, stored>> /\ made' \in Nat
             /\ \E c : Open(p, c) /\ WritesWell(c)
  <2> DEFINE st == Revoked(stored, i)
             c == [Idle EXCEPT !.pc = "write", !.state = st]
  <2>1. /\ st \in StoredState /\ st.messages = stored.messages
        /\ DOMAIN st.senders = DOMAIN stored.senders
        /\ st.senders[i].revoked = TRUE /\ st.senders[i].keys = stored.senders[i].keys
        /\ st.senders[i].session = stored.senders[i].session
        /\ st.senders[i].id = stored.senders[i].id
        /\ \A j \in DOMAIN stored.senders : j # i => st.senders[j] = stored.senders[j]
    BY <1>1, SetRevoked
  <2>2. c = [Idle EXCEPT !.pc = "write", !.next = "idle", !.state = st, !.me = 0]
    BY IdleType DEF Command
  <2>3. Open(p, c)
    BY <1>4 DEF Revoke, Revoked
  <2>4. UNCHANGED <<file, server, clock, made, faults, own, stored>>
    BY <1>4 DEF Revoke
  <2> HIDE DEF st
  <2>5. /\ c \in Command /\ CommandFits(c, sessions, accepted)
        /\ c.pc = "write" /\ c.next = "idle" /\ c.state = st
    <3>1. c \in Command /\ CommandFits(c, sessions, accepted)
      BY <1>1, <2>1, <2>2, OpenWriteFits
    <3>2. c.pc = "write" /\ c.next = "idle" /\ c.state = st
      BY IdleType DEF Command
    <3>3. QED
      BY <3>1, <3>2
  <2> HIDE DEF c
  <2>6. Extends(stored, st)
    BY <2>1 DEF Extends
  <2>7. Prepares(stored, st)
    BY <2>1, <2>6 DEF Prepares
  <2>8. WritesWell(c)
    BY <2>5, <2>7 DEF WritesWell
  <2>9. QED
    BY <1>1, <2>3, <2>4, <2>8
<1>5. QED
  BY <1>2, <1>3, <1>4, SendOpens DEF Writes

\* These commands keep the types.
LEMMA WritesTypes ==
    ASSUME TypeInv, NEW p \in Process, Writes(p)
    PROVE  TypeInv'
<1>1. own' \in BOOLEAN
  BY WriteOpens DEF TypeInv, CliTypeOK
<1>2. PICK c : Open(p, c) /\ WritesWell(c)
  BY WriteOpens
<1>3. QED
  BY <1>1, <1>2, WriteOpens, OpenTypes DEF WritesWell

\* So do the other commands that start.
LEMMA StatusTypes ==
    ASSUME TypeInv, NEW p \in Process, NEW s \in DOMAIN sessions, Status(p, s)
    PROVE  TypeInv'
<1> DEFINE me == Active(stored)
           c == [Idle EXCEPT !.pc = "ask", !.state = stored, !.me = me, !.session = s]
<1>1. stored \in StoredState /\ made \in Nat /\ s \in Nat /\ own \in BOOLEAN
  BY DEF TypeInv, CliTypeOK
<1>2. me \in Nat /\ (me = 0 \/ me \in DOMAIN stored.senders)
  BY <1>1, ActiveIsFirst DEF StoredState
<1>3. Open(p, c)
  BY DEF Status
<1>4. UNCHANGED <<file, server, clock, made, faults, stored>> /\ own' \in BOOLEAN
  BY <1>1 DEF Status
<1> HIDE DEF me
<1>5. c \in Command
  BY <1>1, <1>2, IdleType DEF Command, Pc
<1>6. c.pc = "ask" /\ c.next = "idle" /\ c.state = stored /\ c.me = me /\ c.session = s
  BY IdleType DEF Command
<1> HIDE DEF c
<1>7. CommandFits(c, sessions, accepted)
  BY <1>2, <1>6 DEF CommandFits
<1>8. made' \in Nat
  BY <1>1, <1>4
<1>9. QED
  BY <1>3, <1>4, <1>5, <1>7, <1>8, OpenTypes

\* The wait of the MCP server.
LEMMA WaitToolTypes ==
    ASSUME TypeInv, NEW p \in Process, NEW m \in DOMAIN accepted, NEW want \in Wanted,
           WaitTool(p, m, want)
    PROVE  TypeInv'
<1> DEFINE c == [Idle EXCEPT !.pc = "await", !.message = m, !.want = want]
<1>1. made \in Nat /\ m \in Nat /\ own \in BOOLEAN /\ want \in DeliveryState
  BY CliAssumption DEF TypeInv, CliTypeOK
<1>2. Open(p, c)
  BY DEF WaitTool
<1>3. UNCHANGED <<file, server, clock, made, faults, own, stored>>
  BY DEF WaitTool
<1>4. c \in Command
  BY <1>1, IdleType DEF Command, Pc
<1>5. c.pc = "await" /\ c.next = "idle" /\ c.me = 0 /\ c.message = m
  BY IdleType DEF Command
<1> HIDE DEF c
<1>6. CommandFits(c, sessions, accepted)
  BY <1>5 DEF CommandFits
<1>7. made' \in Nat /\ own' \in BOOLEAN
  BY <1>1, <1>3
<1>8. QED
  BY <1>2, <1>3, <1>4, <1>6, <1>7, OpenTypes

\* What Save leaves behind.
LEMMA SaveIs ==
    ASSUME TypeInv, NEW p \in Process, NEW st \in StoredState, Save(p, st, "idle"),
           DOMAIN st.senders = DOMAIN proc[p].state.senders,
           NEW ses, NEW acc
    PROVE  \E c \in Command :
              /\ proc' = [proc EXCEPT ![p] = c] /\ CommandFits(c, ses, acc)
              /\ c.pc = "write" /\ c.next = "idle" /\ c.state = st
<1> DEFINE c == [proc[p] EXCEPT !.pc = "write", !.next = "idle", !.state = st]
<1>1. proc[p] \in Command /\ CommandFits(proc[p], sessions, accepted)
  BY DEF TypeInv, CliTypeOK
<1>2. c \in Command /\ c.pc = "write" /\ c.next = "idle" /\ c.state = st /\ c.me = proc[p].me
  BY <1>1 DEF Command, Pc
<1>3. proc' = [proc EXCEPT ![p] = c]
  BY DEF Save
<1> HIDE DEF c
<1>4. CommandFits(c, ses, acc)
  BY <1>1, <1>2 DEF CommandFits
<1>5. QED
  BY <1>2, <1>3, <1>4

\* The session a command starts has the keys of its sender.
LEMMA StartedIs ==
    ASSUME TypeInv, NEW p \in Process, proc[p].pc = "start"
    PROVE  /\ proc[p].me \in DOMAIN proc[p].state.senders
           /\ Started(p) \in Seq(SessionRow)
           /\ DOMAIN Started(p) = DOMAIN sessions \cup {Len(sessions) + 1}
           /\ Len(sessions) + 1 \in Nat \ {0} /\ Len(sessions) + 1 \notin DOMAIN sessions
           /\ \A s \in DOMAIN sessions : Started(p)[s] = sessions[s]
           /\ Started(p)[Len(sessions) + 1].keys = proc[p].state.senders[proc[p].me].keys
<1> DEFINE me == proc[p].me
           x == [keys |-> proc[p].state.senders[me].keys, status |-> "pending"]
<1>1. proc[p] \in Command /\ CommandFits(proc[p], sessions, accepted) /\ sessions \in Seq(SessionRow)
  BY DEF TypeInv, CliTypeOK
<1>2. me \in DOMAIN proc[p].state.senders /\ proc[p].state \in StoredState
  BY <1>1 DEF CommandFits, Command
<1>3. proc[p].state.senders[me] \in Sender
  BY <1>2 DEF StoredState
<1>4. x \in SessionRow /\ x.keys = proc[p].state.senders[me].keys
  BY <1>3 DEF SessionRow, Sender
<1>5. Started(p) = Append(sessions, x)
  BY DEF Started
<1> HIDE DEF x
<1>6. /\ Started(p) \in Seq(SessionRow) /\ Len(Started(p)) = Len(sessions) + 1
      /\ \A i \in 1..Len(sessions) : Started(p)[i] = sessions[i]
      /\ Started(p)[Len(sessions) + 1] = x
      /\ Len(sessions) \in Nat
  BY <1>1, <1>4, <1>5, AppendProperties
<1>7. DOMAIN Started(p) = 1..(Len(sessions) + 1) /\ DOMAIN sessions = 1..Len(sessions)
  BY <1>1, <1>6
<1>8. QED
  BY <1>2, <1>4, <1>6, <1>7

\* A message is accepted behind the others.
LEMMA AcceptedIs ==
    ASSUME TypeInv, NEW p \in Process, proc[p].pc = "post"
    PROVE  /\ proc[p].me \in DOMAIN proc[p].state.senders
           /\ Accepted(p) \in Seq(MessageRow)
           /\ DOMAIN Accepted(p) = DOMAIN accepted \cup {Len(accepted) + 1}
           /\ Len(accepted) + 1 \in Nat /\ Len(accepted) + 1 \notin DOMAIN accepted
           /\ \A m \in DOMAIN accepted : Accepted(p)[m] = accepted[m]
<1> DEFINE me == proc[p].me
           x == [sender |-> proc[p].state.senders[me].id, content |-> proc[p].content,
                 at |-> proc[p].at, state |-> "accepted", since |-> clock]
<1>1. /\ proc[p] \in Command /\ CommandFits(proc[p], sessions, accepted)
      /\ accepted \in Seq(MessageRow) /\ clock \in Nat
  BY DEF TypeInv, CliTypeOK
<1>2. /\ me \in DOMAIN proc[p].state.senders /\ proc[p].state \in StoredState
      /\ proc[p].content \in Content /\ proc[p].at \in Nat
  BY <1>1 DEF CommandFits, Command
<1>3. proc[p].state.senders[me] \in Sender
  BY <1>2 DEF StoredState
<1>4. x \in MessageRow
  BY <1>1, <1>2, <1>3 DEF MessageRow, Sender, DeliveryState
<1>5. Accepted(p) = Append(accepted, x)
  BY DEF Accepted
<1> HIDE DEF x
<1>6. /\ Accepted(p) \in Seq(MessageRow) /\ Len(Accepted(p)) = Len(accepted) + 1
      /\ \A i \in 1..Len(accepted) : Accepted(p)[i] = accepted[i]
      /\ Len(accepted) \in Nat
  BY <1>1, <1>4, <1>5, AppendProperties
<1>7. DOMAIN Accepted(p) = 1..(Len(accepted) + 1) /\ DOMAIN accepted = 1..Len(accepted)
  BY <1>1, <1>6
<1>8. QED
  BY <1>2, <1>6, <1>7

\* The steps of a pairing keep the types.
LEMMA PairingTypes ==
    ASSUME TypeInv, NEW p \in Process, StartRemoteSetup(p) \/ SetupBlocked(p) \/ Ask(p)
    PROVE  TypeInv'
<1>1. /\ proc[p] \in Command /\ proc[p].state \in StoredState
      /\ CommandFits(proc[p], sessions, accepted)
      /\ file \in FileKind /\ stored \in StoredState
      /\ accepted \in Seq(MessageRow) /\ made \in Nat
      /\ faults \in 0..MaxFaults /\ started \in 0..MaxCommands /\ lone \in BOOLEAN /\ own \in BOOLEAN
  BY DEF TypeInv, CliTypeOK, Command
<1>2. CASE StartRemoteSetup(p)
  <2> DEFINE n == Len(sessions) + 1
             st == [proc[p].state EXCEPT !.senders[proc[p].me].session = n]
  <2>1. /\ proc[p].pc = "start" /\ sessions' = Started(p) /\ Save(p, st, "idle")
        /\ UNCHANGED <<file, accepted, clock, made, started, faults, lone, own, stored>>
    BY <1>2 DEF StartRemoteSetup
  <2>2. /\ proc[p].me \in DOMAIN proc[p].state.senders /\ n \in Nat
        /\ Started(p) \in Seq(SessionRow) /\ DOMAIN sessions \subseteq DOMAIN Started(p)
    BY <2>1, StartedIs
  <2>3. st \in StoredState /\ DOMAIN st.senders = DOMAIN proc[p].state.senders
    <3> HIDE DEF n
    <3>1. QED
      BY <1>1, <2>2, SetSession
  <2> HIDE DEF st
  <2>4. PICK c \in Command : proc' = [proc EXCEPT ![p] = c] /\ CommandFits(c, sessions', accepted')
    BY <2>1, <2>3, SaveIs
  <2>5. QED
    BY <1>1, <2>1, <2>2, <2>4, TypesKept
<1>3. CASE SetupBlocked(p)
  <2> DEFINE st == proc[p].state
  <2>1. /\ Save(p, st, "idle") /\ st \in StoredState
        /\ DOMAIN st.senders = DOMAIN proc[p].state.senders
        /\ UNCHANGED <<file, server, clock, made, started, faults, lone, own, stored>>
    BY <1>1, <1>3 DEF SetupBlocked
  <2> HIDE DEF st
  <2>2. PICK c \in Command : proc' = [proc EXCEPT ![p] = c] /\ CommandFits(c, sessions, accepted)
    BY <2>1, SaveIs
  <2>3. QED
    BY <1>1, <2>1, <2>2, StepTypes
<1>4. CASE Ask(p)
  <2>1. UNCHANGED <<file, server, clock, made, started, faults, lone, own, stored>>
    BY <1>4 DEF Ask
  <2>2. CASE proc[p].me = 0
    BY <1>4, <2>1, <2>2, FinishTypes DEF Ask
  <2>3. CASE proc[p].me # 0
    <3> DEFINE st == ApplyPairing(proc[p].state, proc[p].me, proc[p].session)
    <3>1. Save(p, st, "idle") /\ proc[p].pc = "ask"
      BY <1>4, <2>3 DEF Ask
    <3>2. proc[p].me \in DOMAIN proc[p].state.senders /\ proc[p].session \in Nat
      BY <1>1, <2>3, <3>1 DEF CommandFits, Command
    <3>3. st \in StoredState /\ DOMAIN st.senders = DOMAIN proc[p].state.senders
      BY <1>1, <3>2, ApplyPairingIs
    <3> HIDE DEF st
    <3>4. PICK c \in Command : proc' = [proc EXCEPT ![p] = c] /\ CommandFits(c, sessions, accepted)
      BY <3>1, <3>3, SaveIs
    <3>5. QED
      BY <1>1, <2>1, <3>4, StepTypes
  <2>4. QED
    BY <2>2, <2>3
<1>5. QED
  BY <1>2, <1>3, <1>4

\* What Refresh leaves: the state as it was, or with the sender's id.
Refreshed(p) ==
    LET me == proc[p].state.senders[proc[p].me]
    IN  IF me.id = 0 /\ me.session # 0
        THEN ApplyPairing(proc[p].state, proc[p].me, me.session) ELSE proc[p].state

\* Refresh changes the id of one sender, to its session.
LEMMA RefreshedIs ==
    ASSUME NEW p \in Process, proc[p].state \in StoredState,
           NEW i, i = proc[p].me, i \in DOMAIN proc[p].state.senders
    PROVE  /\ Refreshed(p) \in StoredState /\ Refreshed(p).messages = proc[p].state.messages
           /\ DOMAIN Refreshed(p).senders = DOMAIN proc[p].state.senders
           /\ \/ Refreshed(p).senders[i].id = proc[p].state.senders[i].id
              \/ Refreshed(p).senders[i].id = proc[p].state.senders[i].session
           /\ Refreshed(p).senders[i].keys = proc[p].state.senders[i].keys
           /\ Refreshed(p).senders[i].session = proc[p].state.senders[i].session
           /\ Refreshed(p).senders[i].revoked = proc[p].state.senders[i].revoked
           /\ \A j \in DOMAIN proc[p].state.senders :
                 j # i => Refreshed(p).senders[j] = proc[p].state.senders[j]
<1> DEFINE me == proc[p].state.senders[i]
<1>1. CASE me.id = 0 /\ me.session # 0
  <2>1. Refreshed(p) = ApplyPairing(proc[p].state, i, me.session)
    BY <1>1 DEF Refreshed
  <2>2. me \in Sender
    BY DEF StoredState
  <2>3. me.session \in Nat
    BY <2>2 DEF Sender
  <2> DEFINE st == proc[p].state
             n == me.session
             new == Refreshed(p)
  <2>4. st \in StoredState /\ i \in DOMAIN st.senders /\ new = ApplyPairing(st, i, n) /\ n \in Nat
    BY <2>1, <2>3
  <2> HIDE DEF st, n, new
  <2>5. /\ new \in StoredState /\ new.messages = st.messages
        /\ DOMAIN new.senders = DOMAIN st.senders
        /\ new.senders[i].id \in {st.senders[i].id, n}
        /\ new.senders[i].keys = st.senders[i].keys
        /\ new.senders[i].session = st.senders[i].session
        /\ new.senders[i].revoked = st.senders[i].revoked
        /\ \A j \in DOMAIN st.senders : j # i => new.senders[j] = st.senders[j]
    BY <2>4, ApplyPairingIs
  <2>6. QED
    BY <2>5, Zenon DEF st, n, new
<1>2. CASE ~(me.id = 0 /\ me.session # 0)
  BY <1>2 DEF Refreshed
<1>3. QED
  BY <1>1, <1>2

\* The record a command keeps of the message it sent.
Recorded(c, n, then) ==
    [c EXCEPT !.pc = "write", !.next = then, !.message = n,
              !.state = [c.state EXCEPT !.messages = @ \cup {n}]]

\* The record is added, and nothing else.
LEMMA RecordedIs ==
    ASSUME NEW c \in Command, NEW n \in Nat, NEW then \in {"idle", "await"},
           NEW new, new = Recorded(c, n, then)
    PROVE  /\ new \in Command /\ new.pc = "write" /\ new.next = then /\ new.message = n
           /\ new.me = c.me /\ new.content = c.content
           /\ new.state.senders = c.state.senders
           /\ new.state.messages = c.state.messages \cup {n}
<1> DEFINE st == [c.state EXCEPT !.messages = c.state.messages \cup {n}]
<1>1. c.state \in StoredState
  BY DEF Command
<1>2. /\ st \in StoredState /\ st.senders = c.state.senders
      /\ st.messages = c.state.messages \cup {n}
  BY <1>1 DEF StoredState
<1>3. new = [c EXCEPT !.pc = "write", !.next = then, !.state = st, !.message = n]
  BY DEF Recorded
<1> HIDE DEF st
<1>4. /\ new \in Command /\ new.pc = "write" /\ new.next = then /\ new.message = n
      /\ new.me = c.me /\ new.content = c.content /\ new.state = st
  BY <1>2, <1>3 DEF Command, Pc
<1>5. QED
  BY <1>2, <1>4

\* Asking for the sender's session and sending the message keep the types.
LEMMA SendingTypes ==
    ASSUME TypeInv, NEW p \in Process, Refresh(p) \/ Post(p)
    PROVE  TypeInv'
<1>1. /\ proc[p] \in Command /\ proc[p].state \in StoredState
      /\ CommandFits(proc[p], sessions, accepted)
      /\ file \in FileKind /\ stored \in StoredState
      /\ sessions \in Seq(SessionRow) /\ made \in Nat
      /\ faults \in 0..MaxFaults /\ started \in 0..MaxCommands /\ lone \in BOOLEAN /\ own \in BOOLEAN
  BY DEF TypeInv, CliTypeOK, Command
<1>2. CASE Refresh(p)
  <2> DEFINE st == Refreshed(p)
  <2>1. /\ proc[p].pc = "refresh"
        /\ UNCHANGED <<file, server, clock, made, started, faults, lone, own, stored>>
        /\ \/ Save(p, st, "idle")
           \/ proc' = [proc EXCEPT ![p] = [proc[p] EXCEPT !.pc = "post", !.state = st]]
    BY <1>2 DEF Refresh, Refreshed
  <2>2. proc[p].me \in DOMAIN proc[p].state.senders
    BY <1>1, <2>1 DEF CommandFits
  <2>3. st \in StoredState /\ DOMAIN st.senders = DOMAIN proc[p].state.senders
    BY <1>1, <2>2, RefreshedIs
  <2> HIDE DEF st
  <2>4. CASE Save(p, st, "idle")
    <3>1. PICK c \in Command : proc' = [proc EXCEPT ![p] = c] /\ CommandFits(c, sessions, accepted)
      BY <2>3, <2>4, SaveIs
    <3>2. QED
      BY <1>1, <2>1, <3>1, StepTypes
  <2>5. CASE proc' = [proc EXCEPT ![p] = [proc[p] EXCEPT !.pc = "post", !.state = st]]
    <3> DEFINE c == [proc[p] EXCEPT !.pc = "post", !.state = st]
    <3>1. /\ c \in Command /\ c.pc = "post" /\ c.next = proc[p].next /\ c.me = proc[p].me
          /\ c.state = st /\ c.content = proc[p].content
      BY <1>1, <2>3 DEF Command, Pc
    <3> HIDE DEF c
    <3>2. CommandFits(c, sessions, accepted)
      BY <1>1, <2>1, <2>3, <3>1 DEF CommandFits
    <3>3. proc' = [proc EXCEPT ![p] = c]
      BY <2>5 DEF c
    <3>4. QED
      BY <1>1, <2>1, <3>1, <3>2, <3>3, StepTypes
  <2>6. QED
    BY <2>1, <2>4, <2>5
<1>3. CASE Post(p)
  <2>1. /\ proc[p].pc = "post"
        /\ UNCHANGED <<file, sessions, clock, made, started, faults, lone, own, stored>>
    BY <1>3 DEF Post
  <2>2. CASE MayAct(proc[p].state.senders[proc[p].me])
    <3> DEFINE n == Len(accepted) + 1
               then == IF proc[p].want = "none" THEN "idle" ELSE "await"
               c == Recorded(proc[p], n, then)
    <3>1. accepted' = Accepted(p) /\ proc' = [proc EXCEPT ![p] = c]
      BY <1>3, <2>2 DEF Post, Recorded
    <3>2. /\ Accepted(p) \in Seq(MessageRow) /\ n \in Nat
          /\ DOMAIN Accepted(p) = DOMAIN accepted \cup {n}
      BY <2>1, AcceptedIs
    <3>3. then \in {"idle", "await"}
      OBVIOUS
    <3> HIDE DEF n, then
    <3>4. /\ c \in Command /\ c.pc = "write" /\ c.next = then /\ c.message = n
          /\ c.me = proc[p].me /\ c.content = proc[p].content
          /\ c.state.senders = proc[p].state.senders
      BY <1>1, <3>2, <3>3, RecordedIs
    <3> HIDE DEF c
    <3>5. CommandFits(c, sessions', accepted')
      BY <1>1, <3>1, <3>2, <3>3, <3>4 DEF CommandFits
    <3>6. QED
      BY <1>1, <2>1, <3>1, <3>2, <3>4, <3>5, TypesKept
  <2>3. CASE ~MayAct(proc[p].state.senders[proc[p].me])
    <3>1. Finish(p) /\ UNCHANGED <<file, server, clock, made, started, faults, lone, own, stored>>
      BY <1>3, <2>1, <2>3 DEF Post, server
    <3>2. QED
      BY <3>1, FinishTypes
  <2>4. QED
    BY <2>2, <2>3
<1>4. QED
  BY <1>2, <1>3

\* The wait reads the file again.
LEMMA AwaitIs ==
    ASSUME TypeInv, NEW p \in Process, Await(p), Readable
    PROVE  \E c \in Command :
              /\ proc' = [proc EXCEPT ![p] = c] /\ CommandFits(c, sessions, accepted)
              /\ c.pc = "poll" /\ c.next = "idle" /\ c.state = stored
              /\ c.message = proc[p].message /\ c.wake = clock /\ c.until = clock + Timeout
<1> DEFINE i == Active(stored)
           far == stored.api /\ i # 0 /\ stored.senders[i].id # 0
           c == [proc[p] EXCEPT !.pc = "poll", !.state = stored, !.me = i, !.wake = clock,
                                !.remote = far, !.until = clock + Timeout]
<1>1. /\ proc[p] \in Command /\ CommandFits(proc[p], sessions, accepted)
      /\ stored \in StoredState /\ clock \in Nat /\ clock + Timeout \in Nat
  BY CliAssumption DEF TypeInv, CliTypeOK
<1>2. i \in Nat /\ (i = 0 \/ i \in DOMAIN stored.senders)
  BY <1>1, ActiveIsFirst DEF StoredState
<1>3. proc[p].pc = "await" /\ proc' = [proc EXCEPT ![p] = c]
  BY DEF Await
<1>4. far \in BOOLEAN
  BY <1>1 DEF StoredState
<1> HIDE DEF i, far
<1>5. /\ c \in Command /\ c.pc = "poll" /\ c.next = proc[p].next /\ c.state = stored /\ c.me = i
      /\ c.message = proc[p].message /\ c.content = proc[p].content
      /\ c.wake = clock /\ c.until = clock + Timeout
  BY <1>1, <1>2, <1>4 DEF Command, Pc
<1> HIDE DEF c
<1>6. CommandFits(c, sessions, accepted) /\ c.next = "idle"
  BY <1>1, <1>2, <1>3, <1>5 DEF CommandFits
<1>7. QED
  BY <1>3, <1>5, <1>6

\* A poll that does not end the wait sets the next one.
LEMMA PollIs ==
    ASSUME TypeInv, NEW p \in Process, Poll(p)
    PROVE  \/ Finish(p) /\ Observed(p) \in {proc[p].want, "none"}
           \/ /\ Observed(p) \notin {proc[p].want, "none"}
              /\ \E c \in Command :
                    /\ proc' = [proc EXCEPT ![p] = c] /\ CommandFits(c, sessions, accepted)
                    /\ c.pc = "poll" /\ c.state = proc[p].state /\ c.remote = proc[p].remote
                    /\ c.me = proc[p].me /\ c.message = proc[p].message
                    /\ c.want = proc[p].want /\ c.next = proc[p].next
                    /\ c.wake = clock + Interval /\ c.until = proc[p].until
<1> DEFINE c == [proc[p] EXCEPT !.wake = clock + Interval]
<1>1. /\ proc[p] \in Command /\ CommandFits(proc[p], sessions, accepted)
      /\ clock + Interval \in Nat
  BY CliAssumption DEF TypeInv, CliTypeOK
<1>2. CASE Observed(p) \in {proc[p].want, "none"}
  BY <1>2 DEF Poll
<1>3. CASE Observed(p) \notin {proc[p].want, "none"}
  <2>1. proc[p].pc = "poll" /\ proc' = [proc EXCEPT ![p] = c]
    BY <1>3 DEF Poll, Due
  <2>2. /\ c \in Command /\ c.pc = proc[p].pc /\ c.state = proc[p].state /\ c.me = proc[p].me
        /\ c.message = proc[p].message /\ c.want = proc[p].want /\ c.next = proc[p].next
        /\ c.content = proc[p].content
        /\ c.wake = clock + Interval /\ c.until = proc[p].until
    BY <1>1 DEF Command
  <2>3. c.remote = proc[p].remote
    BY <1>1 DEF Command
  <2> HIDE DEF c
  <2>4. CommandFits(c, sessions, accepted)
    BY <1>1, <2>1, <2>2 DEF CommandFits
  <2>5. QED
    BY <1>3, <2>1, <2>2, <2>3, <2>4
<1>4. QED
  BY <1>2, <1>3

\* A wait keeps the types.
LEMMA WaitTypes ==
    ASSUME TypeInv, NEW p \in Process, Await(p) \/ Poll(p) \/ GiveUp(p)
    PROVE  TypeInv'
<1>1. UNCHANGED <<file, server, clock, made, started, faults, lone, own, stored>>
  BY DEF Await, Poll, GiveUp
<1>2. file' \in FileKind /\ stored' \in StoredState
  BY <1>1 DEF TypeInv, CliTypeOK
<1>3. CASE Finish(p)
  BY <1>1, <1>3, FinishTypes
<1>4. CASE Await(p) /\ Readable
  BY <1>1, <1>2, <1>4, AwaitIs, StepTypes
<1>5. CASE Poll(p) /\ ~Finish(p)
  BY <1>1, <1>2, <1>5, PollIs, StepTypes
<1>6. QED
  BY <1>3, <1>4, <1>5 DEF Await, GiveUp

\* A command that is cut off keeps the types, whatever the server did.
LEMMA FaultTypes ==
    ASSUME TypeInv, NEW p \in Process, RequestFails(p) \/ Crash(p)
    PROVE  TypeInv'
<1>1. /\ UNCHANGED <<file, clock, made, started, lone, own, stored>>
      /\ proc' = [proc EXCEPT ![p] = Idle]
      /\ faults < MaxFaults /\ faults' = faults + 1
  BY DEF RequestFails, Crash, Finish
<1>2. /\ file' \in FileKind /\ stored' \in StoredState /\ made' \in Nat /\ clock' = clock
      /\ started' \in 0..MaxCommands /\ faults' \in 0..MaxFaults
      /\ lone' \in BOOLEAN /\ own' \in BOOLEAN
      /\ sessions \in Seq(SessionRow) /\ accepted \in Seq(MessageRow)
  BY <1>1, CliAssumption DEF TypeInv, CliTypeOK
<1>3. \/ sessions' = sessions /\ accepted' = accepted
      \/ proc[p].pc = "start" /\ sessions' = Started(p) /\ accepted' = accepted
      \/ proc[p].pc = "post" /\ accepted' = Accepted(p) /\ sessions' = sessions
  BY DEF RequestFails, Crash, server
<1>4. /\ sessions' \in Seq(SessionRow) /\ DOMAIN sessions \subseteq DOMAIN sessions'
      /\ accepted' \in Seq(MessageRow) /\ DOMAIN accepted \subseteq DOMAIN accepted'
  BY <1>2, <1>3, StartedIs, AcceptedIs
<1>5. QED
  BY <1>1, <1>2, <1>4, IdleType, IdleFits, TypesKept

\* A session's keys and a message's content stay when its state moves.
LEMMA SessionMovesIs ==
    ASSUME TypeInv, NEW s \in DOMAIN sessions, SessionMoves(s)
    PROVE  /\ sessions' \in Seq(SessionRow) /\ DOMAIN sessions' = DOMAIN sessions
           /\ \A t \in DOMAIN sessions : sessions'[t].keys = sessions[t].keys
<1>1. /\ sessions \in Seq(SessionRow) /\ s \in 1..Len(sessions) /\ DOMAIN sessions = 1..Len(sessions)
      /\ sessions[s] \in SessionRow
  BY DEF TypeInv, CliTypeOK
<1>2. PICK to \in {"paired", "expired"} : sessions' = [sessions EXCEPT ![s].status = to]
  BY DEF SessionMoves
<1> DEFINE x == [sessions[s] EXCEPT !.status = to]
<1>3. x \in SessionRow /\ x.keys = sessions[s].keys
  BY <1>1 DEF SessionRow
<1>4. sessions' = [sessions EXCEPT ![s] = x]
  BY <1>2
<1> HIDE DEF x
<1>5. /\ sessions' \in Seq(SessionRow) /\ DOMAIN sessions' = DOMAIN sessions
      /\ \A t \in DOMAIN sessions : sessions'[t] = IF t = s THEN x ELSE sessions[t]
  BY <1>1, <1>3, <1>4, ExceptSeq
<1>6. QED
  BY <1>3, <1>5

\* A message that moves was not answered, and has moved now.
LEMMA MessageMovesIs ==
    ASSUME TypeInv, NEW m \in DOMAIN accepted, MessageMoves(m)
    PROVE  /\ accepted' \in Seq(MessageRow) /\ DOMAIN accepted' = DOMAIN accepted
           /\ accepted[m].state # "responded"
           /\ accepted'[m].since = clock
           /\ \A n \in DOMAIN accepted : n # m => accepted'[n] = accepted[n]
<1>1. /\ accepted \in Seq(MessageRow) /\ m \in 1..Len(accepted) /\ DOMAIN accepted = 1..Len(accepted)
      /\ accepted[m] \in MessageRow /\ clock \in Nat
  BY DEF TypeInv, CliTypeOK
<1>2. PICK to \in DeliveryState :
         /\ accepted' = [accepted EXCEPT ![m].state = to, ![m].since = clock]
         /\ accepted[m].state # "responded"
  BY DEF MessageMoves
<1> DEFINE x == [accepted[m] EXCEPT !.state = to, !.since = clock]
<1>3. x \in MessageRow /\ x.since = clock
  BY <1>1 DEF MessageRow
<1>4. accepted' = [accepted EXCEPT ![m] = x]
  BY <1>1, <1>2
<1> HIDE DEF x
<1>5. /\ accepted' \in Seq(MessageRow) /\ DOMAIN accepted' = DOMAIN accepted
      /\ \A n \in DOMAIN accepted : accepted'[n] = IF n = m THEN x ELSE accepted[n]
  BY <1>1, <1>3, <1>4, ExceptSeq
<1>6. QED
  BY <1>2, <1>3, <1>5

\* What the server and the clock do by themselves keeps the types.
LEMMA EnvironmentTypes ==
    ASSUME TypeInv,
           \/ \E s \in DOMAIN sessions : SessionMoves(s)
           \/ \E m \in DOMAIN accepted : MessageMoves(m)
           \/ Tick
           \/ UNCHANGED vars
    PROVE  TypeInv'
<1>1. /\ UNCHANGED <<file, proc, made, started, faults, lone, own, stored>>
      /\ clock' \in Nat
  <2>1. clock \in Nat
    BY DEF TypeInv, CliTypeOK
  <2>2. CASE \E s \in DOMAIN sessions : SessionMoves(s)
    BY <2>1, <2>2 DEF SessionMoves
  <2>3. CASE \E m \in DOMAIN accepted : MessageMoves(m)
    BY <2>1, <2>3 DEF MessageMoves
  <2>4. CASE Tick
    BY <2>1, <2>4 DEF Tick
  <2>5. CASE UNCHANGED vars
    BY <2>1, <2>5 DEF vars
  <2>6. QED
    BY <2>2, <2>3, <2>4, <2>5
<1>2. /\ sessions' \in Seq(SessionRow) /\ DOMAIN sessions' = DOMAIN sessions
      /\ accepted' \in Seq(MessageRow) /\ DOMAIN accepted' = DOMAIN accepted
  <2>1. CASE \E s \in DOMAIN sessions : SessionMoves(s)
    BY <2>1, SessionMovesIs DEF SessionMoves, TypeInv, CliTypeOK
  <2>2. CASE \E m \in DOMAIN accepted : MessageMoves(m)
    BY <2>2, MessageMovesIs DEF MessageMoves, TypeInv, CliTypeOK
  <2>3. CASE Tick \/ UNCHANGED vars
    BY <2>3 DEF Tick, vars, server, TypeInv, CliTypeOK
  <2>4. QED
    BY <2>1, <2>2, <2>3
<1>3. CliTypeOK'
  BY <1>1, <1>2 DEF TypeInv, CliTypeOK
<1>4. \A p \in Process : CommandFits(proc'[p], sessions', accepted')
  BY <1>1, <1>2 DEF TypeInv, CommandFits
<1>5. QED
  BY <1>3, <1>4 DEF TypeInv

\* The types hold at the start.
LEMMA InitTypes == Init => TypeInv
<1> SUFFICES ASSUME Init PROVE TypeInv
  OBVIOUS
<1>1. /\ file \in FileKind /\ stored \in StoredState /\ proc \in [Process -> Command]
  BY IdleType, DefaultStateType DEF Init, FileKind
<1>2. /\ sessions \in Seq(SessionRow) /\ accepted \in Seq(MessageRow)
  BY DEF Init
<1>3. /\ clock \in Nat /\ made \in Nat /\ started \in 0..MaxCommands
      /\ faults \in 0..MaxFaults /\ lone \in BOOLEAN /\ own \in BOOLEAN
  BY CliAssumption DEF Init
<1>4. \A p \in Process : CommandFits(proc[p], sessions, accepted)
  BY IdleFits DEF Init
<1>5. QED
  BY <1>1, <1>2, <1>3, <1>4 DEF TypeInv, CliTypeOK

\* Every step is one of these.
LEMMA StepsOfNext ==
    ASSUME [Next]_vars
    PROVE  \/ \E p \in Process :
                 \/ Writes(p)
                 \/ \E s \in DOMAIN sessions : Status(p, s)
                 \/ \E m \in DOMAIN accepted, want \in Wanted : WaitTool(p, m, want)
                 \/ BeginWrite(p) \/ EndWrite(p)
                 \/ StartRemoteSetup(p) \/ SetupBlocked(p) \/ Ask(p)
                 \/ Refresh(p) \/ Post(p) \/ Await(p) \/ Poll(p) \/ GiveUp(p)
                 \/ RequestFails(p) \/ Crash(p)
           \/ \E s \in DOMAIN sessions : SessionMoves(s)
           \/ \E m \in DOMAIN accepted : MessageMoves(m)
           \/ Tick
           \/ UNCHANGED vars
<1>1. CASE \E p \in Terminal : RunCli(p)
  BY <1>1 DEF RunCli, HandleSetup, HandleSend, Process, Writes
<1>2. CASE \E p \in ToolServer : Serve(p)
  BY <1>2 DEF Serve, CallTool, Process, Writes
<1>3. CASE \E p \in Process : Continue(p) \/ Fault(p)
  BY <1>3 DEF Continue, Fault
<1>4. QED
  BY <1>1, <1>2, <1>3 DEF Next

\* Every step keeps the types.
LEMMA NextTypes == TypeInv /\ [Next]_vars => TypeInv'
<1> SUFFICES ASSUME TypeInv, [Next]_vars PROVE TypeInv'
  OBVIOUS
<1>1. QED
  BY StepsOfNext, WritesTypes, StatusTypes, WaitToolTypes, WriteTypes, PairingTypes,
     SendingTypes, WaitTypes, FaultTypes, EnvironmentTypes

\* The file, the commands and the server's rows are well typed in every state.
THEOREM CliTypes == Spec => []CliTypeOK
<1>1. Spec => []TypeInv
  BY InitTypes, NextTypes, PTL DEF Spec
<1>2. TypeInv => CliTypeOK
  BY DEF TypeInv
<1>3. QED
  BY <1>1, <1>2, PTL

-----------------------------------------------------------------------------
(* Whose keys a session has *)

\* The id and the session of every sender are the server's, with that sender's keys.
Backed(st, ses) ==
    \A i \in DOMAIN st.senders :
        LET x == st.senders[i] IN
        /\ x.id # 0 => x.id \in DOMAIN ses /\ ses[x.id].keys = x.keys
        /\ x.session # 0 => x.session \in DOMAIN ses /\ ses[x.session].keys = x.keys

\* No session was started without keys.
KeysMade(ses) == \A s \in DOMAIN ses : ses[s].keys # 0

\* What a command knows about keys, where each status was asked by its own sender.
KnowsKeys(c, ses, mine) ==
    /\ c.pc = "start" \/ c.next = "start" => c.state.senders[c.me].keys # 0
    /\ mine => Backed(c.state, ses)
    /\ mine /\ c.pc = "ask" /\ c.me # 0 => c.state.senders[c.me].session = c.session

KeyInv ==
    /\ KeysMade(sessions)
    /\ own => Backed(stored, sessions)
    /\ \A p \in Process : KnowsKeys(proc[p], sessions, own)

\* Sessions are only added, and keep their keys.
SessionsStay(old, new) == \A s \in DOMAIN old : s \in DOMAIN new /\ new[s].keys = old[s].keys

\* What is backed stays backed when sessions are added.
LEMMA BackedStays ==
    ASSUME NEW st, NEW old, NEW new, Backed(st, old), SessionsStay(old, new)
    PROVE  Backed(st, new)
BY DEF Backed, SessionsStay

\* A prepared state is backed like the one it was prepared from: only senders without
\* keys, which no session knows, get keys.
LEMMA PreparedBacked ==
    ASSUME NEW st \in StoredState, NEW new, NEW ses, Prepares(st, new), Backed(st, ses), KeysMade(ses)
    PROVE  Backed(new, ses)
<1> SUFFICES ASSUME NEW i \in DOMAIN new.senders
             PROVE  LET x == new.senders[i] IN
                    /\ x.id # 0 => x.id \in DOMAIN ses /\ ses[x.id].keys = x.keys
                    /\ x.session # 0 => x.session \in DOMAIN ses /\ ses[x.session].keys = x.keys
  BY DEF Backed
<1>1. CASE new.senders[i].id = 0 /\ new.senders[i].session = 0
  BY <1>1
<1>2. CASE /\ i \in DOMAIN st.senders
           /\ new.senders[i].id = st.senders[i].id
           /\ new.senders[i].session = st.senders[i].session
           /\ st.senders[i].keys \in {0, new.senders[i].keys}
  BY <1>2 DEF Backed, KeysMade
<1>3. QED
  BY <1>1, <1>2 DEF Prepares

\* The default state is backed.
LEMMA DefaultBacked ==
    ASSUME NEW ses
    PROVE  Backed(DefaultState, ses)
BY DefaultStateType DEF Backed

\* An idle process knows enough.
LEMMA IdleKnowsKeys ==
    ASSUME NEW ses, NEW mine
    PROVE  KnowsKeys(Idle, ses, mine)
BY IdleType, DefaultBacked DEF KnowsKeys

\* A step of one process keeps what is known about keys.
LEMMA KeysKept ==
    ASSUME TypeInv, KeyInv, NEW p \in Process, NEW c, proc' = [proc EXCEPT ![p] = c],
           KnowsKeys(c, sessions', own'), own' => own,
           SessionsStay(sessions, sessions'), KeysMade(sessions'),
           own' => Backed(stored', sessions')
    PROVE  KeyInv'
<1>1. \A q \in Process : proc'[q] = IF q = p THEN c ELSE proc[q]
  BY DEF TypeInv, CliTypeOK
<1>2. ASSUME NEW q \in Process PROVE KnowsKeys(proc'[q], sessions', own')
  <2>1. CASE q = p
    BY <1>1, <2>1
  <2>2. CASE q # p
    BY <1>1, <2>2, BackedStays DEF KeyInv, KnowsKeys
  <2>3. QED
    BY <2>1, <2>2
<1>3. QED
  BY <1>2 DEF KeyInv

\* The same, where sessions and the file stay.
LEMMA KeysAside ==
    ASSUME TypeInv, KeyInv, NEW p \in Process, NEW c, proc' = [proc EXCEPT ![p] = c],
           KnowsKeys(c, sessions, own'), own' => own, UNCHANGED <<sessions, stored>>
    PROVE  KeyInv'
<1>1. SessionsStay(sessions, sessions')
  BY DEF SessionsStay
<1>2. /\ KnowsKeys(c, sessions', own') /\ KeysMade(sessions')
      /\ own' => Backed(stored', sessions')
  BY DEF KeyInv
<1>3. QED
  BY <1>1, <1>2, KeysKept

\* A state that is about to be written needs only be backed.
LEMMA WriteKnowsKeys ==
    ASSUME NEW c, NEW ses, NEW mine, c.pc = "write", c.next # "start",
           mine => Backed(c.state, ses)
    PROVE  KnowsKeys(c, ses, mine)
BY DEF KnowsKeys

\* Commands that prepare a state keep what is known about keys.
LEMMA WritesKeys ==
    ASSUME TypeInv, KeyInv, NEW p \in Process, Writes(p)
    PROVE  KeyInv'
<1>1. UNCHANGED <<sessions, own, stored>>
  BY WriteOpens DEF server
<1>2. PICK c : Open(p, c) /\ WritesWell(c)
  BY WriteOpens
<1>3. stored \in StoredState
  BY DEF TypeInv, CliTypeOK
<1>4. own => Backed(c.state, sessions)
  BY <1>2, <1>3, PreparedBacked DEF WritesWell, KeyInv
<1>5. KnowsKeys(c, sessions, own)
  BY <1>2, <1>4 DEF WritesWell, KnowsKeys
<1>6. proc' = [proc EXCEPT ![p] = c]
  BY <1>2 DEF Open
<1>7. QED
  BY <1>1, <1>5, <1>6, KeysAside

\* So does a status: where it is of the sender itself, its session is the one asked for.
LEMMA StatusKeys ==
    ASSUME TypeInv, KeyInv, NEW p \in Process, NEW s \in DOMAIN sessions, Status(p, s)
    PROVE  KeyInv'
<1> DEFINE me == Active(stored)
           c == [Idle EXCEPT !.pc = "ask", !.state = stored, !.me = me, !.session = s]
<1>1. /\ proc' = [proc EXCEPT ![p] = c] /\ UNCHANGED <<sessions, stored>>
      /\ own' = (own /\ (me # 0 => stored.senders[me].session = s))
  BY DEF Status, Open, server
<1>2. c.pc = "ask" /\ c.next = "idle" /\ c.state = stored /\ c.me = me /\ c.session = s
  BY IdleType DEF Command
<1> HIDE DEF c, me
<1>3. KnowsKeys(c, sessions, own')
  BY <1>1, <1>2 DEF KnowsKeys, KeyInv
<1>4. QED
  BY <1>1, <1>3, KeysAside

\* Only a session of the sender itself gives it its id.
LEMMA PairingKeys ==
    ASSUME TypeInv, KeyInv, NEW p \in Process, StartRemoteSetup(p) \/ SetupBlocked(p) \/ Ask(p)
    PROVE  KeyInv'
<1>1. /\ proc[p] \in Command /\ proc[p].state \in StoredState
      /\ CommandFits(proc[p], sessions, accepted) /\ KnowsKeys(proc[p], sessions, own)
  BY DEF TypeInv, CliTypeOK, Command, KeyInv
<1>2. CASE StartRemoteSetup(p)
  <2> DEFINE n == Len(sessions) + 1
             i == proc[p].me
             old == proc[p].state
             st == [old EXCEPT !.senders[i].session = n]
  <2>1. /\ proc[p].pc = "start" /\ sessions' = Started(p) /\ Save(p, st, "idle")
        /\ UNCHANGED <<own, stored>>
    BY <1>2 DEF StartRemoteSetup
  <2>2. /\ i \in DOMAIN old.senders /\ n \in Nat /\ n # 0
        /\ DOMAIN sessions' = DOMAIN sessions \cup {n} /\ n \notin DOMAIN sessions
        /\ \A s \in DOMAIN sessions : sessions'[s] = sessions[s]
        /\ sessions'[n].keys = old.senders[i].keys
    BY <2>1, StartedIs
  <2>3. old.senders[i].keys # 0
    BY <1>1, <2>1 DEF KnowsKeys
  <2>4. old \in StoredState /\ (own => Backed(old, sessions))
    BY <1>1 DEF KnowsKeys
  <2> HIDE DEF n, i
  <2>5. st = [old EXCEPT !.senders[i].session = n]
    OBVIOUS
  <2> HIDE DEF st, old
  <2>6. /\ st \in StoredState
        /\ DOMAIN st.senders = DOMAIN old.senders
        /\ st.senders[i].session = n /\ st.senders[i].keys = old.senders[i].keys
        /\ st.senders[i].id = old.senders[i].id
        /\ \A j \in DOMAIN old.senders : j # i => st.senders[j] = old.senders[j]
    BY <2>2, <2>4, <2>5, SetSession
  <2>7. SessionsStay(sessions, sessions') /\ KeysMade(sessions')
    BY <2>2, <2>3 DEF SessionsStay, KeysMade, KeyInv
  <2>8. own => Backed(st, sessions')
    <3>1. SUFFICES ASSUME own PROVE Backed(st, sessions')
      OBVIOUS
    <3>2. Backed(old, sessions')
      BY <2>4, <2>7, <3>1, BackedStays
    <3>3. QED
      BY <2>2, <2>6, <3>2 DEF Backed
  <2>9. PICK c \in Command : /\ proc' = [proc EXCEPT ![p] = c]
                             /\ c.pc = "write" /\ c.next = "idle" /\ c.state = st
    BY <2>1, <2>6, SaveIs DEF old
  <2>10. KnowsKeys(c, sessions', own')
    BY <2>1, <2>8, <2>9 DEF KnowsKeys
  <2>11. own' => Backed(stored', sessions')
    BY <2>1, <2>7, BackedStays DEF KeyInv
  <2>12. QED
    BY <2>1, <2>7, <2>9, <2>10, <2>11, KeysKept
<1>3. CASE SetupBlocked(p)
  <2> DEFINE st == proc[p].state
  <2>1. /\ Save(p, st, "idle") /\ st \in StoredState
        /\ DOMAIN st.senders = DOMAIN proc[p].state.senders
        /\ UNCHANGED <<sessions, own, stored>>
        /\ own => Backed(st, sessions)
    BY <1>1, <1>3 DEF SetupBlocked, server, KnowsKeys
  <2> HIDE DEF st
  <2>2. PICK c \in Command : /\ proc' = [proc EXCEPT ![p] = c]
                             /\ c.pc = "write" /\ c.next = "idle" /\ c.state = st
    BY <2>1, SaveIs
  <2>3. KnowsKeys(c, sessions, own')
    BY <2>1, <2>2 DEF KnowsKeys
  <2>4. QED
    BY <2>1, <2>2, <2>3, KeysAside
<1>4. CASE Ask(p)
  <2>1. UNCHANGED <<sessions, own, stored>> /\ proc[p].pc = "ask"
    BY <1>4 DEF Ask, server
  <2>2. CASE proc[p].me = 0
    <3>1. proc' = [proc EXCEPT ![p] = Idle]
      BY <1>4, <2>2 DEF Ask, Finish
    <3>2. QED
      BY <2>1, <3>1, IdleKnowsKeys, KeysAside
  <2>3. CASE proc[p].me # 0
    <3> DEFINE i == proc[p].me
               s == proc[p].session
               old == proc[p].state
               st == ApplyPairing(old, i, s)
    <3>1. Save(p, st, "idle")
      BY <1>4, <2>3 DEF Ask
    <3>2. /\ i \in DOMAIN old.senders /\ s \in Nat /\ s \in DOMAIN sessions
          /\ old \in StoredState
      BY <1>1, <2>1, <2>3 DEF CommandFits, Command
    <3>3. own => Backed(old, sessions) /\ old.senders[i].session = s
      BY <1>1, <2>1, <2>3 DEF KnowsKeys
    <3> HIDE DEF i, s
    <3>4. st = ApplyPairing(old, i, s)
      OBVIOUS
    <3> HIDE DEF old, st
    <3>5. /\ st \in StoredState /\ DOMAIN st.senders = DOMAIN old.senders
          /\ st.senders[i].id \in {old.senders[i].id, s}
          /\ st.senders[i].keys = old.senders[i].keys
          /\ st.senders[i].session = old.senders[i].session
          /\ \A j \in DOMAIN old.senders : j # i => st.senders[j] = old.senders[j]
      BY <3>2, <3>4, ApplyPairingIs
    <3>6. own => Backed(st, sessions)
      BY <3>2, <3>3, <3>5 DEF Backed
    <3>7. PICK c \in Command : /\ proc' = [proc EXCEPT ![p] = c]
                               /\ c.pc = "write" /\ c.next = "idle" /\ c.state = st
      BY <3>1, <3>5, SaveIs DEF old
    <3>8. KnowsKeys(c, sessions, own')
      BY <2>1, <3>6, <3>7 DEF KnowsKeys
    <3>9. QED
      BY <2>1, <3>7, <3>8, KeysAside
  <2>4. QED
    BY <2>2, <2>3
<1>5. QED
  BY <1>2, <1>3, <1>4

\* A refresh gives a sender the id of its own session; sending changes no sender.
LEMMA SendingKeys ==
    ASSUME TypeInv, KeyInv, NEW p \in Process, Refresh(p) \/ Post(p)
    PROVE  KeyInv'
<1>1. /\ proc[p] \in Command /\ proc[p].state \in StoredState
      /\ CommandFits(proc[p], sessions, accepted) /\ KnowsKeys(proc[p], sessions, own)
  BY DEF TypeInv, CliTypeOK, Command, KeyInv
<1>2. CASE Refresh(p)
  <2> DEFINE i == proc[p].me
             old == proc[p].state
             st == Refreshed(p)
  <2>1. /\ proc[p].pc = "refresh" /\ UNCHANGED <<sessions, own, stored>>
        /\ \/ Save(p, st, "idle")
           \/ proc' = [proc EXCEPT ![p] = [proc[p] EXCEPT !.pc = "post", !.state = st]]
    BY <1>2 DEF Refresh, Refreshed, server
  <2>2. i \in DOMAIN old.senders /\ proc[p].next = "idle"
    BY <1>1, <2>1 DEF CommandFits
  <2>3. /\ st \in StoredState /\ DOMAIN st.senders = DOMAIN old.senders
        /\ \/ st.senders[i].id = old.senders[i].id
           \/ st.senders[i].id = old.senders[i].session
        /\ st.senders[i].keys = old.senders[i].keys
        /\ st.senders[i].session = old.senders[i].session
        /\ \A j \in DOMAIN old.senders : j # i => st.senders[j] = old.senders[j]
    BY <1>1, <2>2, RefreshedIs
  <2>4. own => Backed(old, sessions)
    BY <1>1 DEF KnowsKeys
  <2> HIDE DEF st, old, i
  <2>5. own => Backed(st, sessions)
    BY <2>2, <2>3, <2>4 DEF Backed
  <2>6. CASE Save(p, st, "idle")
    <3>1. PICK c \in Command : /\ proc' = [proc EXCEPT ![p] = c]
                               /\ c.pc = "write" /\ c.next = "idle" /\ c.state = st
      BY <2>3, <2>6, SaveIs DEF old
    <3>2. KnowsKeys(c, sessions, own')
      BY <2>1, <2>5, <3>1 DEF KnowsKeys
    <3>3. QED
      BY <2>1, <3>1, <3>2, KeysAside
  <2>7. CASE proc' = [proc EXCEPT ![p] = [proc[p] EXCEPT !.pc = "post", !.state = st]]
    <3> DEFINE c == [proc[p] EXCEPT !.pc = "post", !.state = st]
    <3>1. c.pc = "post" /\ c.next = proc[p].next /\ c.state = st
      BY <1>1 DEF Command
    <3>2. proc' = [proc EXCEPT ![p] = c]
      BY <2>7
    <3> HIDE DEF c
    <3>3. KnowsKeys(c, sessions, own')
      BY <2>1, <2>2, <2>5, <3>1 DEF KnowsKeys
    <3>4. QED
      BY <2>1, <3>2, <3>3, KeysAside
  <2>8. QED
    BY <2>1, <2>6, <2>7
<1>3. CASE Post(p)
  <2>1. proc[p].pc = "post" /\ UNCHANGED <<sessions, own, stored>>
    BY <1>3 DEF Post
  <2>2. CASE MayAct(proc[p].state.senders[proc[p].me])
    <3> DEFINE n == Len(accepted) + 1
               then == IF proc[p].want = "none" THEN "idle" ELSE "await"
               c == Recorded(proc[p], n, then)
    <3>1. proc' = [proc EXCEPT ![p] = c]
      BY <1>3, <2>2 DEF Post, Recorded
    <3>2. n \in Nat
      BY <2>1, AcceptedIs
    <3>3. then \in {"idle", "await"}
      OBVIOUS
    <3> HIDE DEF n, then
    <3>4. c.pc = "write" /\ c.next = then /\ c.state.senders = proc[p].state.senders
      BY <1>1, <3>2, <3>3, RecordedIs
    <3> HIDE DEF c
    <3>5. KnowsKeys(c, sessions, own')
      BY <1>1, <2>1, <3>3, <3>4 DEF KnowsKeys, Backed
    <3>6. QED
      BY <2>1, <3>1, <3>5, KeysAside
  <2>3. CASE ~MayAct(proc[p].state.senders[proc[p].me])
    <3>1. proc' = [proc EXCEPT ![p] = Idle]
      BY <1>3, <2>3 DEF Post, Finish
    <3>2. QED
      BY <2>1, <3>1, IdleKnowsKeys, KeysAside
  <2>4. QED
    BY <2>2, <2>3
<1>4. QED
  BY <1>2, <1>3

\* Writing stores what the command knows.
LEMMA WriteKeys ==
    ASSUME TypeInv, KeyInv, NEW p \in Process, BeginWrite(p) \/ EndWrite(p)
    PROVE  KeyInv'
<1>1. /\ proc[p] \in Command /\ KnowsKeys(proc[p], sessions, own)
      /\ CommandFits(proc[p], sessions, accepted) /\ KeysMade(sessions)
  BY DEF TypeInv, CliTypeOK, KeyInv
<1>2. CASE BeginWrite(p)
  <2> DEFINE c == [proc[p] EXCEPT !.pc = "writing"]
  <2>1. proc' = [proc EXCEPT ![p] = c] /\ UNCHANGED <<sessions, own, stored>>
    BY <1>2 DEF BeginWrite, server
  <2>2. c.pc = "writing" /\ c.next = proc[p].next /\ c.me = proc[p].me /\ c.state = proc[p].state
    BY <1>1 DEF Command
  <2> HIDE DEF c
  <2>3. KnowsKeys(c, sessions, own')
    BY <1>1, <2>1, <2>2 DEF KnowsKeys
  <2>4. QED
    BY <2>1, <2>3, KeysAside
<1>3. CASE EndWrite(p)
  <2> DEFINE c == IF proc[p].next = "idle" THEN Idle
                  ELSE [proc[p] EXCEPT !.pc = proc[p].next, !.next = "idle"]
  <2>1. /\ proc' = [proc EXCEPT ![p] = c] /\ UNCHANGED <<sessions, own>>
        /\ stored' \in {stored, proc[p].state}
    BY <1>3 DEF EndWrite, server
  <2>2. KnowsKeys(c, sessions, own)
    <3>1. CASE proc[p].next = "idle"
      BY <3>1, IdleKnowsKeys
    <3>2. CASE proc[p].next # "idle"
      <4>1. c = [proc[p] EXCEPT !.pc = proc[p].next, !.next = "idle"]
        BY <3>2
      <4>2. c.pc = proc[p].next /\ c.next = "idle" /\ c.me = proc[p].me /\ c.state = proc[p].state
        BY <1>1, <4>1 DEF Command
      <4> HIDE DEF c
      <4>3. QED
        BY <1>1, <4>2 DEF KnowsKeys, CommandFits
    <3>3. QED
      BY <3>1, <3>2
  <2>3. own => Backed(stored', sessions)
    BY <1>1, <2>1 DEF KnowsKeys, KeyInv
  <2>4. SessionsStay(sessions, sessions') /\ KeysMade(sessions')
    BY <1>1, <2>1 DEF SessionsStay
  <2> HIDE DEF c
  <2>5. KnowsKeys(c, sessions', own') /\ (own' => Backed(stored', sessions')) /\ (own' => own)
    BY <2>1, <2>2, <2>3
  <2>6. QED
    BY <2>1, <2>4, <2>5, KeysKept
<1>4. QED
  BY <1>2, <1>3

\* A wait only reads.
LEMMA WaitKeys ==
    ASSUME TypeInv, KeyInv, NEW p \in Process,
           \/ \E m \in DOMAIN accepted, want \in Wanted : WaitTool(p, m, want)
           \/ Await(p) \/ Poll(p) \/ GiveUp(p)
    PROVE  KeyInv'
<1>1. UNCHANGED <<sessions, own, stored>>
  BY DEF WaitTool, Await, Poll, GiveUp, server
<1>2. CASE Finish(p)
  BY <1>1, <1>2, IdleKnowsKeys, KeysAside DEF Finish
<1>3. CASE \E m \in DOMAIN accepted, want \in Wanted : WaitTool(p, m, want)
  <2>1. PICK m \in DOMAIN accepted, want \in Wanted : WaitTool(p, m, want)
    BY <1>3
  <2> DEFINE c == [Idle EXCEPT !.pc = "await", !.message = m, !.want = want]
  <2>2. proc' = [proc EXCEPT ![p] = c]
    BY <2>1 DEF WaitTool, Open
  <2>3. c.pc = "await" /\ c.next = "idle" /\ c.state = DefaultState
    BY IdleType DEF Command
  <2> HIDE DEF c
  <2>4. KnowsKeys(c, sessions, own')
    BY <2>3, DefaultBacked DEF KnowsKeys
  <2>5. QED
    BY <1>1, <2>2, <2>4, KeysAside
<1>4. CASE Await(p) /\ Readable
  <2>1. PICK c \in Command : /\ proc' = [proc EXCEPT ![p] = c]
                             /\ c.pc = "poll" /\ c.next = "idle" /\ c.state = stored
    BY <1>4, AwaitIs
  <2>2. KnowsKeys(c, sessions, own')
    BY <1>1, <2>1 DEF KnowsKeys, KeyInv
  <2>3. QED
    BY <1>1, <2>1, <2>2, KeysAside
<1>5. CASE Poll(p) /\ ~Finish(p)
  <2>1. PICK c \in Command : /\ proc' = [proc EXCEPT ![p] = c] /\ c.pc = "poll"
                             /\ c.next = proc[p].next /\ c.state = proc[p].state
    BY <1>5, PollIs
  <2>2. proc[p].next = "idle"
    BY <1>5 DEF TypeInv, CommandFits, Poll, Due
  <2>3. KnowsKeys(c, sessions, own')
    BY <1>1, <2>1, <2>2 DEF KnowsKeys, KeyInv
  <2>4. QED
    BY <1>1, <2>1, <2>3, KeysAside
<1>6. QED
  BY <1>2, <1>3, <1>4, <1>5 DEF Await, GiveUp

\* A session may have been started without an answer; its keys are known.
LEMMA FaultKeys ==
    ASSUME TypeInv, KeyInv, NEW p \in Process, RequestFails(p) \/ Crash(p)
    PROVE  KeyInv'
<1>1. proc' = [proc EXCEPT ![p] = Idle] /\ UNCHANGED <<own, stored>>
  BY DEF RequestFails, Crash, Finish
<1>2. sessions' = sessions \/ (proc[p].pc = "start" /\ sessions' = Started(p))
  BY DEF RequestFails, Crash, server
<1>3. KnowsKeys(proc[p], sessions, own) /\ KeysMade(sessions)
  BY DEF KeyInv
<1>4. SessionsStay(sessions, sessions') /\ KeysMade(sessions')
  BY <1>2, <1>3, StartedIs DEF SessionsStay, KeysMade, KnowsKeys
<1>5. own' => Backed(stored', sessions')
  BY <1>1, <1>4, BackedStays DEF KeyInv
<1>6. QED
  BY <1>1, <1>4, <1>5, IdleKnowsKeys, KeysKept

\* Sessions keep their keys when they are paired or expire.
LEMMA EnvironmentKeys ==
    ASSUME TypeInv, KeyInv,
           \/ \E s \in DOMAIN sessions : SessionMoves(s)
           \/ \E m \in DOMAIN accepted : MessageMoves(m)
           \/ Tick
           \/ UNCHANGED vars
    PROVE  KeyInv'
<1>1. UNCHANGED <<proc, own, stored>>
  BY DEF SessionMoves, MessageMoves, Tick, vars
<1>2. CASE UNCHANGED sessions
  BY <1>1, <1>2 DEF KeyInv
<1>3. CASE \E s \in DOMAIN sessions : SessionMoves(s)
  <2>1. /\ DOMAIN sessions' = DOMAIN sessions
        /\ \A t \in DOMAIN sessions : sessions'[t].keys = sessions[t].keys
    BY <1>3, SessionMovesIs
  <2>2. SessionsStay(sessions, sessions') /\ KeysMade(sessions')
    BY <2>1 DEF SessionsStay, KeysMade, KeyInv
  <2>3. \A p \in Process : KnowsKeys(proc[p], sessions', own)
    BY <2>2, BackedStays DEF KeyInv, KnowsKeys
  <2>4. own => Backed(stored, sessions')
    BY <2>2, BackedStays DEF KeyInv
  <2>5. QED
    BY <1>1, <2>2, <2>3, <2>4 DEF KeyInv
<1>4. QED
  BY <1>2, <1>3 DEF MessageMoves, Tick, vars, server

\* Nothing is known about keys at the start.
LEMMA InitKeys == Init => KeyInv
<1> SUFFICES ASSUME Init PROVE KeyInv
  OBVIOUS
<1>1. KeysMade(sessions)
  BY DEF Init, KeysMade
<1>2. Backed(stored, sessions)
  BY DefaultBacked DEF Init
<1>3. \A p \in Process : KnowsKeys(proc[p], sessions, own)
  BY IdleKnowsKeys DEF Init
<1>4. QED
  BY <1>1, <1>2, <1>3 DEF KeyInv

\* Every step keeps what is known about keys.
LEMMA NextKeys == TypeInv /\ KeyInv /\ [Next]_vars => KeyInv'
<1> SUFFICES ASSUME TypeInv, KeyInv, [Next]_vars PROVE KeyInv'
  OBVIOUS
<1>1. QED
  BY StepsOfNext, WritesKeys, StatusKeys, WriteKeys, PairingKeys, SendingKeys, WaitKeys,
     FaultKeys, EnvironmentKeys

\* A stored sender with an id is let in by the server, as long as the status of a
\* session is asked for by the sender that started it.
THEOREM IdentitySafe == Spec => []IdentityHasItsKeys
<1>1. Spec => [](TypeInv /\ KeyInv)
  BY InitTypes, InitKeys, NextTypes, NextKeys, PTL DEF Spec
<1>2. KeyInv => IdentityHasItsKeys
  BY DEF KeyInv, Backed, IdentityHasItsKeys, MayAct
<1>3. QED
  BY <1>1, <1>2, PTL

-----------------------------------------------------------------------------
(* What is written over the file *)

\* A command that may still write the state it holds.
Holding == {"write", "writing", "start", "refresh", "ask", "post"}

\* As long as no commands overlap, a command is alone, and what it holds has everything
\* that is stored.
LoneInv ==
    lone =>
        /\ \A p, q \in Process : proc[p].pc # "idle" /\ proc[q].pc # "idle" => p = q
        /\ \A p \in Process : proc[p].pc \in Holding => Extends(stored, proc[p].state)

\* Extends is reflexive,
LEMMA ExtendsItself ==
    ASSUME NEW st
    PROVE  Extends(st, st)
BY DEF Extends

\* and transitive.
LEMMA ExtendsOn ==
    ASSUME NEW a, NEW b, NEW c, Extends(a, b), Extends(b, c)
    PROVE  Extends(a, c)
BY DEF Extends

\* A step of a process that was alone, or that starts where all are idle.
LEMMA LoneKept ==
    ASSUME TypeInv, LoneInv, NEW p \in Process, NEW c, proc' = [proc EXCEPT ![p] = c],
           lone' => lone,
           proc[p].pc # "idle" \/ (lone' => \A q \in Process : proc[q].pc = "idle"),
           lone' /\ c.pc \in Holding => Extends(stored', c.state)
    PROVE  LoneInv'
<1> SUFFICES ASSUME lone'
             PROVE  /\ \A r, q \in Process : proc'[r].pc # "idle" /\ proc'[q].pc # "idle" => r = q
                    /\ \A q \in Process : proc'[q].pc \in Holding => Extends(stored', proc'[q].state)
  BY DEF LoneInv
<1>1. \A q \in Process : proc'[q] = IF q = p THEN c ELSE proc[q]
  BY DEF TypeInv, CliTypeOK
<1>2. \A q \in Process : q # p => proc[q].pc = "idle"
  BY DEF LoneInv
<1>3. \A q \in Process : q # p => proc'[q].pc = "idle"
  BY <1>1, <1>2
<1>4. "idle" \notin Holding
  BY DEF Holding
<1>5. QED
  BY <1>1, <1>3, <1>4

\* A command that goes on holds what the one before it held, or more.
LEMMA LoneSave ==
    ASSUME TypeInv, LoneInv, NEW p \in Process, NEW st \in StoredState, Save(p, st, "idle"),
           DOMAIN st.senders = DOMAIN proc[p].state.senders,
           proc[p].pc \in Holding, Extends(proc[p].state, st), UNCHANGED <<lone, stored>>
    PROVE  LoneInv'
<1>1. PICK c \in Command : /\ proc' = [proc EXCEPT ![p] = c]
                           /\ c.pc = "write" /\ c.next = "idle" /\ c.state = st
  BY SaveIs
<1>2. lone => Extends(stored, c.state)
  BY <1>1, ExtendsOn DEF LoneInv
<1>3. proc[p].pc # "idle"
  BY DEF Holding
<1>4. QED
  BY <1>1, <1>2, <1>3, LoneKept

\* A command that ends, or only waits, holds nothing.
LEMMA LoneAside ==
    ASSUME TypeInv, LoneInv, NEW p \in Process, NEW c, proc' = [proc EXCEPT ![p] = c],
           proc[p].pc # "idle", c.pc \in {"idle", "await", "poll"}, UNCHANGED lone
    PROVE  LoneInv'
<1>1. c.pc \notin Holding
  BY DEF Holding
<1>2. QED
  BY <1>1, LoneKept

\* A command that opens, with the state it read or an extension of it.
LEMMA OpenLone ==
    ASSUME TypeInv, LoneInv, NEW p \in Process, NEW c, Open(p, c), UNCHANGED stored,
           c.pc \in Holding => Extends(stored, c.state)
    PROVE  LoneInv'
<1>1. /\ proc' = [proc EXCEPT ![p] = c]
      /\ lone' = (lone /\ \A q \in Process : proc[q].pc = "idle")
  BY DEF Open
<1>2. lone' => lone
  BY <1>1
<1>3. lone' => \A q \in Process : proc[q].pc = "idle"
  BY <1>1
<1>4. QED
  BY <1>1, <1>2, <1>3, LoneKept

\* Every command opens that way.
LEMMA OpensLone ==
    ASSUME TypeInv, LoneInv, NEW p \in Process,
           \/ Writes(p)
           \/ \E s \in DOMAIN sessions : Status(p, s)
           \/ \E m \in DOMAIN accepted, want \in Wanted : WaitTool(p, m, want)
    PROVE  LoneInv'
<1>1. CASE Writes(p)
  <2>1. PICK c : Open(p, c) /\ WritesWell(c)
    BY <1>1, WriteOpens
  <2>2. Extends(stored, c.state) /\ UNCHANGED stored
    BY <1>1, <2>1, WriteOpens DEF WritesWell, Prepares
  <2>3. QED
    BY <2>1, <2>2, OpenLone
<1>2. ASSUME NEW s \in DOMAIN sessions, Status(p, s)
      PROVE  LoneInv'
  <2> DEFINE me == Active(stored)
             c == [Idle EXCEPT !.pc = "ask", !.state = stored, !.me = me, !.session = s]
  <2>1. Open(p, c) /\ UNCHANGED stored
    BY <1>2 DEF Status
  <2>2. c.state = stored
    BY IdleType DEF Command
  <2> HIDE DEF c
  <2>3. QED
    BY <2>1, <2>2, ExtendsItself, OpenLone
<1>3. ASSUME NEW m \in DOMAIN accepted, NEW want \in Wanted, WaitTool(p, m, want)
      PROVE  LoneInv'
  <2> DEFINE c == [Idle EXCEPT !.pc = "await", !.message = m, !.want = want]
  <2>1. Open(p, c) /\ UNCHANGED stored
    BY <1>3 DEF WaitTool
  <2>2. c.pc = "await"
    BY IdleType DEF Command
  <2> HIDE DEF c
  <2>3. c.pc \notin Holding
    BY <2>2 DEF Holding
  <2>4. QED
    BY <2>1, <2>3, OpenLone
<1>4. QED
  BY <1>1, <1>2, <1>3

\* Writing stores an extension of what was stored.
LEMMA WriteLone ==
    ASSUME TypeInv, LoneInv, NEW p \in Process, BeginWrite(p) \/ EndWrite(p)
    PROVE  LoneInv'
<1>1. proc[p] \in Command
  BY DEF TypeInv, CliTypeOK
<1>2. CASE BeginWrite(p)
  <2> DEFINE c == [proc[p] EXCEPT !.pc = "writing"]
  <2>1. proc' = [proc EXCEPT ![p] = c] /\ UNCHANGED <<lone, stored>> /\ proc[p].pc = "write"
    BY <1>2 DEF BeginWrite
  <2>2. c.state = proc[p].state
    BY <1>1 DEF Command
  <2> HIDE DEF c
  <2>3. lone' /\ c.pc \in Holding => Extends(stored', c.state)
    BY <2>1, <2>2 DEF LoneInv, Holding
  <2>4. QED
    BY <2>1, <2>3, LoneKept
<1>3. CASE EndWrite(p)
  <2> DEFINE c == IF proc[p].next = "idle" THEN Idle
                  ELSE [proc[p] EXCEPT !.pc = proc[p].next, !.next = "idle"]
  <2>1. /\ proc' = [proc EXCEPT ![p] = c] /\ UNCHANGED lone /\ proc[p].pc = "writing"
        /\ stored' \in {stored, proc[p].state}
    BY <1>3 DEF EndWrite
  <2>2. c = Idle \/ c.state = proc[p].state
    BY <1>1 DEF Command
  <2> HIDE DEF c
  <2>3. lone => Extends(stored', proc[p].state)
    BY <2>1, ExtendsItself DEF LoneInv, Holding
  <2>4. lone' /\ c.pc \in Holding => Extends(stored', c.state)
    <3>1. CASE c = Idle
      BY <3>1, IdleType DEF Holding
    <3>2. CASE c.state = proc[p].state
      BY <2>1, <2>3, <3>2
    <3>3. QED
      BY <2>2, <3>1, <3>2
  <2>5. QED
    BY <2>1, <2>4, LoneKept
<1>4. QED
  BY <1>2, <1>3

\* Sessions and ids are added to what a command holds.
LEMMA PairingLone ==
    ASSUME TypeInv, LoneInv, NEW p \in Process, StartRemoteSetup(p) \/ SetupBlocked(p) \/ Ask(p)
    PROVE  LoneInv'
<1> DEFINE old == proc[p].state
           i == proc[p].me
<1>1. /\ old \in StoredState /\ CommandFits(proc[p], sessions, accepted) /\ proc[p] \in Command
  BY DEF TypeInv, CliTypeOK, Command
<1>2. CASE StartRemoteSetup(p)
  <2> DEFINE n == Len(sessions) + 1
             st == [old EXCEPT !.senders[i].session = n]
  <2>1. /\ proc[p].pc = "start" /\ Save(p, st, "idle") /\ UNCHANGED <<lone, stored>>
    BY <1>2 DEF StartRemoteSetup
  <2>2. i \in DOMAIN old.senders /\ n \in Nat
    BY <2>1, StartedIs
  <2> HIDE DEF n, i
  <2>3. st = [old EXCEPT !.senders[i].session = n]
    OBVIOUS
  <2> HIDE DEF st, old
  <2>4. /\ st \in StoredState /\ st.messages = old.messages
        /\ DOMAIN st.senders = DOMAIN old.senders
        /\ st.senders[i].keys = old.senders[i].keys
        /\ st.senders[i].revoked = old.senders[i].revoked
        /\ \A j \in DOMAIN old.senders : j # i => st.senders[j] = old.senders[j]
    BY <1>1, <2>2, <2>3, SetSession
  <2>5. Extends(old, st)
    BY <2>4 DEF Extends
  <2>6. QED
    BY <2>1, <2>4, <2>5, LoneSave DEF Holding, old
<1>3. CASE SetupBlocked(p)
  <2>1. /\ Save(p, old, "idle") /\ proc[p].pc = "start" /\ UNCHANGED <<lone, stored>>
    BY <1>3 DEF SetupBlocked
  <2>2. Extends(old, old) /\ proc[p].pc \in Holding
    BY <2>1, ExtendsItself DEF Holding
  <2> DEFINE st == old
  <2>3. /\ st \in StoredState /\ Save(p, st, "idle") /\ Extends(proc[p].state, st)
        /\ DOMAIN st.senders = DOMAIN proc[p].state.senders
    BY <1>1, <2>1, <2>2
  <2> HIDE DEF st
  <2>4. QED
    BY <2>1, <2>2, <2>3, LoneSave
<1>4. CASE Ask(p)
  <2>1. UNCHANGED <<lone, stored>> /\ proc[p].pc = "ask"
    BY <1>4 DEF Ask
  <2>2. CASE i = 0
    BY <1>4, <2>1, <2>2, IdleType, LoneAside DEF Ask, Finish
  <2>3. CASE i # 0
    <3> DEFINE s == proc[p].session
               st == ApplyPairing(old, i, s)
    <3>1. Save(p, st, "idle")
      BY <1>4, <2>3 DEF Ask
    <3>2. i \in DOMAIN old.senders /\ s \in Nat
      BY <1>1, <2>3 DEF CommandFits, Command
    <3> HIDE DEF s, i
    <3>3. st = ApplyPairing(old, i, s)
      OBVIOUS
    <3> HIDE DEF st, old
    <3>4. /\ st \in StoredState /\ st.messages = old.messages
          /\ DOMAIN st.senders = DOMAIN old.senders
          /\ st.senders[i].keys = old.senders[i].keys
          /\ st.senders[i].revoked = old.senders[i].revoked
          /\ \A j \in DOMAIN old.senders : j # i => st.senders[j] = old.senders[j]
      BY <1>1, <3>2, <3>3, ApplyPairingIs
    <3>5. Extends(old, st)
      BY <3>4 DEF Extends
    <3>6. QED
      BY <2>1, <3>1, <3>4, <3>5, LoneSave DEF Holding, old
  <2>4. QED
    BY <2>2, <2>3
<1>5. QED
  BY <1>2, <1>3, <1>4

\* So is the record of a message.
LEMMA SendingLone ==
    ASSUME TypeInv, LoneInv, NEW p \in Process, Refresh(p) \/ Post(p)
    PROVE  LoneInv'
<1> DEFINE old == proc[p].state
           i == proc[p].me
<1>1. old \in StoredState /\ CommandFits(proc[p], sessions, accepted) /\ proc[p] \in Command
  BY DEF TypeInv, CliTypeOK, Command
<1>2. CASE Refresh(p)
  <2> DEFINE st == Refreshed(p)
  <2>1. /\ proc[p].pc = "refresh" /\ UNCHANGED <<lone, stored>>
        /\ \/ Save(p, st, "idle")
           \/ proc' = [proc EXCEPT ![p] = [proc[p] EXCEPT !.pc = "post", !.state = st]]
    BY <1>2 DEF Refresh, Refreshed
  <2>2. i \in DOMAIN old.senders
    BY <1>1, <2>1 DEF CommandFits
  <2>3. /\ st \in StoredState /\ st.messages = old.messages
        /\ DOMAIN st.senders = DOMAIN old.senders
        /\ st.senders[i].keys = old.senders[i].keys
        /\ st.senders[i].revoked = old.senders[i].revoked
        /\ \A j \in DOMAIN old.senders : j # i => st.senders[j] = old.senders[j]
    BY <1>1, <2>2, RefreshedIs
  <2> HIDE DEF st, i, old
  <2>4. Extends(old, st)
    BY <2>3 DEF Extends
  <2>5. CASE Save(p, st, "idle")
    BY <2>1, <2>3, <2>4, <2>5, LoneSave DEF Holding, old
  <2>6. CASE proc' = [proc EXCEPT ![p] = [proc[p] EXCEPT !.pc = "post", !.state = st]]
    <3> DEFINE c == [proc[p] EXCEPT !.pc = "post", !.state = st]
    <3>1. c.state = st
      BY <1>1 DEF Command
    <3>2. proc' = [proc EXCEPT ![p] = c]
      BY <2>6
    <3> HIDE DEF c
    <3>3. lone => Extends(stored, c.state)
      BY <2>1, <2>4, <3>1, ExtendsOn DEF LoneInv, Holding, old
    <3>4. QED
      BY <2>1, <3>2, <3>3, LoneKept
  <2>7. QED
    BY <2>1, <2>5, <2>6
<1>3. CASE Post(p)
  <2>1. proc[p].pc = "post" /\ UNCHANGED <<lone, stored>>
    BY <1>3 DEF Post
  <2>2. CASE MayAct(proc[p].state.senders[proc[p].me])
    <3> DEFINE n == Len(accepted) + 1
               then == IF proc[p].want = "none" THEN "idle" ELSE "await"
               c == Recorded(proc[p], n, then)
    <3>1. proc' = [proc EXCEPT ![p] = c]
      BY <1>3, <2>2 DEF Post, Recorded
    <3>2. n \in Nat
      BY <2>1, AcceptedIs
    <3>3. then \in {"idle", "await"}
      OBVIOUS
    <3> HIDE DEF n, then
    <3>4. c.state.senders = old.senders /\ c.state.messages = old.messages \cup {n}
      BY <1>1, <3>2, <3>3, RecordedIs
    <3> HIDE DEF c
    <3>5. Extends(old, c.state)
      BY <3>4 DEF Extends
    <3>6. lone => Extends(stored, old)
      BY <2>1 DEF LoneInv, Holding
    <3>7. lone => Extends(stored, c.state)
      BY <3>5, <3>6, ExtendsOn
    <3>8. QED
      BY <2>1, <3>1, <3>7, LoneKept
  <2>3. CASE ~MayAct(proc[p].state.senders[proc[p].me])
    BY <1>3, <2>1, <2>3, IdleType, LoneAside DEF Post, Finish
  <2>4. QED
    BY <2>2, <2>3
<1>4. QED
  BY <1>2, <1>3

\* Waits and failures hold nothing.
LEMMA RestLone ==
    ASSUME TypeInv, LoneInv, NEW p \in Process,
           Await(p) \/ Poll(p) \/ GiveUp(p) \/ RequestFails(p) \/ Crash(p)
    PROVE  LoneInv'
<1>1. UNCHANGED lone /\ proc[p].pc # "idle"
  BY DEF Await, Poll, GiveUp, RequestFails, Crash, Due
<1>2. CASE Finish(p)
  BY <1>1, <1>2, IdleType, LoneAside DEF Finish
<1>3. CASE Await(p) /\ Readable
  BY <1>1, <1>3, AwaitIs, LoneAside
<1>4. CASE Poll(p) /\ ~Finish(p)
  BY <1>1, <1>4, PollIs, LoneAside
<1>5. QED
  BY <1>2, <1>3, <1>4 DEF Await, GiveUp, RequestFails, Crash

\* The server and the clock touch neither commands nor the file.
LEMMA EnvironmentLone ==
    ASSUME LoneInv,
           \/ \E s \in DOMAIN sessions : SessionMoves(s)
           \/ \E m \in DOMAIN accepted : MessageMoves(m)
           \/ Tick
           \/ UNCHANGED vars
    PROVE  LoneInv'
<1>1. UNCHANGED <<proc, lone, stored>>
  BY DEF SessionMoves, MessageMoves, Tick, vars
<1>2. QED
  BY <1>1 DEF LoneInv

\* No command runs at the start.
LEMMA InitLone == Init => LoneInv
<1> SUFFICES ASSUME Init PROVE LoneInv
  OBVIOUS
<1>1. \A p \in Process : proc[p].pc = "idle"
  BY IdleType DEF Init
<1>2. QED
  BY <1>1 DEF LoneInv, Holding

\* Every step keeps commands that do not overlap alone.
LEMMA NextLone == TypeInv /\ LoneInv /\ [Next]_vars => LoneInv'
<1> SUFFICES ASSUME TypeInv, LoneInv, [Next]_vars PROVE LoneInv'
  OBVIOUS
<1>1. QED
  BY StepsOfNext, OpensLone, WriteLone, PairingLone, SendingLone, RestLone, EnvironmentLone

\* Only the end of a write changes what is stored.
LEMMA StoredStays ==
    ASSUME TypeInv, [Next]_vars
    PROVE  stored' = stored \/ \E p \in Process : EndWrite(p)
<1>1. \A p \in Process : Writes(p) => UNCHANGED stored
  BY WriteOpens
<1>2. \A p \in Process : /\ \A s \in DOMAIN sessions : Status(p, s) => UNCHANGED stored
                         /\ \A m \in DOMAIN accepted, want \in Wanted :
                               WaitTool(p, m, want) => UNCHANGED stored
  BY DEF Status, WaitTool
<1>3. \A p \in Process :
         StartRemoteSetup(p) \/ SetupBlocked(p) \/ Ask(p) \/ Refresh(p) \/ Post(p) \/ BeginWrite(p)
         => UNCHANGED stored
  BY DEF StartRemoteSetup, SetupBlocked, Ask, Refresh, Post, BeginWrite
<1>4. \A p \in Process :
         Await(p) \/ Poll(p) \/ GiveUp(p) \/ RequestFails(p) \/ Crash(p) => UNCHANGED stored
  BY DEF Await, Poll, GiveUp, RequestFails, Crash
<1>5. /\ \A s \in DOMAIN sessions : SessionMoves(s) => UNCHANGED stored
      /\ \A m \in DOMAIN accepted : MessageMoves(m) => UNCHANGED stored
      /\ Tick \/ UNCHANGED vars => UNCHANGED stored
  BY DEF SessionMoves, MessageMoves, Tick, vars
<1>6. QED
  BY <1>1, <1>2, <1>3, <1>4, <1>5, StepsOfNext

\* No record, sender, key pair or revocation is lost as long as no commands overlap.
THEOREM ForgetsNothing == Spec => NothingForgotten
<1>1. ASSUME TypeInv, LoneInv, [Next]_vars
      PROVE  lone' => Extends(stored, stored')
  <2>1. CASE stored' = stored
    BY <2>1, ExtendsItself
  <2>2. ASSUME NEW p \in Process, EndWrite(p)
        PROVE  lone' => Extends(stored, stored')
    <3>1. lone' = lone /\ proc[p].pc = "writing"
      BY <2>2 DEF EndWrite
    <3>2. CASE stored' = proc[p].state
      BY <1>1, <3>1, <3>2 DEF LoneInv, Holding
    <3>3. QED
      BY <2>1, <2>2, <3>2 DEF EndWrite
  <2>3. QED
    BY <1>1, <2>1, <2>2, StoredStays
<1>2. ASSUME TypeInv, LoneInv, [Next]_vars
      PROVE  [lone' =>
                /\ stored.messages \subseteq stored'.messages
                /\ \A i \in DOMAIN stored.senders :
                      /\ i \in DOMAIN stored'.senders
                      /\ stored.senders[i].keys \in {0, stored'.senders[i].keys}
                      /\ stored.senders[i].revoked => stored'.senders[i].revoked]_vars
  BY <1>1, <1>2 DEF Extends
<1>3. QED
  BY <1>2, InitTypes, InitLone, NextTypes, NextLone, PTL DEF Spec, NothingForgotten

-----------------------------------------------------------------------------
(* Waiting *)

\* The next poll of a wait is not more than an interval away.  It is not after the
\* deadline, or else an answer that is there came after the poll before it.
WaitsWell(c, acc, now) ==
    c.pc = "poll" =>
        /\ now <= c.wake /\ c.wake <= now + Interval
        /\ \/ c.wake <= c.until
           \/ c.remote /\ c.want = "responded" /\ acc[c.message].state = "responded"
              => c.wake <= acc[c.message].since + Interval

WaitInv == \A p \in Process : WaitsWell(proc[p], accepted, clock)

\* A step of one process that leaves the messages there are.
LEMMA WaitKept ==
    ASSUME TypeInv, WaitInv, NEW p \in Process, NEW c, proc' = [proc EXCEPT ![p] = c],
           WaitsWell(c, accepted', clock), UNCHANGED clock,
           \A m \in DOMAIN accepted : accepted'[m] = accepted[m]
    PROVE  WaitInv'
<1>1. \A q \in Process : proc'[q] = IF q = p THEN c ELSE proc[q]
  BY DEF TypeInv, CliTypeOK
<1>2. ASSUME NEW q \in Process PROVE WaitsWell(proc'[q], accepted', clock')
  <2>1. CASE q = p
    BY <1>1, <2>1
  <2>2. CASE q # p
    BY <1>1, <2>2 DEF WaitInv, WaitsWell, TypeInv, CommandFits
  <2>3. QED
    BY <2>1, <2>2
<1>3. QED
  BY <1>2 DEF WaitInv

\* A process that does not poll waits for nothing.
LEMMA NoPoll ==
    ASSUME NEW c, c.pc # "poll", NEW acc, NEW now
    PROVE  WaitsWell(c, acc, now)
BY DEF WaitsWell

\* Steps that end without a poll ahead.
LEMMA WaitAside ==
    ASSUME TypeInv, WaitInv, NEW p \in Process,
           \/ Writes(p) \/ BeginWrite(p) \/ EndWrite(p)
           \/ \E s \in DOMAIN sessions : Status(p, s)
           \/ \E m \in DOMAIN accepted, want \in Wanted : WaitTool(p, m, want)
           \/ StartRemoteSetup(p) \/ SetupBlocked(p) \/ Ask(p) \/ Refresh(p) \/ Post(p)
           \/ GiveUp(p) \/ RequestFails(p) \/ Crash(p)
    PROVE  WaitInv'
<1>1. UNCHANGED clock /\ \A m \in DOMAIN accepted : accepted'[m] = accepted[m]
  <2>1. CASE Writes(p)
    BY <2>1, WriteOpens DEF server
  <2>2. CASE Post(p) \/ RequestFails(p)
    <3>1. UNCHANGED clock
      BY <2>2 DEF Post, RequestFails
    <3>2. accepted' = accepted \/ (proc[p].pc = "post" /\ accepted' = Accepted(p))
      BY <2>2 DEF Post, RequestFails, server
    <3>3. QED
      BY <3>1, <3>2, AcceptedIs
  <2>3. CASE \/ BeginWrite(p) \/ EndWrite(p)
             \/ \E s \in DOMAIN sessions : Status(p, s)
             \/ \E m \in DOMAIN accepted, want \in Wanted : WaitTool(p, m, want)
    BY <2>3 DEF BeginWrite, EndWrite, Status, WaitTool, server
  <2>4. CASE \/ StartRemoteSetup(p) \/ SetupBlocked(p) \/ Ask(p) \/ Refresh(p)
             \/ GiveUp(p) \/ Crash(p)
    BY <2>4 DEF StartRemoteSetup, SetupBlocked, Ask, Refresh, GiveUp, Crash, server
  <2>5. QED
    BY <2>1, <2>2, <2>3, <2>4
<1>2. proc[p] \in Command /\ CommandFits(proc[p], sessions, accepted)
  BY DEF TypeInv, CliTypeOK
<1>3. \E c : proc' = [proc EXCEPT ![p] = c] /\ c.pc # "poll"
  <2>1. CASE Writes(p)
    BY <2>1, WriteOpens DEF WritesWell, Open
  <2>2. CASE Finish(p)
    BY <2>2, IdleType DEF Finish
  <2>3. CASE BeginWrite(p)
    <3> DEFINE c == [proc[p] EXCEPT !.pc = "writing"]
    <3>1. proc' = [proc EXCEPT ![p] = c]
      BY <2>3 DEF BeginWrite
    <3>2. c.pc = "writing"
      BY <1>2 DEF Command
    <3> HIDE DEF c
    <3>3. QED
      BY <3>1, <3>2
  <2>4. CASE EndWrite(p)
    <3> DEFINE c == [proc[p] EXCEPT !.pc = proc[p].next, !.next = "idle"]
    <3>1. proc' = [proc EXCEPT ![p] = Idle] \/ proc' = [proc EXCEPT ![p] = c]
      BY <2>4 DEF EndWrite
    <3>2. c.pc = proc[p].next /\ proc[p].next # "poll"
      BY <1>2 DEF Command, CommandFits
    <3> HIDE DEF c
    <3>3. QED
      BY <3>1, <3>2, IdleType
  <2>5. ASSUME NEW s \in DOMAIN sessions, Status(p, s)
        PROVE  \E c : proc' = [proc EXCEPT ![p] = c] /\ c.pc # "poll"
    <3> DEFINE c == [Idle EXCEPT !.pc = "ask", !.state = stored, !.me = Active(stored), !.session = s]
    <3>1. proc' = [proc EXCEPT ![p] = c]
      BY <2>5 DEF Status, Open
    <3>2. c.pc = "ask"
      BY IdleType DEF Command
    <3> HIDE DEF c
    <3>3. QED
      BY <3>1, <3>2
  <2>6. ASSUME NEW m \in DOMAIN accepted, NEW want \in Wanted, WaitTool(p, m, want)
        PROVE  \E c : proc' = [proc EXCEPT ![p] = c] /\ c.pc # "poll"
    <3> DEFINE c == [Idle EXCEPT !.pc = "await", !.message = m, !.want = want]
    <3>1. proc' = [proc EXCEPT ![p] = c]
      BY <2>6 DEF WaitTool, Open
    <3>2. c.pc = "await"
      BY IdleType DEF Command
    <3> HIDE DEF c
    <3>3. QED
      BY <3>1, <3>2
  <2>7. ASSUME NEW st, Save(p, st, "idle")
        PROVE  \E c : proc' = [proc EXCEPT ![p] = c] /\ c.pc # "poll"
    <3> DEFINE c == [proc[p] EXCEPT !.pc = "write", !.next = "idle", !.state = st]
    <3>1. proc' = [proc EXCEPT ![p] = c]
      BY <2>7 DEF Save
    <3>2. c.pc = "write"
      BY <1>2 DEF Command
    <3> HIDE DEF c
    <3>3. QED
      BY <3>1, <3>2
  <2>8. CASE StartRemoteSetup(p) \/ SetupBlocked(p) \/ Ask(p)
    BY <2>2, <2>7, <2>8 DEF StartRemoteSetup, SetupBlocked, Ask
  <2>9. CASE Refresh(p)
    <3> DEFINE st == Refreshed(p)
               c == [proc[p] EXCEPT !.pc = "post", !.state = st]
    <3>1. Save(p, st, "idle") \/ proc' = [proc EXCEPT ![p] = c]
      BY <2>9 DEF Refresh, Refreshed
    <3>2. c.pc = "post"
      BY <1>2 DEF Command
    <3> HIDE DEF c, st
    <3>3. QED
      BY <2>7, <3>1, <3>2
  <2>10. CASE Post(p)
    <3> DEFINE n == Len(accepted) + 1
               then == IF proc[p].want = "none" THEN "idle" ELSE "await"
               c == Recorded(proc[p], n, then)
    <3>1. Finish(p) \/ proc' = [proc EXCEPT ![p] = c]
      BY <2>10 DEF Post, Recorded
    <3>2. c.pc = "write"
      BY <1>2 DEF Command, Recorded
    <3> HIDE DEF c
    <3>3. QED
      BY <2>2, <3>1, <3>2
  <2>11. QED
    BY <2>1, <2>2, <2>3, <2>4, <2>5, <2>6, <2>8, <2>9, <2>10 DEF GiveUp, RequestFails, Crash
<1>4. QED
  BY <1>1, <1>3, NoPoll, WaitKept

\* A poll that goes on has not seen the answer.
LEMMA PollWaits ==
    ASSUME TypeInv, WaitInv, NEW p \in Process, Await(p) \/ Poll(p)
    PROVE  WaitInv'
<1>1. UNCHANGED <<clock, accepted>>
  BY DEF Await, Poll, server
<1>2. clock \in Nat /\ Timeout \in Nat /\ Interval \in Nat
  BY CliAssumption DEF TypeInv, CliTypeOK
<1>3. CASE Finish(p)
  BY <1>1, <1>3, IdleType, NoPoll, WaitKept DEF Finish
<1>4. CASE Await(p) /\ Readable
  <2>1. PICK c \in Command : /\ proc' = [proc EXCEPT ![p] = c]
                             /\ c.wake = clock /\ c.until = clock + Timeout
    BY <1>4, AwaitIs
  <2>2. WaitsWell(c, accepted', clock)
    BY <1>1, <1>2, <2>1 DEF WaitsWell
  <2>3. QED
    BY <1>1, <2>1, <2>2, WaitKept
<1>5. CASE Poll(p) /\ ~Finish(p)
  <2>1. Observed(p) \notin {proc[p].want, "none"}
    BY <1>5, PollIs
  <2>2. PICK c \in Command : /\ proc' = [proc EXCEPT ![p] = c]
                             /\ c.remote = proc[p].remote /\ c.message = proc[p].message
                             /\ c.want = proc[p].want /\ c.wake = clock + Interval
    BY <1>5, PollIs
  <2>3. ~(c.remote /\ c.want = "responded" /\ accepted[c.message].state = "responded")
    BY <2>1, <2>2 DEF Observed, RemoteState
  <2>4. WaitsWell(c, accepted', clock)
    BY <1>1, <1>2, <2>2, <2>3 DEF WaitsWell
  <2>5. QED
    BY <1>1, <2>2, <2>4, WaitKept
<1>6. QED
  BY <1>3, <1>4, <1>5 DEF Await

\* An answer that comes, comes within an interval before the next poll; the clock waits for it.
LEMMA EnvironmentWaits ==
    ASSUME TypeInv, WaitInv,
           \/ \E s \in DOMAIN sessions : SessionMoves(s)
           \/ \E m \in DOMAIN accepted : MessageMoves(m)
           \/ Tick
           \/ UNCHANGED vars
    PROVE  WaitInv'
<1>1. /\ clock \in Nat /\ Interval \in Nat /\ proc \in [Process -> Command]
  BY CliAssumption DEF TypeInv, CliTypeOK
<1>2. CASE UNCHANGED <<proc, accepted, clock>>
  BY <1>2 DEF WaitInv
<1>3. ASSUME NEW m \in DOMAIN accepted, MessageMoves(m)
      PROVE  WaitInv'
  <2>1. UNCHANGED <<proc, clock>>
    BY <1>3 DEF MessageMoves
  <2>2. /\ accepted'[m].since = clock
        /\ \A n \in DOMAIN accepted : n # m => accepted'[n] = accepted[n]
    BY <1>3, MessageMovesIs
  <2>3. ASSUME NEW p \in Process, proc[p].pc = "poll"
        PROVE  WaitsWell(proc[p], accepted', clock)
    <3>1. proc[p].message \in DOMAIN accepted /\ WaitsWell(proc[p], accepted, clock)
      BY <2>3 DEF TypeInv, CommandFits, WaitInv
    <3>2. CASE proc[p].message = m
      BY <2>2, <2>3, <3>1, <3>2 DEF WaitsWell
    <3>3. CASE proc[p].message # m
      BY <2>2, <3>1, <3>3 DEF WaitsWell
    <3>4. QED
      BY <3>2, <3>3
  <2>4. QED
    BY <2>1, <2>3, NoPoll DEF WaitInv
<1>4. CASE Tick
  <2>1. UNCHANGED <<proc, accepted>> /\ clock' = clock + 1
    BY <1>4 DEF Tick, server
  <2>2. ASSUME NEW p \in Process, proc[p].pc = "poll"
        PROVE  WaitsWell(proc[p], accepted, clock + 1)
    <3>1. ~(proc[p].wake <= clock) /\ proc[p].wake \in Nat
      BY <1>1, <1>4, <2>2 DEF Tick, Due, Command
    <3>2. clock + 1 <= proc[p].wake
      BY <1>1, <3>1
    <3>3. WaitsWell(proc[p], accepted, clock)
      BY DEF WaitInv
    <3>4. proc[p].wake <= clock + 1 + Interval
      BY <1>1, <2>2, <3>1, <3>3 DEF WaitsWell
    <3>5. QED
      BY <2>2, <3>2, <3>3, <3>4 DEF WaitsWell
  <2>3. QED
    BY <2>1, <2>2, NoPoll DEF WaitInv
<1>5. QED
  BY <1>2, <1>3, <1>4 DEF SessionMoves, vars, server

\* Every step keeps waits as they should be.
LEMMA NextWaits == TypeInv /\ WaitInv /\ [Next]_vars => WaitInv'
<1> SUFFICES ASSUME TypeInv, WaitInv, [Next]_vars PROVE WaitInv'
  OBVIOUS
<1>1. QED
  BY StepsOfNext, WaitAside, PollWaits, EnvironmentWaits

\* Nothing waits at the start.
LEMMA InitWaits == Init => WaitInv
BY IdleType, NoPoll DEF Init, WaitInv

\* A wait for an answer that gives up has not overlooked one for longer than an interval.
THEOREM GivesUpRightly == Spec => GivesUpOnlyInVain
<1>1. ASSUME TypeInv, WaitInv, NEW p \in Process, GiveUp(p),
             proc[p].remote, proc[p].want = "responded",
             accepted[proc[p].message].state = "responded"
      PROVE  accepted[proc[p].message].since > proc[p].until - Interval
  <2>1. /\ proc[p].pc = "poll" /\ proc[p].wake <= clock /\ clock > proc[p].until
    BY <1>1 DEF GiveUp, Due
  <2>2. /\ proc[p].wake \in Nat /\ proc[p].until \in Nat /\ clock \in Nat
        /\ accepted[proc[p].message] \in MessageRow /\ Interval \in Nat
    BY <1>1, <2>1, CliAssumption DEF TypeInv, CliTypeOK, CommandFits, Command
  <2>3. accepted[proc[p].message].since \in Nat
    BY <2>2 DEF MessageRow
  <2>4. clock <= proc[p].wake
    BY <1>1, <2>1 DEF WaitInv, WaitsWell
  <2>5. \/ proc[p].wake <= proc[p].until
        \/ proc[p].wake <= accepted[proc[p].message].since + Interval
    BY <1>1, <2>1 DEF WaitInv, WaitsWell
  <2>6. QED
    BY <2>1, <2>2, <2>3, <2>4, <2>5
<1>2. ASSUME TypeInv, WaitInv, [Next]_vars
      PROVE  [\A p \in Process :
                (/\ GiveUp(p)
                 /\ proc[p].remote /\ proc[p].want = "responded"
                 /\ accepted[proc[p].message].state = "responded")
                => accepted[proc[p].message].since > proc[p].until - Interval]_vars
  BY <1>1, <1>2
<1>3. QED
  BY <1>2, InitTypes, InitWaits, NextTypes, NextWaits, PTL DEF Spec, GivesUpOnlyInVain
=============================================================================
