---------------------- MODULE SenderCliDuplicates_proofs ----------------------
(***************************************************************************)
(* SenderCli sends nothing twice within the window, as long as no commands *)
(* overlap and nothing fails: for any processes, contents and bounds.      *)
(***************************************************************************)
EXTENDS SenderCli_proofs

-----------------------------------------------------------------------------
(* Keys belong to one sender *)

\* In a state, every key pair is one sender's, and every session and id is the server's.
Distinct(st, ses, n) ==
    \A i \in DOMAIN st.senders :
        LET x == st.senders[i] IN
        /\ x.keys <= n
        /\ \A j \in DOMAIN st.senders : j # i /\ st.senders[j].keys = x.keys => x.keys = 0
        /\ x.id \in {0} \cup DOMAIN ses
        /\ x.session # 0 => x.session \in DOMAIN ses /\ ses[x.session].keys = x.keys

\* Sessions have keys that were made.
KeysOfSessions(ses, n) == \A s \in DOMAIN ses : ses[s].keys # 0 /\ ses[s].keys <= n

DistinctInv ==
    /\ KeysOfSessions(sessions, made)
    /\ Distinct(stored, sessions, made)
    /\ \A p \in Process : Distinct(proc[p].state, sessions, made)
    /\ \A m \in DOMAIN accepted : accepted[m].sender \in DOMAIN sessions

\* Keys that are made later, and sessions that are added, change nothing.
LEMMA DistinctStays ==
    ASSUME NEW st \in StoredState, NEW old, NEW new, NEW n \in Nat, NEW n2 \in Nat,
           Distinct(st, old, n), SessionsStay(old, new), n <= n2
    PROVE  Distinct(st, new, n2)
<1>1. \A i \in DOMAIN st.senders : st.senders[i].keys \in Nat
  <2>1. \A i \in DOMAIN st.senders : st.senders[i] \in Sender
    BY DEF StoredState
  <2>2. QED
    BY <2>1 DEF Sender
<1>2. QED
  BY <1>1 DEF Distinct, SessionsStay

LEMMA DefaultDistinct ==
    ASSUME NEW ses, NEW n
    PROVE  Distinct(DefaultState, ses, n)
BY DefaultStateType DEF Distinct

\* A message was sent by a sender that has its id by now.
Sent(st, ses, acc) ==
    \A m \in DOMAIN acc, i \in DOMAIN st.senders :
        st.senders[i].keys = ses[acc[m].sender].keys => st.senders[i].id # 0

\* What preparing a state leaves of both.
LEMMA EnsureSenderDistinct ==
    ASSUME NEW st \in StoredState, NEW ses, NEW n \in Nat, NEW acc, Distinct(st, ses, n),
           NEW new, new = EnsureSender(st), KeysOfSessions(ses, n),
           \A m \in DOMAIN acc : acc[m].sender \in DOMAIN ses
    PROVE  Distinct(new, ses, n) /\ (Sent(st, ses, acc) => Sent(new, ses, acc))
<1>1. CASE Active(st) # 0
  BY <1>1 DEF EnsureSender
<1>2. CASE Active(st) = 0
  <2> DEFINE s == Append(st.senders, NewSender)
  <2>1. st.senders \in Seq(Sender) /\ NewSender \in Sender
    BY NewSenderType DEF StoredState
  <2>2. /\ s \in Seq(Sender) /\ Len(s) = Len(st.senders) + 1
        /\ \A i \in 1..Len(st.senders) : s[i] = st.senders[i]
        /\ s[Len(st.senders) + 1] = NewSender
        /\ Len(st.senders) \in Nat
    BY <2>1, AppendProperties
  <2>3. DOMAIN s = 1..(Len(st.senders) + 1) /\ DOMAIN st.senders = 1..Len(st.senders)
    BY <2>1, <2>2
  <2>4. new = [st EXCEPT !.senders = s]
    BY <1>2 DEF EnsureSender
  <2> HIDE DEF s
  <2>5. new.senders = s
    BY <2>4 DEF StoredState
  <2>6. \A i \in DOMAIN s : (i \in DOMAIN st.senders /\ s[i] = st.senders[i]) \/ s[i] = NewSender
    BY <2>2, <2>3
  <2>7. \A i, j \in DOMAIN s : i # j => i \in DOMAIN st.senders \/ j \in DOMAIN st.senders
    BY <2>2, <2>3
  <2>8. ASSUME NEW i \in DOMAIN s
        PROVE  /\ s[i].keys <= n
               /\ \A j \in DOMAIN s : j # i /\ s[j].keys = s[i].keys => s[i].keys = 0
               /\ s[i].id \in {0} \cup DOMAIN ses
               /\ s[i].session # 0 => s[i].session \in DOMAIN ses /\ ses[s[i].session].keys = s[i].keys
    BY <2>6, NewSenderType DEF Distinct
  <2>9. Distinct(new, ses, n)
    BY <2>5, <2>8 DEF Distinct
  <2>10. Sent(st, ses, acc) => Sent(new, ses, acc)
    BY <2>5, <2>6, NewSenderType DEF Sent, KeysOfSessions
  <2>11. QED
    BY <2>9, <2>10
<1>3. QED
  BY <1>1, <1>2

LEMMA SetApiDistinct ==
    ASSUME NEW st \in StoredState, NEW ses, NEW n, NEW acc, Distinct(st, ses, n),
           NEW new, new = [st EXCEPT !.api = TRUE]
    PROVE  Distinct(new, ses, n) /\ (Sent(st, ses, acc) => Sent(new, ses, acc))
<1>1. new.senders = st.senders
  BY DEF StoredState
<1>2. QED
  BY <1>1 DEF Distinct, Sent

LEMMA EnsureIdentityDistinct ==
    ASSUME made \in Nat, NEW st \in StoredState, Active(st) \in DOMAIN st.senders,
           NEW ses, NEW acc, Distinct(st, ses, made), KeysOfSessions(ses, made),
           \A m \in DOMAIN acc : acc[m].sender \in DOMAIN ses,
           \A s \in DOMAIN ses : ses[s].keys \in Nat,
           NEW new, new = EnsureIdentity(st)
    PROVE  /\ new = st \/ Distinct(new, ses, made + 1)
           /\ Sent(st, ses, acc) => Sent(new, ses, acc)
<1> DEFINE i == Active(st)
<1>1. CASE st.senders[i].keys # 0
  BY <1>1 DEF EnsureIdentity
<1>2. CASE st.senders[i].keys = 0
  <2> DEFINE x == [st.senders[i] EXCEPT !.keys = made + 1]
  <2>1. \A j \in DOMAIN st.senders : st.senders[j] \in Sender
    BY DEF StoredState
  <2>2. /\ x \in Sender /\ x.keys = made + 1 /\ x.id = st.senders[i].id
        /\ x.session = st.senders[i].session
    BY <2>1 DEF Sender
  <2>3. new = [st EXCEPT !.senders[i] = x] /\ i \in DOMAIN st.senders
    BY <1>2 DEF EnsureIdentity
  <2> HIDE DEF x, i
  <2>4. /\ DOMAIN new.senders = DOMAIN st.senders
        /\ \A j \in DOMAIN st.senders : new.senders[j] = IF j = i THEN x ELSE st.senders[j]
    BY <2>2, <2>3, SetSender
  <2>5. \A j \in DOMAIN st.senders : st.senders[j].keys \in Nat /\ st.senders[j].keys <= made
    BY <2>1 DEF Sender, Distinct
  <2>6. x.session = 0
    BY <1>2, <2>2, <2>3 DEF Distinct, KeysOfSessions
  <2>7. ASSUME NEW j \in DOMAIN st.senders
        PROVE  /\ new.senders[j].keys <= made + 1
               /\ \A k \in DOMAIN st.senders :
                     k # j /\ new.senders[k].keys = new.senders[j].keys => new.senders[j].keys = 0
               /\ new.senders[j].id \in {0} \cup DOMAIN ses
               /\ new.senders[j].session # 0 => /\ new.senders[j].session \in DOMAIN ses
                                                /\ ses[new.senders[j].session].keys = new.senders[j].keys
    <3>1. new.senders[j].keys <= made + 1
      BY <2>2, <2>4, <2>5
    <3>2. ASSUME NEW k \in DOMAIN st.senders, k # j, new.senders[k].keys = new.senders[j].keys
          PROVE  new.senders[j].keys = 0
      <4>1. k # i /\ j # i
        BY <2>2, <2>4, <2>5, <3>2
      <4>2. QED
        BY <2>4, <3>2, <4>1 DEF Distinct
    <3>3. new.senders[j].id \in {0} \cup DOMAIN ses
      BY <2>2, <2>3, <2>4 DEF Distinct
    <3>4. new.senders[j].session # 0 => /\ new.senders[j].session \in DOMAIN ses
                                        /\ ses[new.senders[j].session].keys = new.senders[j].keys
      BY <2>4, <2>6 DEF Distinct
    <3>5. QED
      BY <3>1, <3>2, <3>3, <3>4
  <2>8. Distinct(new, ses, made + 1)
    BY <2>4, <2>7 DEF Distinct
  <2>9. ASSUME Sent(st, ses, acc) PROVE Sent(new, ses, acc)
    <3>1. \A m \in DOMAIN acc : x.keys # ses[acc[m].sender].keys
      BY <2>2 DEF KeysOfSessions
    <3>2. QED
      BY <2>4, <2>9, <3>1 DEF Sent
  <2>10. QED
    BY <2>8, <2>9
<1>3. QED
  BY <1>1, <1>2

\* What a step of a command does to the senders of its copy: one may get an id, or a
\* session that knows its keys.
Updates(old, new, ses) ==
    /\ DOMAIN new.senders = DOMAIN old.senders
    /\ \A i \in DOMAIN old.senders :
          LET x == old.senders[i]
              y == new.senders[i]
          IN  /\ y.keys = x.keys
              /\ y.id = x.id \/ y.id \in DOMAIN ses
              /\ \/ y.session = x.session
                 \/ y.session \in DOMAIN ses /\ ses[y.session].keys = y.keys

\* An update leaves keys with one sender, and takes no id away.
LEMMA UpdatedDistinct ==
    ASSUME NEW old, NEW new, NEW ses, NEW more, NEW n, NEW acc,
           Distinct(old, ses, n), SessionsStay(ses, more), Updates(old, new, more),
           0 \notin DOMAIN more, \A m \in DOMAIN acc : acc[m].sender \in DOMAIN ses
    PROVE  /\ Distinct(new, more, n)
           /\ Sent(old, ses, acc) => Sent(new, more, acc)
<1>1. ASSUME NEW i \in DOMAIN new.senders
      PROVE  /\ new.senders[i].keys <= n
             /\ \A j \in DOMAIN new.senders :
                   j # i /\ new.senders[j].keys = new.senders[i].keys => new.senders[i].keys = 0
             /\ new.senders[i].id \in {0} \cup DOMAIN more
             /\ new.senders[i].session # 0 => /\ new.senders[i].session \in DOMAIN more
                                              /\ more[new.senders[i].session].keys = new.senders[i].keys
  <2>1. /\ i \in DOMAIN old.senders /\ new.senders[i].keys = old.senders[i].keys
        /\ new.senders[i].id = old.senders[i].id \/ new.senders[i].id \in DOMAIN more
        /\ \/ new.senders[i].session = old.senders[i].session
           \/ /\ new.senders[i].session \in DOMAIN more
              /\ more[new.senders[i].session].keys = new.senders[i].keys
    BY <1>1 DEF Updates
  <2>2. /\ old.senders[i].keys <= n /\ old.senders[i].id \in {0} \cup DOMAIN ses
        /\ old.senders[i].session # 0 => /\ old.senders[i].session \in DOMAIN ses
                                         /\ ses[old.senders[i].session].keys = old.senders[i].keys
    BY <2>1 DEF Distinct
  <2>3. \A j \in DOMAIN new.senders :
           j # i /\ new.senders[j].keys = new.senders[i].keys => new.senders[i].keys = 0
    BY <2>1 DEF Distinct, Updates
  <2>4. QED
    BY <2>1, <2>2, <2>3 DEF SessionsStay
<1>2. Distinct(new, more, n)
  BY <1>1 DEF Distinct
<1>3. ASSUME Sent(old, ses, acc) PROVE Sent(new, more, acc)
  BY <1>3 DEF Sent, Updates, SessionsStay
<1>4. QED
  BY <1>2, <1>3

\* Other senders stay, and one gets no more than an id and a session.
LEMMA OneUpdate ==
    ASSUME NEW old, NEW new, NEW ses, NEW i,
           DOMAIN new.senders = DOMAIN old.senders,
           new.senders[i].keys = old.senders[i].keys,
           new.senders[i].id = old.senders[i].id \/ new.senders[i].id \in DOMAIN ses,
           \/ new.senders[i].session = old.senders[i].session
           \/ new.senders[i].session \in DOMAIN ses /\ ses[new.senders[i].session].keys = new.senders[i].keys,
           \A j \in DOMAIN old.senders : j # i => new.senders[j] = old.senders[j]
    PROVE  Updates(old, new, ses)
BY DEF Updates

\* No session or message has the number 0.
LEMMA NumbersFromOne == TypeInv => 0 \notin DOMAIN sessions /\ 0 \notin DOMAIN accepted
BY DEF TypeInv, CliTypeOK

\* The steps of a pairing update the copy of their command, or end it.
LEMMA PairingUpdates ==
    ASSUME TypeInv, KeyInv, DistinctInv, NEW p \in Process,
           StartRemoteSetup(p) \/ SetupBlocked(p) \/ Ask(p)
    PROVE  /\ SessionsStay(sessions, sessions') /\ KeysOfSessions(sessions', made)
           /\ UNCHANGED <<file, accepted, clock, made, faults, lone, stored>>
           /\ proc[p].pc \in {"start", "ask"}
           /\ \E c : /\ proc' = [proc EXCEPT ![p] = c]
                     /\ \/ c = Idle
                        \/ /\ c.pc = "write" /\ c.next = "idle" /\ c.state \in StoredState
                           /\ c.state.messages = proc[p].state.messages
                           /\ Updates(proc[p].state, c.state, sessions')
<1> DEFINE old == proc[p].state
           i == proc[p].me
<1>1. /\ proc[p] \in Command /\ old \in StoredState
      /\ CommandFits(proc[p], sessions, accepted) /\ KnowsKeys(proc[p], sessions, own)
  BY DEF TypeInv, CliTypeOK, Command, KeyInv
<1>2. CASE StartRemoteSetup(p)
  <2> DEFINE n == Len(sessions) + 1
             st == [old EXCEPT !.senders[i].session = n]
  <2>1. /\ proc[p].pc = "start" /\ sessions' = Started(p) /\ Save(p, st, "idle")
        /\ UNCHANGED <<file, accepted, clock, made, faults, lone, stored>>
    BY <1>2 DEF StartRemoteSetup
  <2>2. /\ i \in DOMAIN old.senders /\ n \in Nat /\ n # 0
        /\ DOMAIN sessions' = DOMAIN sessions \cup {n}
        /\ \A s \in DOMAIN sessions : sessions'[s] = sessions[s]
        /\ sessions'[n].keys = old.senders[i].keys
    BY <2>1, StartedIs
  <2>3. old.senders[i].keys # 0 /\ old.senders[i].keys <= made
    BY <1>1, <2>1, <2>2 DEF KnowsKeys, DistinctInv, Distinct
  <2> HIDE DEF n, i
  <2>4. st = [old EXCEPT !.senders[i].session = n]
    OBVIOUS
  <2> HIDE DEF st, old
  <2>5. /\ st \in StoredState /\ st.messages = old.messages
        /\ DOMAIN st.senders = DOMAIN old.senders
        /\ st.senders[i].session = n /\ st.senders[i].keys = old.senders[i].keys
        /\ st.senders[i].id = old.senders[i].id
        /\ \A j \in DOMAIN old.senders : j # i => st.senders[j] = old.senders[j]
    BY <1>1, <2>2, <2>4, SetSession
  <2>6. SessionsStay(sessions, sessions') /\ KeysOfSessions(sessions', made)
    BY <2>2, <2>3 DEF SessionsStay, KeysOfSessions, DistinctInv
  <2>7. Updates(old, st, sessions')
    BY <2>2, <2>5, OneUpdate
  <2>8. PICK c \in Command : /\ proc' = [proc EXCEPT ![p] = c]
                             /\ c.pc = "write" /\ c.next = "idle" /\ c.state = st
    BY <2>1, <2>5, SaveIs DEF old
  <2>9. QED
    BY <2>1, <2>5, <2>6, <2>7, <2>8 DEF old
<1>3. CASE SetupBlocked(p)
  <2> DEFINE st == proc[p].state
  <2>1. /\ Save(p, st, "idle") /\ st \in StoredState /\ proc[p].pc = "start"
        /\ DOMAIN st.senders = DOMAIN proc[p].state.senders
        /\ UNCHANGED <<file, sessions, accepted, clock, made, faults, lone, stored>>
        /\ Updates(proc[p].state, st, sessions') /\ st.messages = proc[p].state.messages
    BY <1>1, <1>3 DEF SetupBlocked, server, Updates
  <2> HIDE DEF st
  <2>2. PICK c \in Command : /\ proc' = [proc EXCEPT ![p] = c]
                             /\ c.pc = "write" /\ c.next = "idle" /\ c.state = st
    BY <2>1, SaveIs
  <2>3. SessionsStay(sessions, sessions') /\ KeysOfSessions(sessions', made)
    BY <2>1 DEF SessionsStay, DistinctInv
  <2>4. QED
    BY <2>1, <2>2, <2>3
<1>4. CASE Ask(p)
  <2>1. /\ proc[p].pc = "ask"
        /\ UNCHANGED <<file, sessions, accepted, clock, made, faults, lone, stored>>
    BY <1>4 DEF Ask, server
  <2>2. SessionsStay(sessions, sessions') /\ KeysOfSessions(sessions', made)
    BY <2>1 DEF SessionsStay, DistinctInv
  <2>3. CASE i = 0
    BY <1>4, <2>1, <2>2, <2>3 DEF Ask, Finish
  <2>4. CASE i # 0
    <3> DEFINE s == proc[p].session
               st == ApplyPairing(old, i, s)
    <3>1. Save(p, st, "idle")
      BY <1>4, <2>4 DEF Ask
    <3>2. i \in DOMAIN old.senders /\ s \in Nat /\ s \in DOMAIN sessions
      BY <1>1, <2>1, <2>4 DEF CommandFits, Command
    <3> HIDE DEF s, i
    <3>3. st = ApplyPairing(old, i, s)
      OBVIOUS
    <3> HIDE DEF old, st
    <3>4. /\ st \in StoredState /\ st.messages = old.messages
          /\ DOMAIN st.senders = DOMAIN old.senders
          /\ st.senders[i].id \in {old.senders[i].id, s}
          /\ st.senders[i].keys = old.senders[i].keys
          /\ st.senders[i].session = old.senders[i].session
          /\ \A j \in DOMAIN old.senders : j # i => st.senders[j] = old.senders[j]
      BY <1>1, <3>2, <3>3, ApplyPairingIs
    <3>5. Updates(old, st, sessions')
      BY <2>1, <3>2, <3>4, OneUpdate
    <3>6. PICK c \in Command : /\ proc' = [proc EXCEPT ![p] = c]
                               /\ c.pc = "write" /\ c.next = "idle" /\ c.state = st
      BY <3>1, <3>4, SaveIs DEF old
    <3>7. QED
      BY <2>1, <2>2, <3>4, <3>5, <3>6 DEF old
  <2>5. QED
    BY <2>3, <2>4
<1>5. QED
  BY <1>2, <1>3, <1>4

\* So does the refresh, which goes on with a sender that has an id.
LEMMA RefreshUpdates ==
    ASSUME TypeInv, DistinctInv, NEW p \in Process, Refresh(p)
    PROVE  /\ UNCHANGED <<file, sessions, accepted, clock, made, faults, lone, stored>>
           /\ proc[p].pc = "refresh"
           /\ \E c : /\ proc' = [proc EXCEPT ![p] = c]
                     /\ c.state = Refreshed(p) /\ c.state \in StoredState
                     /\ c.state.messages = proc[p].state.messages
                     /\ Updates(proc[p].state, c.state, sessions)
                     /\ \/ c.pc = "write" /\ c.next = "idle"
                        \/ /\ c.pc = "post" /\ c.next = "idle" /\ c.me = proc[p].me
                           /\ c.content = proc[p].content /\ c.at = proc[p].at
<1> DEFINE old == proc[p].state
           i == proc[p].me
           st == Refreshed(p)
<1>1. /\ proc[p] \in Command /\ old \in StoredState
      /\ CommandFits(proc[p], sessions, accepted) /\ Distinct(old, sessions, made)
  BY DEF TypeInv, CliTypeOK, Command, DistinctInv
<1>2. /\ proc[p].pc = "refresh"
      /\ UNCHANGED <<file, sessions, accepted, clock, made, faults, lone, stored>>
      /\ \/ Save(p, st, "idle")
         \/ proc' = [proc EXCEPT ![p] = [proc[p] EXCEPT !.pc = "post", !.state = st]]
  BY DEF Refresh, Refreshed, server
<1>3. i \in DOMAIN old.senders /\ proc[p].next = "idle"
  BY <1>1, <1>2 DEF CommandFits
<1>4. /\ st \in StoredState /\ st.messages = old.messages
      /\ DOMAIN st.senders = DOMAIN old.senders
      /\ \/ st.senders[i].id = old.senders[i].id
         \/ st.senders[i].id = old.senders[i].session
      /\ st.senders[i].keys = old.senders[i].keys
      /\ st.senders[i].session = old.senders[i].session
      /\ \A j \in DOMAIN old.senders : j # i => st.senders[j] = old.senders[j]
  BY <1>1, <1>3, RefreshedIs
<1>5. st.senders[i].id = old.senders[i].id \/ st.senders[i].id \in DOMAIN sessions
  <2>1. CASE old.senders[i].session # 0
    BY <1>1, <1>3, <1>4, <2>1 DEF Distinct
  <2>2. CASE old.senders[i].session = 0
    BY <1>3, <2>2 DEF Refreshed
  <2>3. QED
    BY <2>1, <2>2
<1> HIDE DEF st
<1>6. Updates(old, st, sessions)
  BY <1>4, <1>5, OneUpdate
<1>7. CASE Save(p, st, "idle")
  <2>1. PICK c \in Command : /\ proc' = [proc EXCEPT ![p] = c]
                             /\ c.pc = "write" /\ c.next = "idle" /\ c.state = st
    BY <1>4, <1>7, SaveIs
  <2>2. QED
    BY <1>2, <1>4, <1>6, <2>1 DEF st
<1>8. CASE proc' = [proc EXCEPT ![p] = [proc[p] EXCEPT !.pc = "post", !.state = st]]
  <2> DEFINE c == [proc[p] EXCEPT !.pc = "post", !.state = st]
  <2>1. /\ c.pc = "post" /\ c.state = st /\ c.me = proc[p].me /\ c.next = proc[p].next
        /\ c.content = proc[p].content /\ c.at = proc[p].at
    BY <1>1 DEF Command
  <2>2. proc' = [proc EXCEPT ![p] = c]
    BY <1>8
  <2> HIDE DEF c
  <2>3. QED
    BY <1>2, <1>3, <1>4, <1>6, <2>1, <2>2 DEF st
<1>9. QED
  BY <1>2, <1>7, <1>8

-----------------------------------------------------------------------------
(* Keys stay with one sender *)

\* The keys of sessions are numbers.
LEMMA SessionKeys == TypeInv => \A s \in DOMAIN sessions : sessions[s].keys \in Nat
<1> SUFFICES ASSUME TypeInv, NEW s \in DOMAIN sessions PROVE sessions[s].keys \in Nat
  OBVIOUS
<1>1. sessions[s] \in SessionRow
  BY DEF TypeInv, CliTypeOK
<1>2. QED
  BY <1>1 DEF SessionRow

\* What a command prepares from the file gives new keys to nobody else, and every
\* message keeps a sender with an id.
Fresh(st) ==
    /\ Distinct(st, sessions, made')
    /\ Sent(stored, sessions, accepted) => Sent(st, sessions, accepted)

\* The state sendMessage prepares,
LEMMA SendFresh ==
    ASSUME TypeInv, DistinctInv, NEW old \in StoredState, Distinct(old, sessions, made),
           Active(old) \in DOMAIN old.senders,
           Sent(stored, sessions, accepted) => Sent(old, sessions, accepted),
           NEW st, st = EnsureIdentity(old),
           made' = IF st = old THEN made ELSE made + 1
    PROVE  Fresh(st) /\ made' \in Nat /\ made <= made'
<1>1. made \in Nat
  BY DEF TypeInv, CliTypeOK
<1>2. /\ st = old \/ Distinct(st, sessions, made + 1)
      /\ Sent(old, sessions, accepted) => Sent(st, sessions, accepted)
  BY <1>1, SessionKeys, EnsureIdentityDistinct DEF DistinctInv
<1>3. QED
  BY <1>1, <1>2 DEF Fresh

\* the one of a revocation,
LEMMA RevokedFresh ==
    ASSUME TypeInv, DistinctInv, NEW i \in DOMAIN stored.senders, UNCHANGED made
    PROVE  Fresh(Revoked(stored, i))
<1> DEFINE st == Revoked(stored, i)
<1>1. stored \in StoredState /\ Distinct(stored, sessions, made)
  BY DEF TypeInv, CliTypeOK, DistinctInv
<1>2. /\ st \in StoredState /\ st.messages = stored.messages
      /\ DOMAIN st.senders = DOMAIN stored.senders
      /\ st.senders[i].revoked = TRUE /\ st.senders[i].keys = stored.senders[i].keys
      /\ st.senders[i].session = stored.senders[i].session
      /\ st.senders[i].id = stored.senders[i].id
      /\ \A j \in DOMAIN stored.senders : j # i => st.senders[j] = stored.senders[j]
  BY <1>1, SetRevoked
<1> HIDE DEF st
<1>3. Updates(stored, st, sessions)
  BY <1>2, OneUpdate
<1>4. SessionsStay(sessions, sessions)
  BY DEF SessionsStay
<1>5. QED
  BY <1>1, <1>3, <1>4, NumbersFromOne, UpdatedDistinct DEF st, Fresh, DistinctInv

\* and ensureSender's.
LEMMA EnsuredFresh ==
    ASSUME TypeInv, DistinctInv, NEW st, st = EnsureSender(stored)
    PROVE  /\ st \in StoredState /\ Active(st) \in DOMAIN st.senders
           /\ Distinct(st, sessions, made)
           /\ Sent(stored, sessions, accepted) => Sent(st, sessions, accepted)
<1>1. stored \in StoredState /\ made \in Nat
  BY DEF TypeInv, CliTypeOK
<1>2. st \in StoredState /\ Active(st) \in DOMAIN st.senders
  BY <1>1, EnsureSenderIs DEF Prepares
<1>3. QED
  BY <1>1, <1>2, EnsureSenderDistinct DEF DistinctInv

\* What a message that is about to be sent knows of the stored ones.
Unrepeated(c) ==
    c.next = "refresh" =>
        /\ c.at = clock
        /\ \A m \in stored.messages :
              accepted[m].sender = c.state.senders[c.me].id /\ accepted[m].content = c.content
              => ~(clock - accepted[m].at < Window)

\* A command that opens with a write prepares a fresh state.
LEMMA WritesFresh ==
    ASSUME TypeInv, DistinctInv, NEW p \in Process, Writes(p)
    PROVE  /\ UNCHANGED <<file, server, clock, faults, stored>> /\ made' \in Nat /\ made <= made'
           /\ \E c : Open(p, c) /\ WritesWell(c) /\ Fresh(c.state) /\ Unrepeated(c)
<1>1. UNCHANGED <<file, server, clock, faults, stored>>
  BY WriteOpens
<1>2. PICK c : Open(p, c) /\ WritesWell(c)
  BY WriteOpens
<1>3. \A d : Open(p, d) => c = d
  <2>1. proc \in [Process -> Command]
    BY DEF TypeInv, CliTypeOK
  <2>2. \A d : Open(p, d) => proc'[p] = d
    BY <2>1 DEF Open
  <2>3. QED
    BY <1>2, <2>2
<1>4. made \in Nat /\ stored \in StoredState
  BY DEF TypeInv, CliTypeOK
<1> DEFINE en == EnsureSender(stored)
<1>5. /\ en \in StoredState /\ Active(en) \in DOMAIN en.senders
      /\ Distinct(en, sessions, made)
      /\ Sent(stored, sessions, accepted) => Sent(en, sessions, accepted)
  BY EnsuredFresh
<1>6. CASE SetupLocal(p) \/ SendUnconfigured(p)
  <2> DEFINE d == [Idle EXCEPT !.pc = "write", !.state = en]
  <2>1. Open(p, d) /\ UNCHANGED made
    BY <1>6 DEF SetupLocal, SendUnconfigured
  <2>2. d.state = en /\ d.next = "idle"
    BY IdleType DEF Command
  <2> HIDE DEF d, en
  <2>3. c.state = en /\ c.next = "idle"
    BY <1>3, <2>1, <2>2
  <2>4. Fresh(c.state) /\ Unrepeated(c)
    BY <1>5, <2>1, <2>3 DEF Fresh, Unrepeated
  <2>5. QED
    BY <1>1, <1>2, <1>4, <2>1, <2>4
<1>7. CASE Setup(p)
  <2> DEFINE with == [en EXCEPT !.api = TRUE]
             st == EnsureIdentity(with)
             me == Active(st)
             d == [Idle EXCEPT !.pc = "write", !.next = "start", !.state = st, !.me = me]
  <2>1. Open(p, d) /\ made' = IF st = with THEN made ELSE made + 1
    BY <1>7 DEF Setup
  <2> HIDE DEF en
  <2>2. /\ Distinct(with, sessions, made)
        /\ Sent(stored, sessions, accepted) => Sent(with, sessions, accepted)
    BY <1>5, SetApiDistinct
  <2>3. with \in StoredState /\ Active(with) \in DOMAIN with.senders
    BY <1>5, SetApi DEF Prepares
  <2> HIDE DEF with
  <2>4. Fresh(st) /\ made' \in Nat /\ made <= made'
    BY <2>1, <2>2, <2>3, SendFresh
  <2> HIDE DEF st, me
  <2>5. d.state = st /\ d.next = "start"
    BY IdleType DEF Command
  <2> HIDE DEF d
  <2>6. c.state = st /\ c.next = "start"
    BY <1>3, <2>1, <2>5
  <2>7. QED
    BY <1>1, <1>2, <2>4, <2>6 DEF Unrepeated
<1>8. ASSUME NEW i \in DOMAIN stored.senders, Revoke(p, i)
      PROVE  /\ made' \in Nat /\ made <= made'
             /\ \E e : Open(p, e) /\ WritesWell(e) /\ Fresh(e.state) /\ Unrepeated(e)
  <2> DEFINE st == Revoked(stored, i)
             d == [Idle EXCEPT !.pc = "write", !.state = st]
  <2>1. Open(p, d) /\ UNCHANGED made
    BY <1>8 DEF Revoke, Revoked
  <2>2. Fresh(st)
    BY <2>1, RevokedFresh
  <2> HIDE DEF st
  <2>3. d.state = st /\ d.next = "idle"
    BY IdleType DEF Command
  <2> HIDE DEF d
  <2>4. c.state = st /\ c.next = "idle"
    BY <1>3, <2>1, <2>3
  <2>5. QED
    BY <1>2, <1>4, <2>1, <2>2, <2>4 DEF Unrepeated
<1>9. ASSUME NEW x \in Content, NEW want \in Wanted \cup {"none"}, Send(p, x, want)
      PROVE  /\ made' \in Nat /\ made <= made'
             /\ \E e : Open(p, e) /\ WritesWell(e) /\ Fresh(e.state) /\ Unrepeated(e)
  <2> DEFINE st == EnsureIdentity(en)
             i == Active(st)
             d == [Idle EXCEPT !.pc = "write", !.next = "refresh", !.state = st, !.me = i,
                               !.content = x, !.at = clock, !.want = want]
  <2>1. /\ Open(p, d) /\ made' = (IF st = en THEN made ELSE made + 1)
        /\ ~HasRecentDuplicate(st, i, x)
    BY <1>9 DEF Send
  <2> HIDE DEF en
  <2>2. Fresh(st) /\ made' \in Nat /\ made <= made'
    BY <1>5, <2>1, SendFresh
  <2> HIDE DEF st, i
  <2>3. /\ d.state = st /\ d.next = "refresh" /\ d.me = i /\ d.content = x /\ d.at = clock
    BY IdleType DEF Command
  <2> HIDE DEF d
  <2>4. c = d
    BY <1>3, <2>1
  <2>5. stored.messages \subseteq st.messages
    BY <1>2, <2>3, <2>4 DEF WritesWell, Prepares, Extends
  <2>6. Unrepeated(c)
    BY <2>1, <2>3, <2>4, <2>5 DEF Unrepeated, HasRecentDuplicate
  <2>7. QED
    BY <1>2, <2>2, <2>3, <2>4, <2>6
<1>10. QED
  BY <1>1, <1>6, <1>7, <1>8, <1>9 DEF Writes

\* A step of one process, which may have stored its copy of the state.
LEMMA DistinctKept ==
    ASSUME TypeInv, DistinctInv, NEW p \in Process, NEW c, proc' = [proc EXCEPT ![p] = c],
           SessionsStay(sessions, sessions'), KeysOfSessions(sessions', made'),
           made' \in Nat, made <= made', stored' \in {stored, proc[p].state},
           Distinct(c.state, sessions', made'),
           \A m \in DOMAIN accepted' : accepted'[m].sender \in DOMAIN sessions'
    PROVE  DistinctInv'
<1>1. /\ \A q \in Process : proc'[q] = IF q = p THEN c ELSE proc[q]
      /\ \A q \in Process : proc[q].state \in StoredState
      /\ stored \in StoredState /\ made \in Nat
  BY DEF TypeInv, CliTypeOK, Command
<1>2. \A q \in Process : Distinct(proc[q].state, sessions', made')
  BY <1>1, DistinctStays DEF DistinctInv
<1>3. Distinct(stored, sessions', made')
  BY <1>1, DistinctStays DEF DistinctInv
<1>4. Distinct(stored', sessions', made')
  BY <1>2, <1>3
<1>5. \A q \in Process : Distinct(proc'[q].state, sessions', made')
  BY <1>1, <1>2
<1>6. QED
  BY <1>4, <1>5 DEF DistinctInv

\* The same, where sessions, keys and messages stay.
LEMMA DistinctAside ==
    ASSUME TypeInv, DistinctInv, NEW p \in Process, NEW c, proc' = [proc EXCEPT ![p] = c],
           UNCHANGED <<sessions, accepted, made>>, stored' \in {stored, proc[p].state},
           c.state = DefaultState \/ c.state = stored \/ c.state = proc[p].state
    PROVE  DistinctInv'
<1>1. SessionsStay(sessions, sessions') /\ made' \in Nat /\ made <= made'
  BY DEF SessionsStay, TypeInv, CliTypeOK
<1>2. KeysOfSessions(sessions', made') /\ Distinct(c.state, sessions', made')
  BY DefaultDistinct DEF DistinctInv
<1>3. \A m \in DOMAIN accepted' : accepted'[m].sender \in DOMAIN sessions'
  BY DEF DistinctInv
<1>4. QED
  BY <1>1, <1>2, <1>3, DistinctKept

\* Commands that open.
LEMMA OpensDistinct ==
    ASSUME TypeInv, DistinctInv, NEW p \in Process,
           \/ Writes(p)
           \/ \E s \in DOMAIN sessions : Status(p, s)
           \/ \E m \in DOMAIN accepted, want \in Wanted : WaitTool(p, m, want)
    PROVE  DistinctInv'
<1>1. CASE Writes(p)
  <2>1. PICK c : Open(p, c) /\ Fresh(c.state)
    BY <1>1, WritesFresh
  <2>2. UNCHANGED <<sessions, accepted, stored>> /\ made' \in Nat /\ made <= made' /\ made \in Nat
    BY <1>1, WritesFresh DEF server, TypeInv, CliTypeOK
  <2>3. SessionsStay(sessions, sessions') /\ KeysOfSessions(sessions', made')
    BY <2>2, SessionKeys DEF SessionsStay, KeysOfSessions, DistinctInv
  <2>4. proc' = [proc EXCEPT ![p] = c] /\ Distinct(c.state, sessions', made')
    BY <2>1, <2>2 DEF Open, Fresh
  <2>5. \A m \in DOMAIN accepted' : accepted'[m].sender \in DOMAIN sessions'
    BY <2>2 DEF DistinctInv
  <2>6. QED
    BY <2>2, <2>3, <2>4, <2>5, DistinctKept
<1>2. ASSUME NEW s \in DOMAIN sessions, Status(p, s)
      PROVE  DistinctInv'
  <2> DEFINE me == Active(stored)
             c == [Idle EXCEPT !.pc = "ask", !.state = stored, !.me = me, !.session = s]
  <2>1. proc' = [proc EXCEPT ![p] = c] /\ UNCHANGED <<sessions, accepted, made, stored>>
    BY <1>2 DEF Status, Open, server
  <2>2. c.state = stored
    BY IdleType DEF Command
  <2> HIDE DEF c
  <2>3. QED
    BY <2>1, <2>2, DistinctAside
<1>3. ASSUME NEW m \in DOMAIN accepted, NEW want \in Wanted, WaitTool(p, m, want)
      PROVE  DistinctInv'
  <2> DEFINE c == [Idle EXCEPT !.pc = "await", !.message = m, !.want = want]
  <2>1. proc' = [proc EXCEPT ![p] = c] /\ UNCHANGED <<sessions, accepted, made, stored>>
    BY <1>3 DEF WaitTool, Open, server
  <2>2. c.state = DefaultState
    BY IdleType DEF Command
  <2> HIDE DEF c
  <2>3. QED
    BY <2>1, <2>2, DistinctAside
<1>4. QED
  BY <1>1, <1>2, <1>3

\* Steps that hold on to their copy, or drop it.
LEMMA RestDistinct ==
    ASSUME TypeInv, DistinctInv, NEW p \in Process,
           BeginWrite(p) \/ EndWrite(p) \/ Await(p) \/ Poll(p) \/ GiveUp(p)
    PROVE  DistinctInv'
<1>1. /\ UNCHANGED <<sessions, accepted, made>> /\ stored' \in {stored, proc[p].state}
      /\ proc[p] \in Command
  BY DEF BeginWrite, EndWrite, Await, Poll, GiveUp, server, TypeInv, CliTypeOK
<1>2. CASE Finish(p)
  BY <1>1, <1>2, IdleType, DistinctAside DEF Finish
<1>3. CASE BeginWrite(p)
  <2> DEFINE c == [proc[p] EXCEPT !.pc = "writing"]
  <2>1. proc' = [proc EXCEPT ![p] = c] /\ c.state = proc[p].state
    BY <1>1, <1>3 DEF BeginWrite, Command
  <2> HIDE DEF c
  <2>2. QED
    BY <1>1, <2>1, DistinctAside
<1>4. CASE EndWrite(p)
  <2> DEFINE c == IF proc[p].next = "idle" THEN Idle
                  ELSE [proc[p] EXCEPT !.pc = proc[p].next, !.next = "idle"]
  <2>1. proc' = [proc EXCEPT ![p] = c]
    BY <1>4 DEF EndWrite
  <2>2. c.state = DefaultState \/ c.state = proc[p].state
    BY <1>1, IdleType DEF Command
  <2> HIDE DEF c
  <2>3. QED
    BY <1>1, <2>1, <2>2, DistinctAside
<1>5. CASE Await(p) /\ Readable
  BY <1>1, <1>5, AwaitIs, DistinctAside
<1>6. CASE Poll(p) /\ ~Finish(p)
  BY <1>1, <1>6, PollIs, DistinctAside
<1>7. QED
  BY <1>2, <1>3, <1>4, <1>5, <1>6 DEF Await, GiveUp

\* Pairings,
LEMMA PairingDistinct ==
    ASSUME TypeInv, KeyInv, TypeInv', DistinctInv, NEW p \in Process,
           StartRemoteSetup(p) \/ SetupBlocked(p) \/ Ask(p)
    PROVE  DistinctInv'
<1>1. /\ SessionsStay(sessions, sessions') /\ KeysOfSessions(sessions', made)
      /\ UNCHANGED <<file, accepted, clock, made, faults, lone, stored>>
  BY PairingUpdates
<1>2. PICK c : /\ proc' = [proc EXCEPT ![p] = c]
               /\ c = Idle \/ Updates(proc[p].state, c.state, sessions')
  BY PairingUpdates
<1>3. 0 \notin DOMAIN sessions'
  BY DEF TypeInv, CliTypeOK
<1>4. Distinct(c.state, sessions', made')
  <2>1. CASE c = Idle
    BY <2>1, IdleType, DefaultDistinct
  <2>2. CASE Updates(proc[p].state, c.state, sessions')
    <3> DEFINE old == proc[p].state
               new == c.state
               more == sessions'
    <3>1. Distinct(old, sessions, made) /\ Updates(old, new, more)
      BY <2>2 DEF DistinctInv
    <3>2. \A m \in DOMAIN accepted : accepted[m].sender \in DOMAIN sessions
      BY DEF DistinctInv
    <3>3. SessionsStay(sessions, more) /\ 0 \notin DOMAIN more
      BY <1>1, <1>3
    <3> HIDE DEF old, new, more
    <3>4. Distinct(new, more, made)
      BY <3>1, <3>2, <3>3, UpdatedDistinct
    <3>5. QED
      BY <1>1, <3>4 DEF new, more
  <2>3. QED
    BY <1>2, <2>1, <2>2
<1>5. \A m \in DOMAIN accepted' : accepted'[m].sender \in DOMAIN sessions'
  BY <1>1 DEF DistinctInv, SessionsStay
<1>6. made \in Nat /\ made' \in Nat /\ made <= made' /\ KeysOfSessions(sessions', made')
  BY <1>1 DEF TypeInv, CliTypeOK
<1>7. QED
  BY <1>1, <1>2, <1>4, <1>5, <1>6, DistinctKept

\* The row of a message that is accepted.
LEMMA AcceptedRow ==
    ASSUME TypeInv, NEW p \in Process, proc[p].pc = "post",
           NEW n, n = Len(accepted) + 1
    PROVE  /\ Accepted(p)[n].sender = proc[p].state.senders[proc[p].me].id
           /\ Accepted(p)[n].content = proc[p].content
           /\ Accepted(p)[n].at = proc[p].at
<1> DEFINE me == proc[p].me
           x == [sender |-> proc[p].state.senders[me].id, content |-> proc[p].content,
                 at |-> proc[p].at, state |-> "accepted", since |-> clock]
<1>1. /\ proc[p] \in Command /\ CommandFits(proc[p], sessions, accepted)
      /\ accepted \in Seq(MessageRow) /\ clock \in Nat
  BY DEF TypeInv, CliTypeOK
<1>2. /\ me \in DOMAIN proc[p].state.senders /\ proc[p].state \in StoredState
      /\ proc[p].content \in Content /\ proc[p].at \in Nat
  BY <1>1 DEF CommandFits, Command
<1>3. proc[p].state.senders[me] \in Sender
  BY <1>2 DEF StoredState
<1>4. x \in MessageRow
  BY <1>1, <1>2, <1>3 DEF MessageRow, Sender, DeliveryState
<1>5. Accepted(p) = Append(accepted, x)
  BY DEF Accepted
<1>6. x.sender = proc[p].state.senders[me].id /\ x.content = proc[p].content /\ x.at = proc[p].at
  OBVIOUS
<1> HIDE DEF x
<1>7. Accepted(p)[n] = x
  BY <1>1, <1>4, <1>5, AppendProperties
<1>8. QED
  BY <1>6, <1>7

\* Sending a message, or being refused.
LEMMA PostIs ==
    ASSUME TypeInv, DistinctInv, NEW p \in Process, Post(p)
    PROVE  /\ UNCHANGED <<file, sessions, clock, made, faults, lone, stored>>
           /\ proc[p].pc = "post"
           /\ \/ proc' = [proc EXCEPT ![p] = Idle] /\ UNCHANGED accepted
              \/ /\ accepted' = Accepted(p)
                 /\ MayAct(proc[p].state.senders[proc[p].me])
                 /\ proc[p].state.senders[proc[p].me].id \in DOMAIN sessions
                 /\ \E c : /\ proc' = [proc EXCEPT ![p] = c]
                           /\ c.pc = "write" /\ c.next \in {"idle", "await"}
                           /\ c.state.senders = proc[p].state.senders
                           /\ c.state.messages = proc[p].state.messages \cup {Len(accepted) + 1}
<1>1. /\ proc[p] \in Command /\ CommandFits(proc[p], sessions, accepted)
      /\ Distinct(proc[p].state, sessions, made)
  BY DEF TypeInv, CliTypeOK, DistinctInv
<1>2. /\ proc[p].pc = "post"
      /\ UNCHANGED <<file, sessions, clock, made, faults, lone, stored>>
  BY DEF Post
<1>3. CASE ~MayAct(proc[p].state.senders[proc[p].me])
  BY <1>2, <1>3 DEF Post, Finish
<1>4. CASE MayAct(proc[p].state.senders[proc[p].me])
  <2> DEFINE n == Len(accepted) + 1
             then == IF proc[p].want = "none" THEN "idle" ELSE "await"
             c == Recorded(proc[p], n, then)
  <2>1. proc' = [proc EXCEPT ![p] = c] /\ accepted' = Accepted(p)
    BY <1>4 DEF Post, Recorded
  <2>2. n \in Nat
    BY <1>2, AcceptedIs
  <2>3. then \in {"idle", "await"}
    OBVIOUS
  <2>4. proc[p].me \in DOMAIN proc[p].state.senders
    BY <1>1, <1>2 DEF CommandFits
  <2>5. proc[p].state.senders[proc[p].me].id \in DOMAIN sessions
    BY <1>1, <1>4, <2>4 DEF Distinct, MayAct
  <2> HIDE DEF n, then
  <2>6. /\ c.pc = "write" /\ c.next = then /\ c.state.senders = proc[p].state.senders
        /\ c.state.messages = proc[p].state.messages \cup {n}
    BY <1>1, <2>2, <2>3, RecordedIs
  <2> HIDE DEF c
  <2>7. /\ c.next \in {"idle", "await"}
        /\ c.state.messages = proc[p].state.messages \cup {Len(accepted) + 1}
    BY <2>3, <2>6 DEF n
  <2>8. QED
    BY <1>2, <1>4, <2>1, <2>5, <2>6, <2>7
<1>5. QED
  BY <1>3, <1>4

\* and sending.
LEMMA SendingDistinct ==
    ASSUME TypeInv, DistinctInv, NEW p \in Process, Refresh(p) \/ Post(p)
    PROVE  DistinctInv'
<1>1. UNCHANGED <<sessions, made, stored>> /\ made \in Nat /\ proc[p].pc \in {"refresh", "post"}
  BY RefreshUpdates, PostIs DEF TypeInv, CliTypeOK
<1>2. SessionsStay(sessions, sessions') /\ KeysOfSessions(sessions', made') /\ made <= made' /\ made' \in Nat
  BY <1>1 DEF SessionsStay, DistinctInv
<1>3. CASE Refresh(p)
  <2>1. PICK c : proc' = [proc EXCEPT ![p] = c] /\ Updates(proc[p].state, c.state, sessions)
    BY <1>3, RefreshUpdates
  <2> DEFINE old == proc[p].state
             new == c.state
  <2>2. /\ Distinct(old, sessions, made) /\ Updates(old, new, sessions)
        /\ SessionsStay(sessions, sessions) /\ 0 \notin DOMAIN sessions
        /\ \A m \in DOMAIN accepted : accepted[m].sender \in DOMAIN sessions
    BY <1>1, <2>1, NumbersFromOne DEF DistinctInv, SessionsStay
  <2> HIDE DEF old, new
  <2>3. Distinct(new, sessions, made)
    BY <2>2, UpdatedDistinct
  <2>4. Distinct(c.state, sessions', made')
    BY <1>1, <2>3 DEF new
  <2>5. \A m \in DOMAIN accepted' : accepted'[m].sender \in DOMAIN sessions'
    BY <1>1, <1>3, <2>2, RefreshUpdates
  <2>6. QED
    BY <1>1, <1>2, <2>1, <2>4, <2>5, DistinctKept
<1>4. CASE Post(p) /\ proc' = [proc EXCEPT ![p] = Idle] /\ UNCHANGED accepted
  BY <1>1, <1>4, IdleType, DistinctAside
<1>5. CASE Post(p) /\ ~(proc' = [proc EXCEPT ![p] = Idle] /\ UNCHANGED accepted)
  <2>1. /\ accepted' = Accepted(p) /\ proc[p].pc = "post"
        /\ proc[p].state.senders[proc[p].me].id \in DOMAIN sessions
    BY <1>5, PostIs
  <2>2. PICK c : proc' = [proc EXCEPT ![p] = c] /\ c.state.senders = proc[p].state.senders
    BY <1>5, PostIs
  <2>3. Distinct(c.state, sessions', made')
    BY <1>1, <2>2 DEF DistinctInv, Distinct
  <2>4. \A m \in DOMAIN accepted' : accepted'[m].sender \in DOMAIN sessions'
    <3> DEFINE n == Len(accepted) + 1
    <3>1. /\ DOMAIN accepted' = DOMAIN accepted \cup {n}
          /\ \A m \in DOMAIN accepted : accepted'[m] = accepted[m]
      BY <2>1, AcceptedIs
    <3>2. accepted'[n].sender \in DOMAIN sessions
      BY <2>1, AcceptedRow
    <3> HIDE DEF n
    <3>3. QED
      BY <1>1, <3>1, <3>2 DEF DistinctInv
  <2>5. QED
    BY <1>1, <1>2, <2>2, <2>3, <2>4, DistinctKept
<1>6. QED
  BY <1>3, <1>4, <1>5

\* A request that fails may have started a session or sent a message.
LEMMA FaultDistinct ==
    ASSUME TypeInv, KeyInv, DistinctInv, NEW p \in Process, RequestFails(p) \/ Crash(p)
    PROVE  DistinctInv'
<1>1. /\ proc' = [proc EXCEPT ![p] = Idle] /\ UNCHANGED <<stored, made>> /\ made \in Nat
      /\ \/ UNCHANGED <<sessions, accepted>>
         \/ proc[p].pc = "start" /\ sessions' = Started(p) /\ UNCHANGED accepted
         \/ /\ proc[p].pc = "post" /\ MayAct(proc[p].state.senders[proc[p].me])
            /\ accepted' = Accepted(p) /\ UNCHANGED sessions
  BY DEF RequestFails, Crash, Finish, server, TypeInv, CliTypeOK
<1>2. CASE UNCHANGED <<sessions, accepted>>
  BY <1>1, <1>2, IdleType, DistinctAside
<1>3. CASE proc[p].pc = "start" /\ sessions' = Started(p) /\ UNCHANGED accepted
  <2> DEFINE n == Len(sessions) + 1
             x == proc[p].state.senders[proc[p].me]
  <2>1. /\ DOMAIN sessions' = DOMAIN sessions \cup {n}
        /\ \A s \in DOMAIN sessions : sessions'[s] = sessions[s]
        /\ sessions'[n].keys = x.keys
        /\ proc[p].me \in DOMAIN proc[p].state.senders
    BY <1>3, StartedIs
  <2>2. x.keys # 0 /\ x.keys <= made
    BY <1>3, <2>1 DEF KeyInv, KnowsKeys, DistinctInv, Distinct
  <2> HIDE DEF n, x
  <2>3. SessionsStay(sessions, sessions') /\ KeysOfSessions(sessions', made')
    BY <1>1, <2>1, <2>2 DEF SessionsStay, KeysOfSessions, DistinctInv
  <2>4. \A m \in DOMAIN accepted' : accepted'[m].sender \in DOMAIN sessions'
    BY <1>3, <2>1 DEF DistinctInv
  <2>5. Distinct(Idle.state, sessions', made')
    BY IdleType, DefaultDistinct
  <2>6. made' \in Nat /\ made <= made'
    BY <1>1
  <2>7. QED
    BY <1>1, <2>3, <2>4, <2>5, <2>6, DistinctKept
<1>4. CASE /\ proc[p].pc = "post" /\ MayAct(proc[p].state.senders[proc[p].me])
           /\ accepted' = Accepted(p) /\ UNCHANGED sessions
  <2> DEFINE n == Len(accepted) + 1
             x == proc[p].state.senders[proc[p].me]
  <2>1. /\ DOMAIN accepted' = DOMAIN accepted \cup {n}
        /\ \A m \in DOMAIN accepted : accepted'[m] = accepted[m]
        /\ proc[p].me \in DOMAIN proc[p].state.senders
    BY <1>4, AcceptedIs
  <2>2. accepted'[n].sender = x.id
    BY <1>4, AcceptedRow
  <2>3. x.id \in DOMAIN sessions
    BY <1>4, <2>1 DEF DistinctInv, Distinct, MayAct
  <2> HIDE DEF n, x
  <2>4. SessionsStay(sessions, sessions') /\ KeysOfSessions(sessions', made')
    BY <1>1, <1>4 DEF SessionsStay, DistinctInv
  <2>5. \A m \in DOMAIN accepted' : accepted'[m].sender \in DOMAIN sessions'
    BY <1>4, <2>1, <2>2, <2>3 DEF DistinctInv
  <2>6. Distinct(Idle.state, sessions', made')
    BY IdleType, DefaultDistinct
  <2>7. made' \in Nat /\ made <= made'
    BY <1>1
  <2>8. QED
    BY <1>1, <2>4, <2>5, <2>6, <2>7, DistinctKept
<1>5. QED
  BY <1>1, <1>2, <1>3, <1>4

\* Rows of messages whose sender, content and time are the same.
SameRows(old, new) ==
    /\ DOMAIN new = DOMAIN old
    /\ \A m \in DOMAIN old : /\ new[m].sender = old[m].sender
                             /\ new[m].content = old[m].content
                             /\ new[m].at = old[m].at

\* What the server and the clock do by themselves leaves these, and the keys of sessions.
LEMMA EnvironmentIs ==
    ASSUME TypeInv,
           \/ \E s \in DOMAIN sessions : SessionMoves(s)
           \/ \E m \in DOMAIN accepted : MessageMoves(m)
           \/ Tick
           \/ UNCHANGED vars
    PROVE  /\ UNCHANGED <<file, proc, made, faults, lone, stored>>
           /\ SessionsStay(sessions, sessions') /\ DOMAIN sessions' = DOMAIN sessions
           /\ SameRows(accepted, accepted')
<1>1. UNCHANGED <<file, proc, made, faults, lone, stored>>
  BY DEF SessionMoves, MessageMoves, Tick, vars
<1>2. CASE UNCHANGED server
  BY <1>1, <1>2 DEF server, SessionsStay, SameRows
<1>3. CASE \E s \in DOMAIN sessions : SessionMoves(s)
  <2>1. UNCHANGED accepted
    BY <1>3 DEF SessionMoves
  <2>2. QED
    BY <1>1, <1>3, <2>1, SessionMovesIs DEF SessionsStay, SameRows
<1>4. ASSUME NEW m \in DOMAIN accepted, MessageMoves(m)
      PROVE  SessionsStay(sessions, sessions') /\ DOMAIN sessions' = DOMAIN sessions
             /\ SameRows(accepted, accepted')
  <2>1. UNCHANGED sessions
    BY <1>4 DEF MessageMoves
  <2>2. /\ accepted \in Seq(MessageRow) /\ m \in 1..Len(accepted) /\ DOMAIN accepted = 1..Len(accepted)
        /\ accepted[m] \in MessageRow /\ clock \in Nat
    BY DEF TypeInv, CliTypeOK
  <2>3. PICK to \in DeliveryState :
           accepted' = [accepted EXCEPT ![m].state = to, ![m].since = clock]
    BY <1>4 DEF MessageMoves
  <2> DEFINE x == [accepted[m] EXCEPT !.state = to, !.since = clock]
  <2>4. /\ x \in MessageRow /\ x.sender = accepted[m].sender
        /\ x.content = accepted[m].content /\ x.at = accepted[m].at
    BY <2>2 DEF MessageRow
  <2>5. accepted' = [accepted EXCEPT ![m] = x]
    BY <2>2, <2>3
  <2> HIDE DEF x
  <2>6. /\ DOMAIN accepted' = DOMAIN accepted
        /\ \A n \in DOMAIN accepted : accepted'[n] = IF n = m THEN x ELSE accepted[n]
    BY <2>2, <2>4, <2>5, ExceptSeq
  <2>7. QED
    BY <2>1, <2>4, <2>6 DEF SessionsStay, SameRows
<1>5. QED
  BY <1>1, <1>2, <1>3, <1>4 DEF Tick, vars, server

\* So they leave keys with their senders.
LEMMA EnvironmentDistinct ==
    ASSUME TypeInv, DistinctInv,
           \/ \E s \in DOMAIN sessions : SessionMoves(s)
           \/ \E m \in DOMAIN accepted : MessageMoves(m)
           \/ Tick
           \/ UNCHANGED vars
    PROVE  DistinctInv'
<1>1. /\ UNCHANGED <<file, proc, made, faults, lone, stored>>
      /\ SessionsStay(sessions, sessions') /\ DOMAIN sessions' = DOMAIN sessions
      /\ SameRows(accepted, accepted')
  BY EnvironmentIs
<1>2. /\ \A q \in Process : proc[q].state \in StoredState
      /\ stored \in StoredState /\ made \in Nat /\ made <= made
  BY DEF TypeInv, CliTypeOK, Command
<1>3. Distinct(stored, sessions', made) /\ \A q \in Process : Distinct(proc[q].state, sessions', made)
  BY <1>1, <1>2, DistinctStays DEF DistinctInv
<1>4. KeysOfSessions(sessions', made)
  BY <1>1 DEF KeysOfSessions, SessionsStay, DistinctInv
<1>5. \A m \in DOMAIN accepted' : accepted'[m].sender \in DOMAIN sessions'
  BY <1>1 DEF SameRows, DistinctInv
<1>6. QED
  BY <1>1, <1>3, <1>4, <1>5 DEF DistinctInv

\* There are no keys at the start.
LEMMA InitDistinct == Init => DistinctInv
<1> SUFFICES ASSUME Init PROVE DistinctInv
  OBVIOUS
<1>1. KeysOfSessions(sessions, made) /\ \A m \in DOMAIN accepted : accepted[m].sender \in DOMAIN sessions
  BY DEF Init, KeysOfSessions
<1>2. Distinct(stored, sessions, made)
  BY DefaultDistinct DEF Init
<1>3. \A p \in Process : Distinct(proc[p].state, sessions, made)
  BY IdleType, DefaultDistinct DEF Init
<1>4. QED
  BY <1>1, <1>2, <1>3 DEF DistinctInv

\* Every step leaves keys with their senders.
LEMMA NextDistinct == TypeInv /\ TypeInv' /\ KeyInv /\ DistinctInv /\ [Next]_vars => DistinctInv'
<1> SUFFICES ASSUME TypeInv, TypeInv', KeyInv, DistinctInv, [Next]_vars PROVE DistinctInv'
  OBVIOUS
<1>1. QED
  BY StepsOfNext, OpensDistinct, RestDistinct, PairingDistinct, SendingDistinct, FaultDistinct,
     EnvironmentDistinct

-----------------------------------------------------------------------------
(* No repetition within the window *)

\* A state that has the record of every message, and the id of everyone who sent one.
Complete(st, ses, acc) == DOMAIN acc \subseteq st.messages /\ Sent(st, ses, acc)

\* What a command is about to send is no repetition.
Spaced(c, acc) ==
    c.next = "refresh" \/ c.pc \in {"refresh", "post"} =>
        \A m \in DOMAIN acc :
            acc[m].sender = c.state.senders[c.me].id /\ acc[m].content = c.content
            => c.at - acc[m].at >= Window

\* Nor is any message that was accepted.
SpacedAll(acc) ==
    \A m, n \in DOMAIN acc :
        m < n /\ acc[m].sender = acc[n].sender /\ acc[m].content = acc[n].content
        => acc[n].at - acc[m].at >= Window

Calm == lone /\ faults = 0
Writing == {"write", "writing"}

\* As long as no commands overlap and nothing fails, the file is complete unless a
\* command is about to make it so.
CalmInv ==
    Calm =>
        /\ \A p \in Process : proc[p].pc = "writing" => file = "empty"
        /\ \A p \in Process : proc[p].pc \in Holding => Complete(proc[p].state, sessions, accepted)
        /\ (\A p \in Process : proc[p].pc \notin Writing) => Complete(stored, sessions, accepted)
        /\ \A p \in Process : Spaced(proc[p], accepted)
        /\ SpacedAll(accepted)

\* What a step of one process has to keep.
KeepsCalm(c) ==
    /\ c.pc = "writing" => file' = "empty"
    /\ c.pc \in Holding => Complete(c.state, sessions', accepted')
    /\ c.pc \notin Writing => Complete(stored', sessions', accepted')
    /\ Spaced(c, accepted')
    /\ SpacedAll(accepted')

\* A step of a process that was alone, or that starts where all are idle.
LEMMA CalmKept ==
    ASSUME TypeInv, LoneInv, CalmInv, NEW p \in Process, NEW c, proc' = [proc EXCEPT ![p] = c],
           Calm' => Calm,
           proc[p].pc # "idle" \/ (lone' => \A q \in Process : proc[q].pc = "idle"),
           Calm' => KeepsCalm(c)
    PROVE  CalmInv'
<1> SUFFICES ASSUME Calm'
             PROVE  /\ \A q \in Process : proc'[q].pc = "writing" => file' = "empty"
                    /\ \A q \in Process : proc'[q].pc \in Holding
                                          => Complete(proc'[q].state, sessions', accepted')
                    /\ (\A q \in Process : proc'[q].pc \notin Writing)
                       => Complete(stored', sessions', accepted')
                    /\ \A q \in Process : Spaced(proc'[q], accepted')
                    /\ SpacedAll(accepted')
  BY DEF CalmInv
<1>1. \A q \in Process : proc'[q] = IF q = p THEN c ELSE proc[q]
  BY DEF TypeInv, CliTypeOK
<1>2. \A q \in Process : q # p => proc[q].pc = "idle"
  BY DEF LoneInv, Calm
<1>3. \A q \in Process : q # p => proc'[q].pc = "idle" /\ proc'[q].next = "idle"
  BY <1>1, <1>2 DEF TypeInv, CommandFits
<1>4. "idle" \notin Holding /\ "idle" \notin Writing
  BY DEF Holding, Writing
<1>5. \A q \in Process : q # p => Spaced(proc'[q], accepted')
  BY <1>3 DEF Spaced
<1>6. KeepsCalm(c)
  OBVIOUS
<1>7. QED
  BY <1>1, <1>3, <1>4, <1>5, <1>6 DEF KeepsCalm

\* A complete state stays complete when sessions are added and messages move.
LEMMA CompleteStays ==
    ASSUME NEW st, NEW ses, NEW more, NEW acc, NEW new,
           SameRows(acc, new), SessionsStay(ses, more),
           \A m \in DOMAIN acc : acc[m].sender \in DOMAIN ses,
           Complete(st, ses, acc)
    PROVE  Complete(st, more, new)
BY DEF Complete, Sent, SameRows, SessionsStay

\* A process that is not idle is the only one.
LEMMA AloneComplete ==
    ASSUME LoneInv, CalmInv, Calm, NEW p \in Process, proc[p].pc # "idle", proc[p].pc \notin Writing
    PROVE  Complete(stored, sessions, accepted)
<1>1. \A q \in Process : proc[q].pc # "idle" => q = p
  BY DEF LoneInv, Calm
<1>2. \A q \in Process : proc[q].pc \notin Writing
  BY <1>1 DEF Writing
<1>3. QED
  BY <1>2 DEF CalmInv

\* A step that leaves the server and the file, and does not write.
LEMMA CalmAside ==
    ASSUME TypeInv, LoneInv, CalmInv, NEW p \in Process, NEW c, proc' = [proc EXCEPT ![p] = c],
           UNCHANGED <<sessions, accepted, lone, faults, stored>>,
           proc[p].pc # "idle", proc[p].pc \notin Writing,
           c.pc \in {"idle", "await", "poll"}, c.next = "idle"
    PROVE  CalmInv'
<1>1. Calm' => Calm
  BY DEF Calm
<1>2. ASSUME Calm PROVE KeepsCalm(c)
  <2>1. Complete(stored, sessions, accepted)
    BY <1>2, AloneComplete
  <2>2. c.pc \notin Holding /\ Spaced(c, accepted') /\ c.pc # "writing"
    BY DEF Holding, Spaced
  <2>3. SpacedAll(accepted)
    BY <1>2 DEF CalmInv
  <2>4. QED
    BY <2>1, <2>2, <2>3 DEF KeepsCalm
<1>3. QED
  BY <1>1, <1>2, CalmKept

\* The times of messages are numbers.
LEMMA MessageTimes == TypeInv => \A m \in DOMAIN accepted : accepted[m].at \in Nat
<1> SUFFICES ASSUME TypeInv, NEW m \in DOMAIN accepted PROVE accepted[m].at \in Nat
  OBVIOUS
<1>1. accepted[m] \in MessageRow
  BY DEF TypeInv, CliTypeOK
<1>2. QED
  BY <1>1 DEF MessageRow

\* A command that opens finds the file complete.
LEMMA OpensCalm ==
    ASSUME TypeInv, LoneInv, DistinctInv, CalmInv, NEW p \in Process,
           \/ Writes(p)
           \/ \E s \in DOMAIN sessions : Status(p, s)
           \/ \E m \in DOMAIN accepted, want \in Wanted : WaitTool(p, m, want)
    PROVE  CalmInv'
<1>1. UNCHANGED <<sessions, accepted, faults, stored>>
  BY WriteOpens DEF Status, WaitTool, server
<1>2. ASSUME NEW c, Open(p, c)
      PROVE  /\ proc' = [proc EXCEPT ![p] = c] /\ (Calm' => Calm)
             /\ lone' => \A q \in Process : proc[q].pc = "idle"
             /\ Calm' => Complete(stored, sessions, accepted) /\ SpacedAll(accepted)
  <2>1. /\ proc' = [proc EXCEPT ![p] = c]
        /\ lone' = (lone /\ \A q \in Process : proc[q].pc = "idle")
    BY <1>2 DEF Open
  <2>2. Calm' => Calm
    BY <1>1, <2>1 DEF Calm
  <2>3. Calm' => \A q \in Process : proc[q].pc \notin Writing
    BY <2>1 DEF Calm, Writing
  <2>4. QED
    BY <2>1, <2>2, <2>3 DEF CalmInv
<1>3. CASE Writes(p)
  <2>1. PICK c : Open(p, c) /\ WritesWell(c) /\ Fresh(c.state) /\ Unrepeated(c)
    BY <1>3, WritesFresh
  <2>2. c.pc = "write" /\ Extends(stored, c.state)
    BY <2>1 DEF WritesWell, Prepares
  <2>3. ASSUME Calm' PROVE KeepsCalm(c)
    <3>1. Complete(stored, sessions, accepted) /\ SpacedAll(accepted)
      BY <1>2, <2>1, <2>3
    <3>2. Complete(c.state, sessions, accepted)
      BY <2>1, <2>2, <3>1 DEF Complete, Extends, Fresh
    <3>3. Spaced(c, accepted)
      <4>1. clock \in Nat /\ Window \in Nat
        BY CliAssumption DEF TypeInv, CliTypeOK
      <4>2. QED
        BY <2>1, <2>2, <3>1, <4>1, MessageTimes DEF Spaced, Unrepeated, Complete
    <3>4. QED
      BY <1>1, <2>2, <3>1, <3>2, <3>3 DEF KeepsCalm, Writing
  <2>4. QED
    BY <1>2, <2>1, <2>3, CalmKept
<1>4. ASSUME NEW s \in DOMAIN sessions, Status(p, s)
      PROVE  CalmInv'
  <2> DEFINE me == Active(stored)
             c == [Idle EXCEPT !.pc = "ask", !.state = stored, !.me = me, !.session = s]
  <2>1. Open(p, c)
    BY <1>4 DEF Status
  <2>2. c.pc = "ask" /\ c.next = "idle" /\ c.state = stored
    BY IdleType DEF Command
  <2> HIDE DEF c
  <2>3. ASSUME Calm' PROVE KeepsCalm(c)
    <3>1. Complete(stored, sessions, accepted) /\ SpacedAll(accepted)
      BY <1>2, <2>1, <2>3
    <3>2. QED
      BY <1>1, <2>2, <3>1 DEF KeepsCalm, Spaced
  <2>4. QED
    BY <1>2, <2>1, <2>3, CalmKept
<1>5. ASSUME NEW m \in DOMAIN accepted, NEW want \in Wanted, WaitTool(p, m, want)
      PROVE  CalmInv'
  <2> DEFINE c == [Idle EXCEPT !.pc = "await", !.message = m, !.want = want]
  <2>1. Open(p, c)
    BY <1>5 DEF WaitTool
  <2>2. c.pc = "await" /\ c.next = "idle"
    BY IdleType DEF Command
  <2> HIDE DEF c
  <2>3. ASSUME Calm' PROVE KeepsCalm(c)
    <3>1. Complete(stored, sessions, accepted) /\ SpacedAll(accepted)
      BY <1>2, <2>1, <2>3
    <3>2. QED
      BY <1>1, <2>2, <3>1 DEF KeepsCalm, Spaced, Holding
  <2>4. QED
    BY <1>2, <2>1, <2>3, CalmKept
<1>6. QED
  BY <1>3, <1>4, <1>5

\* A write that nobody disturbs stores the whole copy.
LEMMA WriteCalm ==
    ASSUME TypeInv, LoneInv, CalmInv, NEW p \in Process, BeginWrite(p) \/ EndWrite(p)
    PROVE  CalmInv'
<1>1. /\ UNCHANGED <<sessions, accepted, faults, lone>> /\ proc[p].pc \in {"write", "writing"}
      /\ proc[p] \in Command /\ CommandFits(proc[p], sessions, accepted)
  BY DEF BeginWrite, EndWrite, server, TypeInv, CliTypeOK
<1>2. (Calm' => Calm) /\ proc[p].pc # "idle"
  BY <1>1 DEF Calm
<1>3. Calm => /\ Complete(proc[p].state, sessions, accepted)
              /\ Spaced(proc[p], accepted) /\ SpacedAll(accepted)
              /\ proc[p].pc = "writing" => file = "empty"
  BY <1>1 DEF CalmInv, Holding
<1>4. CASE BeginWrite(p)
  <2> DEFINE c == [proc[p] EXCEPT !.pc = "writing"]
  <2>1. proc' = [proc EXCEPT ![p] = c] /\ file' = "empty" /\ proc[p].pc = "write"
    BY <1>4 DEF BeginWrite
  <2>2. /\ c.pc = "writing" /\ c.state = proc[p].state /\ c.next = proc[p].next
        /\ c.me = proc[p].me /\ c.content = proc[p].content /\ c.at = proc[p].at
    BY <1>1 DEF Command
  <2> HIDE DEF c
  <2>3. ASSUME Calm PROVE KeepsCalm(c)
    <3>1. Spaced(c, accepted)
      BY <1>3, <2>2, <2>3 DEF Spaced
    <3>2. QED
      BY <1>1, <1>3, <2>1, <2>2, <2>3, <3>1 DEF KeepsCalm, Writing
  <2>4. QED
    BY <1>2, <2>1, <2>3, CalmKept
<1>5. CASE EndWrite(p)
  <2> DEFINE c == IF proc[p].next = "idle" THEN Idle
                  ELSE [proc[p] EXCEPT !.pc = proc[p].next, !.next = "idle"]
  <2>1. proc' = [proc EXCEPT ![p] = c] /\ proc[p].pc = "writing"
    BY <1>5 DEF EndWrite
  <2>2. \/ c.pc = "idle" /\ c.next = "idle"
        \/ /\ c.pc = proc[p].next /\ c.state = proc[p].state /\ c.next = "idle"
           /\ c.me = proc[p].me /\ c.content = proc[p].content /\ c.at = proc[p].at
    <3>1. CASE proc[p].next = "idle"
      BY <3>1, IdleType DEF Command
    <3>2. CASE proc[p].next # "idle"
      <4>1. c = [proc[p] EXCEPT !.pc = proc[p].next, !.next = "idle"]
        BY <3>2
      <4>2. QED
        BY <1>1, <4>1 DEF Command
    <3>3. QED
      BY <3>1, <3>2
  <2> HIDE DEF c
  <2>3. ASSUME Calm PROVE KeepsCalm(c)
    <3>1. stored' = proc[p].state
      BY <1>3, <1>5, <2>1, <2>3 DEF EndWrite
    <3>2. CASE c.pc = "idle" /\ c.next = "idle"
      BY <1>1, <1>3, <2>3, <3>1, <3>2 DEF KeepsCalm, Holding, Spaced
    <3>3. CASE /\ c.pc = proc[p].next /\ c.state = proc[p].state /\ c.next = "idle"
               /\ c.me = proc[p].me /\ c.content = proc[p].content /\ c.at = proc[p].at
      <4>1. c.pc \in {"idle", "start", "refresh", "await"}
        BY <1>1, <3>3 DEF CommandFits
      <4>2. Spaced(c, accepted)
        BY <1>3, <2>3, <3>3, <4>1 DEF Spaced
      <4>3. QED
        BY <1>1, <1>3, <2>3, <3>1, <3>3, <4>1, <4>2 DEF KeepsCalm
    <3>4. QED
      BY <2>2, <3>2, <3>3
  <2>4. QED
    BY <1>2, <2>1, <2>3, CalmKept
<1>6. QED
  BY <1>4, <1>5

\* Nothing in a pairing forgets a message or takes an id away.
LEMMA PairingCalm ==
    ASSUME TypeInv, TypeInv', KeyInv, DistinctInv, LoneInv, CalmInv, NEW p \in Process,
           StartRemoteSetup(p) \/ SetupBlocked(p) \/ Ask(p)
    PROVE  CalmInv'
<1>1. /\ SessionsStay(sessions, sessions') /\ proc[p].pc \in {"start", "ask"}
      /\ UNCHANGED <<accepted, faults, lone, stored>>
  BY PairingUpdates
<1>2. PICK c : /\ proc' = [proc EXCEPT ![p] = c]
               /\ \/ c = Idle
                  \/ /\ c.pc = "write" /\ c.next = "idle"
                     /\ c.state.messages = proc[p].state.messages
                     /\ Updates(proc[p].state, c.state, sessions')
  BY PairingUpdates
<1>3. Calm' => Calm
  BY <1>1 DEF Calm
<1>4. \A m \in DOMAIN accepted : accepted[m].sender \in DOMAIN sessions
  BY DEF DistinctInv
<1>5. ASSUME Calm PROVE KeepsCalm(c)
  <2>1. SpacedAll(accepted) /\ Complete(proc[p].state, sessions, accepted)
    BY <1>1, <1>5 DEF CalmInv, Holding
  <2>2. CASE c = Idle
    <3>1. Complete(stored, sessions, accepted)
      BY <1>1, <1>5, AloneComplete DEF Writing
    <3>2. SameRows(accepted, accepted)
      BY DEF SameRows
    <3>3. Complete(stored, sessions', accepted)
      BY <1>1, <1>4, <3>1, <3>2, CompleteStays
    <3>4. c.pc = "idle" /\ c.next = "idle"
      BY <2>2, IdleType DEF Command
    <3>5. QED
      BY <1>1, <2>1, <3>3, <3>4 DEF KeepsCalm, Holding, Spaced
  <2>3. CASE /\ c.pc = "write" /\ c.next = "idle"
             /\ c.state.messages = proc[p].state.messages
             /\ Updates(proc[p].state, c.state, sessions')
    <3> DEFINE old == proc[p].state
               new == c.state
               more == sessions'
    <3>1. /\ Distinct(old, sessions, made) /\ Updates(old, new, more)
          /\ new.messages = old.messages
          /\ SessionsStay(sessions, more) /\ 0 \notin DOMAIN more
          /\ Complete(old, sessions, accepted)
      BY <1>1, <2>1, <2>3 DEF DistinctInv, TypeInv, CliTypeOK
    <3> HIDE DEF old, new, more
    <3>2. Sent(new, more, accepted)
      BY <1>4, <3>1, UpdatedDistinct DEF Complete
    <3>3. Complete(new, more, accepted)
      BY <3>1, <3>2 DEF Complete
    <3>4. QED
      BY <1>1, <2>1, <2>3, <3>3 DEF KeepsCalm, Writing, Spaced, new, more
  <2>4. QED
    BY <1>2, <2>2, <2>3
<1>6. proc[p].pc # "idle"
  BY <1>1
<1>7. QED
  BY <1>2, <1>3, <1>5, <1>6, CalmKept

\* A sender that has just got its id has sent nothing under it.
LEMMA RefreshCalm ==
    ASSUME TypeInv, DistinctInv, LoneInv, CalmInv, NEW p \in Process, Refresh(p)
    PROVE  CalmInv'
<1> DEFINE i == proc[p].me
           old == proc[p].state
<1>1. /\ UNCHANGED <<sessions, accepted, faults, lone, stored>> /\ proc[p].pc = "refresh"
  BY RefreshUpdates
<1>2. PICK c : /\ proc' = [proc EXCEPT ![p] = c]
               /\ c.state = Refreshed(p) /\ c.state.messages = old.messages
               /\ Updates(old, c.state, sessions)
               /\ \/ c.pc = "write" /\ c.next = "idle"
                  \/ /\ c.pc = "post" /\ c.next = "idle" /\ c.me = i
                     /\ c.content = proc[p].content /\ c.at = proc[p].at
  BY RefreshUpdates
<1>3. Calm' => Calm
  BY <1>1 DEF Calm
<1>4. ASSUME Calm PROVE KeepsCalm(c)
  <2>1. /\ SpacedAll(accepted) /\ Complete(old, sessions, accepted)
        /\ Spaced(proc[p], accepted)
    BY <1>1, <1>4 DEF CalmInv, Holding
  <2>2. Complete(stored, sessions, accepted)
    BY <1>1, <1>4, AloneComplete DEF Writing
  <2>3. Complete(c.state, sessions, accepted)
    <3> DEFINE new == c.state
    <3>1. /\ Distinct(old, sessions, made) /\ Updates(old, new, sessions)
          /\ new.messages = old.messages
          /\ SessionsStay(sessions, sessions) /\ 0 \notin DOMAIN sessions
          /\ \A m \in DOMAIN accepted : accepted[m].sender \in DOMAIN sessions
      BY <1>2, NumbersFromOne DEF DistinctInv, SessionsStay
    <3> HIDE DEF old, new
    <3>2. Sent(new, sessions, accepted)
      BY <2>1, <3>1, UpdatedDistinct DEF Complete
    <3>3. QED
      BY <2>1, <3>1, <3>2 DEF Complete, new
  <2>4. Spaced(c, accepted)
    <3>1. SUFFICES ASSUME c.pc = "post", NEW m \in DOMAIN accepted,
                          accepted[m].sender = c.state.senders[i].id,
                          accepted[m].content = proc[p].content
                   PROVE  proc[p].at - accepted[m].at >= Window
      BY <1>2 DEF Spaced
    <3>2. /\ old \in StoredState /\ i \in DOMAIN old.senders
      BY <1>1 DEF TypeInv, CliTypeOK, Command, CommandFits
    <3>3. CASE c.state.senders[i].id = old.senders[i].id
      BY <1>1, <2>1, <3>1, <3>3 DEF Spaced
    <3>4. CASE c.state.senders[i].id # old.senders[i].id
      <4>1. old.senders[i].id = 0 /\ old.senders[i].session # 0
        BY <1>2, <3>4 DEF Refreshed
      <4>2. c.state.senders[i].id = old.senders[i].session
        BY <1>2, <3>2, <3>4, RefreshedIs
      <4>3. sessions[old.senders[i].session].keys = old.senders[i].keys
        BY <3>2, <4>1 DEF DistinctInv, Distinct
      <4>4. old.senders[i].id # 0
        BY <2>1, <3>1, <3>2, <4>2, <4>3 DEF Complete, Sent
      <4>5. QED
        BY <4>1, <4>4
    <3>5. QED
      BY <3>3, <3>4
  <2>5. QED
    BY <1>1, <1>2, <2>1, <2>2, <2>3, <2>4 DEF KeepsCalm, Writing
<1>5. proc[p].pc # "idle"
  BY <1>1
<1>6. QED
  BY <1>2, <1>3, <1>4, <1>5, CalmKept

\* A message that is accepted is recorded in the copy, and was no repetition.
LEMMA PostCalm ==
    ASSUME TypeInv, DistinctInv, LoneInv, CalmInv, NEW p \in Process, Post(p)
    PROVE  CalmInv'
<1>1. UNCHANGED <<sessions, faults, lone, stored>> /\ proc[p].pc = "post"
  BY PostIs
<1>2. CASE proc' = [proc EXCEPT ![p] = Idle] /\ UNCHANGED accepted
  <2>1. Idle.pc = "idle" /\ Idle.next = "idle"
    BY IdleType DEF Command
  <2>2. QED
    BY <1>1, <1>2, <2>1, CalmAside DEF Writing
<1>3. CASE ~(proc' = [proc EXCEPT ![p] = Idle] /\ UNCHANGED accepted)
  <2> DEFINE n == Len(accepted) + 1
             i == proc[p].me
             old == proc[p].state
             x == old.senders[i]
  <2>1. accepted' = Accepted(p) /\ MayAct(x) /\ x.id \in DOMAIN sessions
    BY <1>3, PostIs
  <2>2. PICK c : /\ proc' = [proc EXCEPT ![p] = c]
                 /\ c.pc = "write" /\ c.next \in {"idle", "await"}
                 /\ c.state.senders = old.senders
                 /\ c.state.messages = old.messages \cup {n}
    BY <1>3, PostIs
  <2>3. /\ DOMAIN accepted' = DOMAIN accepted \cup {n} /\ n \notin DOMAIN accepted
        /\ \A m \in DOMAIN accepted : accepted'[m] = accepted[m]
        /\ i \in DOMAIN old.senders
    BY <1>1, <2>1, AcceptedIs
  <2>4. /\ accepted'[n].sender = x.id /\ accepted'[n].content = proc[p].content
        /\ accepted'[n].at = proc[p].at
    BY <1>1, <2>1, AcceptedRow
  <2>5. \A m \in DOMAIN accepted : m < n
    BY DEF TypeInv, CliTypeOK
  <2>6. Calm' => Calm
    BY <1>1 DEF Calm
  <2>7. ASSUME Calm PROVE KeepsCalm(c)
    <3>1. /\ SpacedAll(accepted) /\ Complete(old, sessions, accepted)
          /\ Spaced(proc[p], accepted)
      BY <1>1, <2>7 DEF CalmInv, Holding
    <3> HIDE DEF n, i, old, x
    <3>2. sessions[x.id].keys = x.keys /\ x.id # 0
      BY <2>1 DEF MayAct
    <3>3. \A j \in DOMAIN old.senders : old.senders[j].keys = x.keys => j = i
      BY <2>1, <2>3, <3>2 DEF DistinctInv, Distinct, KeysOfSessions, old, x
    <3>4. Sent(c.state, sessions, accepted')
      BY <2>2, <2>3, <2>4, <3>1, <3>2, <3>3 DEF Complete, Sent, x
    <3>5. Complete(c.state, sessions, accepted')
      BY <2>2, <2>3, <3>1, <3>4 DEF Complete
    <3>6. \A m \in DOMAIN accepted :
             accepted[m].sender = x.id /\ accepted[m].content = proc[p].content
             => proc[p].at - accepted[m].at >= Window
      BY <1>1, <3>1 DEF Spaced, x, old, i
    <3>7. SpacedAll(accepted')
      <4>1. SUFFICES ASSUME NEW m \in DOMAIN accepted', NEW k \in DOMAIN accepted', m < k,
                            accepted'[m].sender = accepted'[k].sender,
                            accepted'[m].content = accepted'[k].content
                     PROVE  accepted'[k].at - accepted'[m].at >= Window
        BY DEF SpacedAll
      <4>2. CASE k \in DOMAIN accepted
        <5>1. m \in DOMAIN accepted
          <6>1. m # n
            <7>1. k \in Nat /\ n \in Nat
              BY <4>2 DEF n, TypeInv, CliTypeOK
            <7>2. QED
              BY <2>5, <4>1, <4>2, <7>1
          <6>2. QED
            BY <2>3, <6>1
        <5>2. QED
          BY <2>3, <3>1, <4>1, <4>2, <5>1 DEF SpacedAll
      <4>3. CASE k = n
        <5>1. n \in Nat
          BY DEF n, TypeInv, CliTypeOK
        <5>2. m \in DOMAIN accepted
          BY <2>3, <4>1, <4>3, <5>1
        <5>3. QED
          BY <2>3, <2>4, <3>6, <4>1, <4>3, <5>2
      <4>4. QED
        BY <2>3, <4>2, <4>3
    <3>8. QED
      BY <1>1, <2>2, <3>5, <3>7 DEF KeepsCalm, Writing, Spaced
  <2>8. proc[p].pc # "idle"
    BY <1>1
  <2>9. QED
    BY <2>2, <2>6, <2>7, <2>8, CalmKept
<1>4. QED
  BY <1>2, <1>3

\* Waits write nothing; what fails ends the calm.
LEMMA RestCalm ==
    ASSUME TypeInv, LoneInv, CalmInv, NEW p \in Process,
           Await(p) \/ Poll(p) \/ GiveUp(p) \/ RequestFails(p) \/ Crash(p)
    PROVE  CalmInv'
<1>1. CASE RequestFails(p) \/ Crash(p)
  <2>1. faults' = faults + 1 /\ faults \in Nat
    BY <1>1 DEF RequestFails, Crash, TypeInv, CliTypeOK
  <2>2. QED
    BY <2>1 DEF CalmInv, Calm
<1>2. CASE Await(p) \/ Poll(p) \/ GiveUp(p)
  <2>1. UNCHANGED <<sessions, accepted, lone, faults, stored>> /\ proc[p].pc \in {"await", "poll"}
    BY <1>2 DEF Await, Poll, GiveUp, Due, server
  <2>2. proc[p].pc # "idle" /\ proc[p].pc \notin Writing /\ proc[p].next = "idle"
    BY <2>1 DEF Writing, TypeInv, CommandFits
  <2>3. CASE Finish(p)
    <3>1. Idle.pc = "idle" /\ Idle.next = "idle"
      BY IdleType DEF Command
    <3>2. QED
      BY <2>1, <2>2, <2>3, <3>1, CalmAside DEF Finish
  <2>4. CASE Await(p) /\ Readable
    BY <2>1, <2>2, <2>4, AwaitIs, CalmAside
  <2>5. CASE Poll(p) /\ ~Finish(p)
    <3>1. PICK c \in Command : proc' = [proc EXCEPT ![p] = c] /\ c.pc = "poll" /\ c.next = proc[p].next
      BY <2>5, PollIs
    <3>2. QED
      BY <2>1, <2>2, <3>1, CalmAside
  <2>6. QED
    BY <1>2, <2>3, <2>4, <2>5 DEF Await, GiveUp
<1>3. QED
  BY <1>1, <1>2

\* Messages that move keep their sender, content and time.
LEMMA EnvironmentCalm ==
    ASSUME TypeInv, DistinctInv, CalmInv,
           \/ \E s \in DOMAIN sessions : SessionMoves(s)
           \/ \E m \in DOMAIN accepted : MessageMoves(m)
           \/ Tick
           \/ UNCHANGED vars
    PROVE  CalmInv'
<1>1. /\ UNCHANGED <<file, proc, faults, lone, stored>>
      /\ SessionsStay(sessions, sessions') /\ SameRows(accepted, accepted')
  BY EnvironmentIs
<1>2. \A m \in DOMAIN accepted : accepted[m].sender \in DOMAIN sessions
  BY DEF DistinctInv
<1>3. SUFFICES ASSUME Calm
               PROVE  /\ \A p \in Process : proc[p].pc = "writing" => file = "empty"
                      /\ \A p \in Process : proc[p].pc \in Holding
                                            => Complete(proc[p].state, sessions', accepted')
                      /\ (\A p \in Process : proc[p].pc \notin Writing)
                         => Complete(stored, sessions', accepted')
                      /\ \A p \in Process : Spaced(proc[p], accepted')
                      /\ SpacedAll(accepted')
  BY <1>1 DEF CalmInv, Calm
<1>4. \A st : Complete(st, sessions, accepted) => Complete(st, sessions', accepted')
  BY <1>1, <1>2, CompleteStays
<1>5. \A p \in Process : Spaced(proc[p], accepted')
  BY <1>1, <1>3 DEF CalmInv, Spaced, SameRows
<1>6. SpacedAll(accepted')
  BY <1>1, <1>3 DEF CalmInv, SpacedAll, SameRows
<1>7. QED
  BY <1>3, <1>4, <1>5, <1>6 DEF CalmInv

\* Nothing was sent at the start.
LEMMA InitCalm == Init => CalmInv
<1> SUFFICES ASSUME Init PROVE CalmInv
  OBVIOUS
<1>1. DOMAIN accepted = {} /\ \A p \in Process : proc[p].pc = "idle" /\ proc[p].next = "idle"
  BY IdleType DEF Init, Command
<1>2. QED
  BY <1>1 DEF CalmInv, Holding, Writing, Complete, Sent, Spaced, SpacedAll

\* Every step keeps the calm.
LEMMA NextCalm ==
    TypeInv /\ TypeInv' /\ KeyInv /\ DistinctInv /\ LoneInv /\ CalmInv /\ [Next]_vars => CalmInv'
<1> SUFFICES ASSUME TypeInv, TypeInv', KeyInv, DistinctInv, LoneInv, CalmInv, [Next]_vars
             PROVE  CalmInv'
  OBVIOUS
<1>1. QED
  BY StepsOfNext, OpensCalm, WriteCalm, PairingCalm, RefreshCalm, PostCalm, RestCalm, EnvironmentCalm

\* As long as no commands overlap and no request or process fails, a sender's content
\* is sent at most once in the window.
THEOREM SendsOnce == Spec => []SuppressesDuplicates
<1> DEFINE Inv == TypeInv /\ KeyInv /\ DistinctInv /\ LoneInv /\ CalmInv
<1>1. Init => Inv
  BY InitTypes, InitKeys, InitDistinct, InitLone, InitCalm
<1>2. Inv /\ [Next]_vars => Inv'
  BY NextTypes, NextKeys, NextDistinct, NextLone, NextCalm
<1>3. Inv => SuppressesDuplicates
  BY DEF CalmInv, Calm, SpacedAll, SuppressesDuplicates
<1> HIDE DEF Inv
<1>4. QED
  BY <1>1, <1>2, <1>3, PTL DEF Spec
=============================================================================
