---------------------------- MODULE Conversation ----------------------------
(***************************************************************************)
(* What the people at both ends see, with everything between them taken    *)
(* out: a thing is said once; screens show what was said, as it was said,  *)
(* though not for good; who sees it may give the kind of answer it asks    *)
(* for; it looks answered only where an answer was given that was taken;   *)
(* and whoever said it hears an answer that was taken, as it was given, or *)
(* nothing.                                                                *)
(***************************************************************************)
EXTENDS Naturals, Sequences

CONSTANTS
    None,
    Message, Screen,
    Words,        \* what may be said; each with its mode
    Reply         \* the answers; each with its kind

VARIABLES
    said,     \* of the messages that were said, the words
    screen,   \* of each screen and the messages on it, what it says and whether it is answered
    given,    \* the answers, in the order they were given
    heard     \* of the messages that were asked about, what was heard last

conversation == <<said, screen, given, heard>>

Asks == [notify |-> None, request_reply |-> "reply", request_approval |-> "approval"]

Begin ==
    /\ said = [m \in {} |-> None]
    /\ screen = [s \in Screen |-> [m \in {} |-> None]]
    /\ given = <<>>
    /\ heard = [m \in {} |-> None]

Say(m, words) ==
    /\ m \notin DOMAIN said
    /\ said' = [k \in DOMAIN said \cup {m} |-> IF k = m THEN words ELSE said[k]]
    /\ UNCHANGED <<screen, given, heard>>

\* The messages to which an answer of this screen was taken.
AnsweredBy(s) == {given[n].to : n \in {k \in DOMAIN given : /\ given[k].by = s
                                                           /\ given[k].state = "taken"}}

\* A screen shows M of what was said, and of it A as answered.
Show(s, M, A) ==
    /\ M \subseteq DOMAIN said
    /\ A \subseteq M \cap AnsweredBy(s)
    /\ screen' = [screen EXCEPT ![s] = [m \in M |-> [says |-> said[m], answered |-> m \in A]]]
    /\ UNCHANGED <<said, given, heard>>

Give(s, m, reply) ==
    /\ m \in DOMAIN screen[s]
    /\ ~screen[s][m].answered
    /\ reply.kind = Asks[screen[s][m].says.mode]
    /\ given' = Append(given, [by |-> s, to |-> m, reply |-> reply, state |-> "given"])
    /\ UNCHANGED <<said, screen, heard>>

Take(n) ==
    /\ given[n].state = "given"
    /\ given' = [given EXCEPT ![n].state = "taken"]
    /\ UNCHANGED <<said, screen, heard>>

Refuse(n) ==
    /\ given[n].state = "given"
    /\ given' = [given EXCEPT ![n].state = "refused"]
    /\ UNCHANGED <<said, screen, heard>>

Hear(n, reply) ==
    /\ given[n].state = "taken"
    /\ reply \in {given[n].reply, None}
    /\ heard' = [k \in DOMAIN heard \cup {given[n].to} |->
                    IF k = given[n].to THEN [answer |-> n, reply |-> reply] ELSE heard[k]]
    /\ UNCHANGED <<said, screen, given>>

Go ==
    \/ \E s \in Screen : \/ \E M, A \in SUBSET Message : Show(s, M, A)
                         \/ \E m \in Message, reply \in Reply : Give(s, m, reply)
    \/ \E n \in DOMAIN given : \/ Take(n) \/ Refuse(n)
                               \/ \E reply \in Reply \cup {None} : Hear(n, reply)
    \/ \E m \in Message, words \in Words : Say(m, words)

Conversing == Begin /\ [][Go]_conversation
=============================================================================
