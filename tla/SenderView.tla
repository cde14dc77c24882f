----------------------------- MODULE SenderView -----------------------------
(***************************************************************************)
(* What a sender may observe of its messages when it polls messageStatus:  *)
(* the delivery states of docs/product-spec.md 4.3, as the server keeps    *)
(* them.  A status moves only along the actions below; in particular an    *)
(* answer is final, a message expires only after its deadline, an expired  *)
(* one is never delivered, and only a request can be answered.             *)
(***************************************************************************)
EXTENDS Naturals

CONSTANTS Message,
          Answerable,   \* the messages that ask for a reply or an approval
          ExpiresAt,    \* the deadline of each message
          ForgetAt      \* the age until which the server keeps each message

VARIABLES now, status

viewVars == <<now, status>>

ViewInit == now = 0 /\ status = [m \in Message |-> "none"]

Accept(m) ==
    /\ status[m] = "none"
    /\ status' = [status EXCEPT ![m] = "accepted"]
    /\ UNCHANGED now

Deliver(m) ==
    /\ status[m] = "accepted"
    /\ status' = [status EXCEPT ![m] = "delivered"]
    /\ UNCHANGED now

\* An answer that was checked before the deadline may be stored after it.
Respond(m) ==
    /\ m \in Answerable
    /\ status[m] \in {"accepted", "delivered", "expired"}
    /\ status' = [status EXCEPT ![m] = "responded"]
    /\ UNCHANGED now

\* A delivered notification does not expire: it has reached its reader.
Expire(S) ==
    /\ \A m \in S : /\ ExpiresAt[m] < now
                    /\ \/ status[m] = "accepted"
                       \/ status[m] = "delivered" /\ m \in Answerable
    /\ status' = [m \in Message |-> IF m \in S THEN "expired" ELSE status[m]]
    /\ UNCHANGED now

\* By age alone: a deadline further away does not keep a message.
Forget(S) ==
    /\ \A m \in S : ForgetAt[m] < now
    /\ status' = [m \in Message |-> IF m \in S THEN "none" ELSE status[m]]
    /\ UNCHANGED now

Pass == now' = now + 1 /\ UNCHANGED status

ViewNext ==
    \/ \E m \in Message : Accept(m) \/ Deliver(m) \/ Respond(m)
    \/ \E S \in SUBSET Message : Expire(S) \/ Forget(S)
    \/ Pass

ViewSpec == ViewInit /\ [][ViewNext]_viewVars
=============================================================================
