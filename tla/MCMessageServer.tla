--------------------------- MODULE MCMessageServer --------------------------
(* Finite instances of MessageServer for TLC. *)
EXTENDS MessageServer, TLC

CONSTANTS s1, phone, tablet, alice, bob, ask, late, news, retry

\* A sender paired with alice.
MCSenderHome == [s \in Sender |-> alice]

\* An approval request with a short deadline, one with a deadline beyond a queue
\* retention of 1, and notifications that live as long as that queue.  All but the
\* second use one idempotency key.
MCSubmission ==
    [m \in Message |->
        [sender |-> s1, recipient |-> alice,
         mode |-> IF m \in {ask, late} THEN "request_approval" ELSE "notify",
         key |-> IF m = late THEN NoKey ELSE "k1",
         createdAt |-> 0,
         expiresAt |-> CASE m = ask -> 0 [] m = late -> 2 [] OTHER -> 1]]

\* Request slots are interchangeable, and so are the devices.
Symmetry == Permutations(Request) \cup Permutations(Device)
=============================================================================
