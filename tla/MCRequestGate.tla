--------------------------- MODULE MCRequestGate ----------------------------
(* Finite instances of RequestGate for TLC. *)
EXTENDS RequestGate, TLC

CONSTANTS phone, fetch, start, perEmail, perIp

\* A device request signed at time 3, and an unsigned start of a pairing.
MCSignature ==
    [c \in Call |->
        IF c = start THEN Unsigned ELSE [subject |-> phone, nonce |-> "n1", time |-> 3]]

\* A start counts for its address, then for where it comes from; a device
\* request has no limit.
MCChecks == [c \in Call |-> IF c = start THEN <<perEmail, perIp>> ELSE <<>>]

MCLimit == [b \in Bucket |-> IF b = perEmail THEN 2 ELSE 1]
MCWindow == [b \in Bucket |-> 4]

\* Request slots are interchangeable.
Symmetry == Permutations(Request)
=============================================================================
