------------------------------ MODULE MCPairing ------------------------------
(* Finite instances of Pairing for TLC. *)
EXTENDS Pairing, TLC

\* Ids are random and requests alike; agents, sessions and devices are
\* interchangeable as well.
Symmetry ==
    UNION {Permutations(Request), Permutations(Agent), Permutations(Session),
           Permutations(Device), Permutations(Recipient), Permutations(SenderId)}
=============================================================================
