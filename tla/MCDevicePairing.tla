--------------------------- MODULE MCDevicePairing --------------------------
(* Small instances of the first pairing of a phone. *)
EXTENDS DevicePairing
=============================================================================
