------------------------------ MODULE MCPairing ------------------------------
(* Small instances of the pairing requests.                                *)
EXTENDS Pairing

CONSTANTS r1, r2, r3, u1, u2

=============================================================================
