----------------------------- MODULE MCTransport -----------------------------
(* One or two web handlers for the model checker. *)
EXTENDS Transport, TLC

CONSTANTS h1, h2

Symmetry == Permutations(Handlers)

=============================================================================
