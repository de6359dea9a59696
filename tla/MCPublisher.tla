----------------------------- MODULE MCPublisher ------------------------------
(* Small instances of the publisher.                                        *)
EXTENDS Publisher

CONSTANTS K1, K2, V1, V2

=============================================================================
