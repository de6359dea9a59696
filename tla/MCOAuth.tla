------------------------------- MODULE MCOAuth -------------------------------
(* Small instances of the Codex OAuth accounts.                            *)
EXTENDS OAuth, TLC

CONSTANTS i1, i2, s1, s2, u1, u2

MCSymmetry == Permutations(Users) \cup Permutations(Ids) \cup Permutations(Slots)

=============================================================================
