------------------------------ MODULE MCSources ------------------------------
(* Small instances of the configurable sources.                            *)
EXTENDS Sources, TLC

CONSTANTS A, B, i1, i2, u1, u2

C(on, full, auth, scope) == [on |-> on, full |-> full, auth |-> auth, scope |-> scope]

\* With a credential, on either target; without; off and incomplete.
MCConfigs == {C(TRUE, TRUE, TRUE, A), C(TRUE, TRUE, TRUE, B), C(TRUE, TRUE, FALSE, A),
              C(FALSE, FALSE, FALSE, B)}

MCSymmetry == Permutations(Users) \cup Permutations(Ids)

=============================================================================
