--------------------------- MODULE MCSecretBackend ---------------------------
(* Two programs at one entry of a backend. *)
EXTENDS SecretBackend, TLC

CONSTANTS p1, p2

Symmetric == Permutations({p1, p2})

=============================================================================
