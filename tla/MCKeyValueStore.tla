--------------------------- MODULE MCKeyValueStore ---------------------------
(* Two programs over one key-value backend, with the root and one set. *)
EXTENDS KeyValueStore, TLC

CONSTANTS p1, p2, root, s1, s2, k1, k2, v1, v2

Batch(set, configs) == [set |-> set, configs |-> configs]

RootCalls == {Batch(root, (k1 :> v1) @@ (k2 :> Empty)), Batch(root, k1 :> v2)}

SetCalls(s) == {Batch(s, k1 :> v2), Batch(s, (k1 :> Empty) @@ (k2 :> v1))}

(* Both write the same sets. *)
Shared == [c \in Client |-> RootCalls \cup SetCalls(s1)]

Symmetric == Permutations({p1, p2})

=============================================================================
