----------------------------- MODULE MCRowStore -----------------------------
(* Two programs on one table, two sets that share a key. *)
EXTENDS RowStore, TLC

CONSTANTS p1, p2, root, s1, k1, k2, v1, v2

Queries == {<<root, k1>>, <<s1, k1>>, <<s1, k2>>}

Unique == [q \in Queries |-> q]

Batches ==
    {(<<s1, k1>> :> v1) @@ (<<s1, k2>> :> v1),
     (<<s1, k1>> :> v2) @@ (<<s1, k2>> :> Empty),
     <<root, k1>> :> v2}

Symmetric == Permutations({p1, p2})

=============================================================================
