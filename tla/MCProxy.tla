------------------------------- MODULE MCProxy -------------------------------
(* A request of two entries, the first for LaunchDarkly, and one of a      *)
(* single entry for CloudBees.  The providers have flags of different      *)
(* types for the keys, or none.                                            *)
EXTENDS Proxy, TLC

CONSTANTS r, q, k, j, v1, v2, v3

MCLength == (r :> 2) @@ (q :> 1)

MCUser == {<<r, 1>>, <<r, 2>>, <<q, 1>>}

Flag(type, value) == [type |-> type, value |-> value]

MCFlags ==
    (<<r, 1>> :> (k :> Flag("number", v1) @@ j :> NoFlag)) @@
    (<<r, 2>> :> (k :> NoFlag @@ j :> Flag("bool", v3))) @@
    (<<q, 1>> :> (k :> Flag("object", v2) @@ j :> NoFlag))

MCClosing == {<<r, 1>>}

MCBuilding == {<<q, 1>>}

=============================================================================
