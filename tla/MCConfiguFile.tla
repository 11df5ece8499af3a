---------------------------- MODULE MCConfiguFile ----------------------------
(* Two processes, one of which lacks the variable, on one local file. *)
EXTENDS ConfiguFile, TLC

CONSTANTS p1, p2, mine, v1, c1, c2

MCEnv == (p1 :> v1) @@ (p2 :> Undefined)
MCOriginal ==
    {Missing,
     (mine :> Placeholder) @@ (Platform :> v1),
     (mine :> v1) @@ (Register :> v1)}
MCInput == (p1 :> Nothing) @@ (p2 :> (Platform :> c1))

=============================================================================
