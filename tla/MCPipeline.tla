----------------------------- MODULE MCPipeline -----------------------------
(* A pipeline of two evals and one of a single eval.  The first hides k1   *)
(* in one schema and not in the other; the exports of both may write the   *)
(* same file.                                                              *)
EXTENDS Pipeline, TLC

CONSTANTS a, b, s1, k1, k2, v1, v2, n1, n2

Eval(set, keys) ==
    [set |-> set, keys |-> keys, defaults |-> [k \in keys |-> Empty], required |-> {},
     hidden |-> {}, backup |-> TRUE]

MCEvals ==
    (a :> <<[Eval(s1, {k1}) EXCEPT !.defaults = k1 :> v2, !.hidden = {k1}, !.backup = FALSE],
            [Eval(s1, {k1, k2}) EXCEPT !.required = {k1}]>>) @@
    (b :> <<Eval(s1, {k1})>>)

Flags(mode, picks, reads, first, second) ==
    [mode |-> mode, picks |-> picks, reads |-> reads, name |-> k1 :> first @@ k2 :> second]

MCOptions ==
    (a :> {Flags("out", {k1, k2}, {}, n1, n1)}) @@
    (b :> {Flags("out", {k1}, {}, n1, n2), Flags("run", {k1}, {}, n1, n2),
           Flags("print", {k1}, {k2}, n1, n2), Flags("explain", {k1}, {}, n1, n2)})

MCEnvironment == n2 :> v2

=============================================================================
