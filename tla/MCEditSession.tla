---------------------------- MODULE MCEditSession ----------------------------
(* An editing session beside a program that upserts. *)
EXTENDS EditSession, TLC

CONSTANTS p1, p2, s1, k1, k2, v1, null

Plain == NullCfgu
Const == [Plain EXCEPT !.const = v1]
Piped1 == k1 :> [value |-> v1, cfgu |-> Plain, origin |-> "store"]

Line(schema) ==
    [schema |-> schema, set |-> s1, pipe |-> Nothing, files |-> Nothing, literal |-> Nothing,
     edit |-> FALSE, prune |-> FALSE, preview |-> FALSE, ci |-> FALSE]

(* "null" comes back from the file as no value. *)
MCRetyped == [v \in Content |-> IF v = null THEN Empty ELSE v]

(* Both lines filled, one or both blank, the second one deleted. *)
MCEdited == {(k1 :> v1) @@ (k2 :> v1), (k1 :> Empty) @@ (k2 :> v1),
             (k1 :> Empty) @@ (k2 :> Empty), k1 :> v1}

Both == (k1 :> Plain) @@ (k2 :> Plain)

(* A session; one beside a literal, a file and a pipe, under --prune and   *)
(* for a const key; a plain command.                                       *)
CommandLines ==
    {Line(Both),
     [Line((k1 :> Plain) @@ (k2 :> Const)) EXCEPT
         !.literal = k1 :> v1, !.files = k1 :> v1, !.pipe = Piped1, !.edit = TRUE, !.prune = TRUE],
     [Line(Both) EXCEPT !.literal = k2 :> v1]}

Inputs == {FromFlags(f, FALSE) : f \in CommandLines}

Symmetric == Permutations({p1, p2})

=============================================================================
