--------------------------- MODULE MCUpsertCommand ---------------------------
(* Two programs upserting into two sets of one store. *)
EXTENDS UpsertCommand, TLC

CONSTANTS p1, p2, s1, s2, k1, k2, v1, v2

Plain == [lazy |-> FALSE, const |-> Empty, default |-> Empty, required |-> FALSE,
          hidden |-> FALSE, accepts |-> Content, depends |-> {}]
Lazy == [Plain EXCEPT !.lazy = TRUE]
Accepting(v) == [Plain EXCEPT !.accepts = {v}]

Schema(x, y) == (k1 :> x) @@ (k2 :> y)

FromStore(v, cfgu) == [value |-> v, cfgu |-> cfgu, origin |-> "store"]

Upsert(schema, set, configs) ==
    [schema |-> schema, set |-> set, configs |-> configs, pipe |-> NoOutput,
     delete |-> FALSE, dry |-> FALSE, validate |-> TRUE]

Both == Schema(Plain, Accepting(v2))

Upserts ==
    {Upsert(Both, s1, k1 :> v1),
     Upsert(Both, s1, (k1 :> v2) @@ (k2 :> v2)),
     [Upsert(Both, s1, k1 :> v2) EXCEPT !.delete = TRUE],
     [Upsert(Both, s1, k2 :> v1) EXCEPT !.validate = FALSE],
     [Upsert(Both, s1, k2 :> Empty) EXCEPT !.pipe = (k1 :> FromStore(v1, Plain)) @@ (k2 :> FromStore(v2, Plain))],
     Upsert(Schema(Lazy, Plain), s2, k1 :> v1),
     [Upsert(k2 :> Plain, s2, (k1 :> v1) @@ (k2 :> v1)) EXCEPT !.dry = TRUE, !.validate = FALSE]}

Symmetric == Permutations({p1, p2})

=============================================================================
