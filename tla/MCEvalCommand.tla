---------------------------- MODULE MCEvalCommand ----------------------------
(* EvalCommand over two sets, two keys and a curated set of command inputs. *)
EXTENDS EvalCommand, TLC

CONSTANTS k1, k2, v1, v2, a

MCKey == {k1, k2}
MCSegment == {a}
MCPosition == (k1 :> 1) @@ (k2 :> 2)

(* The shapes of Cfgu a schema can give a key. *)
Plain == [lazy |-> FALSE, const |-> Empty, default |-> Empty, required |-> FALSE,
          hidden |-> FALSE, accepts |-> Content, depends |-> {}]
Required == [Plain EXCEPT !.required = TRUE]
Lazy == [Plain EXCEPT !.lazy = TRUE]
Default(v) == [Plain EXCEPT !.default = v]
Const(c) == [Plain EXCEPT !.const = c]
Only(v) == [Plain EXCEPT !.accepts = {v, Empty}]
Depends(k) == [Plain EXCEPT !.depends = {k}]
Hidden == [Plain EXCEPT !.hidden = TRUE]

Schema(x, y) == (k1 :> x) @@ (k2 :> y)

Input(schema, path, depth, override, validate) ==
    [schema |-> schema, path |-> path, depth |-> depth,
     override |-> override, validate |-> validate]

Eval(schema) == Input(schema, <<a>>, 9, NoOutput, TRUE)

(* Inputs of the runs that must hold. *)
Pipelines ==
    {Eval(Schema(Required, Default(v1))),
     Eval(Schema(Hidden, Const(k1))),
     Eval(Schema(Const(k2), Const(v2))),
     Eval(Schema(Const(v1), Const(k1))),
     Input(k1 :> Only(v1), <<a>>, 1, NoOutput, TRUE),
     Eval(k2 :> Const(k1)),
     Eval(k2 :> Depends(k1)),
     Input(Schema(Lazy, Lazy), <<a>>, 1, k1 :> v2, TRUE),
     Input(Schema(Default(v2), Required), <<>>, 9, k1 :> Empty, FALSE)}

(* Inputs that bring out where code and documentation part. *)
ForwardConst == {Eval(Schema(Const(k2), Const(v1)))}

=============================================================================
