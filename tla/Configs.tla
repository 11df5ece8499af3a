------------------------------- MODULE Configs -------------------------------
(***************************************************************************)
(* The data every other module speaks of: `Config` records (sdk Config.ts),*)
(* the `Cfgu` declaration of a key (Cfgu.ts), a `ConfigSchema`, the path   *)
(* and hierarchy of a `ConfigSet` and the records an eval produces.        *)
(*                                                                         *)
(* A value is an opaque string; Empty is the empty string, which the code  *)
(* everywhere treats as "no value".  What pattern, enum, schema and test   *)
(* accept is the set `accepts`; a legacy `depends` entry is a test on      *)
(* another key of the evaluation context, kept in `depends`.  A const      *)
(* expression is either the literal it renders to or the one key whose     *)
(* value it renders.                                                       *)
(***************************************************************************)
EXTENDS Naturals, Sequences

CONSTANTS
    Key,       \* names a schema may declare
    Value,     \* non-empty config values
    Empty,     \* the empty string
    Falsy,     \* values that come from a falsy JSON default: false, 0
    Segment    \* the names a set path is made of

ASSUME ConfigsAssumption ==
    /\ Empty \notin Value \cup Key
    /\ Key \cap Value = {}
    /\ Falsy \subseteq Value

Content == Value \cup {Empty}

-----------------------------------------------------------------------------
(* ConfigSet: a path and the prefixes it inherits from, root first.        *)

Root == <<>>

Path == Seq(Segment)

Hierarchy(path) == [i \in 1..(Len(path) + 1) |-> SubSeq(path, 1, i - 1)]

(* lodash takeRight: the last n entries, all of them when n is larger. *)
TakeRight(s, n) == IF n >= Len(s) THEN s ELSE SubSeq(s, Len(s) - n + 1, Len(s))

(* The sets an eval of `path` with `depth` queries. *)
QueriedSets(path, depth) ==
    LET hierarchy == TakeRight(Hierarchy(path), depth)
    IN  {hierarchy[i] : i \in DOMAIN hierarchy}

-----------------------------------------------------------------------------
(* Cfgu and ConfigSchema.                                                  *)

Cfgu == [lazy     : BOOLEAN,
         const    : Key \cup Value \cup {Empty},
         default  : Content,
         required : BOOLEAN,
         hidden   : BOOLEAN,
         accepts  : SUBSET Content,
         depends  : SUBSET Key]

IsConst(cfgu) == cfgu.const # Empty

(* The combinations CfguSchema.allOf admits. *)
Exclusive(cfgu) ==
    /\ cfgu.lazy => ~IsConst(cfgu) /\ cfgu.default = Empty
    /\ IsConst(cfgu) => cfgu.default = Empty /\ ~cfgu.required
    /\ cfgu.default # Empty => ~cfgu.required

(* A schema binds the keys it declares, at least one, to their Cfgu. *)
IsSchema(schema) ==
    /\ DOMAIN schema \subseteq Key
    /\ DOMAIN schema # {}
    /\ \A k \in DOMAIN schema : schema[k] \in Cfgu /\ Exclusive(schema[k])

(* ConfigValue.validate in a context that holds the entries of `values`. *)
Passes(cfgu, value, values) ==
    /\ value \in cfgu.accepts
    /\ \A d \in cfgu.depends : d \in DOMAIN values /\ values[d] # Empty

-----------------------------------------------------------------------------
(* EvaluatedConfig: what an eval returns for a key.                        *)

Origin == {"empty", "store", "override", "default", "const"}

Evaluated == [set : Path, value : Content, cfgu : Cfgu, origin : Origin]

(* An EvalCommandOutput: a record for each of some keys. *)
IsOutput(out) ==
    /\ DOMAIN out \subseteq Key
    /\ \A k \in DOMAIN out : out[k] \in Evaluated

(* The output of no command. *)
NoOutput == [k \in {} |-> Empty]

ValuesOf(out) == [k \in DOMAIN out |-> out[k].value]

=============================================================================
