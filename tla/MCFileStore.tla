----------------------------- MODULE MCFileStore -----------------------------
(* Two programs, or one of them, with a store on one file. *)
EXTENDS FileStore, TLC

CONSTANTS p1, p2, root, s1, k1, v1, v2

(* A key of the root set has the name of the other set. *)
MCQuery == {<<root, k1>>, <<root, s1>>, <<s1, k1>>}

Upserts ==
    {<<s1, k1>> :> v1,
     (<<s1, k1>> :> Empty) @@ (<<root, s1>> :> v2),
     (<<root, k1>> :> Empty) @@ (<<root, s1>> :> v1)}

Json == [blankParses |-> FALSE, singleBreaks |-> FALSE, grouped |-> FALSE, scalars |-> {},
         mixture |-> {"rejected"}]
Xml == [Json EXCEPT !.singleBreaks = TRUE]
Csv == [Json EXCEPT !.blankParses = TRUE, !.mixture = {"rejected", "parsed"}]
Toml == [Csv EXCEPT !.grouped = TRUE]
Ini == [Toml EXCEPT !.scalars = {v2}, !.mixture = {"parsed"}]

(* One program on a file of any format, two on a JSON or an INI file. *)
MCSetups ==
    {[format |-> f, users |-> {p1}] : f \in {Json, Xml, Csv, Toml, Ini}}
        \cup {[format |-> f, users |-> {p1, p2}] : f \in {Json, Ini}}

=============================================================================
