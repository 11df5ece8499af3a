------------------------- MODULE EvalCommand_proofs -------------------------
(***************************************************************************)
(* Proofs about EvalCommand, for pipelines of any length, with any         *)
(* schemas, paths, overrides, external writes and failed reads.            *)
(***************************************************************************)
EXTENDS EvalCommand, SequenceTheorems, WellFoundedInduction, TLAPS

Queried == QueriedSets(cmd.path, cmd.depth)

(* What a get has answered so far is what the sets it has read hold,       *)
(* unless one of them has changed since or could not be read.              *)
RecordsOK ==
    phase = "read" =>
        /\ \A r \in records : r.set \in Queried \ unread /\ r.key \in DOMAIN cmd.schema
        /\ ~torn =>
              /\ \A r \in records : r.value = store[r.set][r.key]
              /\ \A s \in Queried \ unread, k \in DOMAIN cmd.schema :
                    store[s][k] # Empty =>
                        \E r \in records : r.set = s /\ r.key = k

(* The const keys that are evaluated precede those that are not, and what  *)
(* they read is there.                                                     *)
InOrder ==
    \A k \in Consts(result) \ todo :
        /\ Renders(result[k].cfgu.const, result)
        /\ \A j \in todo : Precedes(k, j, cmd.schema)

(* ConstAgrees, of an output whose const keys in `left` are not evaluated. *)
Agrees(out, left) ==
    \A k \in (DOMAIN cmd.schema \cap DOMAIN out) \ left :
        LET const == out[k].cfgu.const
        IN  /\ IsConst(out[k].cfgu)
            /\ const \in Key
            /\ \/ ~IsConst(out[const].cfgu)
               \/ const \in DOMAIN cmd.schema /\ Position[const] < Position[k]
            => out[k].value = out[const].value

(* An entry of origin empty is. *)
Hollow(out) ==
    \A k \in DOMAIN out :
        out[k].origin = "empty" => out[k].value = Empty /\ ~IsConst(out[k].cfgu)

(* The Cfgu of a key of the schema is the command's own, unless its entry  *)
(* came whole from the pipe.                                               *)
Judged ==
    \A k \in DOMAIN cmd.schema :
        \/ result[k].cfgu = cmd.schema[k]
        \/ LeftToPipe(k) /\ result[k].cfgu = pipe[k].cfgu

(* The values of the pipe that are gone. *)
Kept ==
    \A k \in DOMAIN pipe :
        pipe[k].value # Empty /\ result[k].value = Empty =>
            IsConst(result[k].cfgu) \/ Cleared(k)

(* While the const keys are evaluated the rest of the result is final. *)
ResultOK ==
    phase = "const" =>
        /\ \A k \in DOMAIN cmd.schema :
              /\ k \in DOMAIN result
              /\ cmd.schema[k].lazy =>
                    /\ result[k].cfgu = cmd.schema[k]
                    /\ result[k].origin = "override" /\ result[k].value = Overridden(cmd, k)
        /\ \A k \in DOMAIN pipe :
              k \in DOMAIN result /\ Rank(result[k].origin) >= Rank(pipe[k].origin)
        /\ todo \subseteq Consts(result)
        /\ Hollow(result) /\ Judged /\ Kept
        /\ InOrder
        /\ Agrees(result, todo)

(* What the last command handed on. *)
PipeOK ==
    /\ Hollow(pipe)
    /\ phase = "exported" \/ (phase = "idle" /\ evals > 0) => Agrees(pipe, {})

IInv ==
    /\ TypeOK
    /\ RecordsOK
    /\ ResultOK
    /\ PipeOK

-----------------------------------------------------------------------------
(* The sets a command reads. *)

(* A set of naturals has a least element. *)
LEMMA Least ==
    ASSUME NEW T \in SUBSET Nat, T # {}
    PROVE  \E x \in T : \A y \in T : x <= y
<1>1. PICK x \in T : \A y \in T : ~ (<<y, x>> \in OpToRel(<, Nat))
  BY NatLessThanWellFounded, WFMin
<1>2. \A y \in T : y < x => <<y, x>> \in OpToRel(<, Nat)
  BY DEF OpToRel
<1>3. \A y \in T : ~ (y < x) /\ y \in Nat /\ x \in Nat
  BY <1>1, <1>2
<1>. QED
  BY <1>3

LEMMA SameInterval ==
    ASSUME NEW m \in Nat, NEW n \in Nat, 1..m = 1..n
    PROVE  m = n
<1>1. CASE m < n
  <2>1. n \in 1..n /\ n \notin 1..m
    BY <1>1
  <2>. QED
    BY <2>1
<1>2. CASE n < m
  <2>1. m \in 1..m /\ m \notin 1..n
    BY <1>2
  <2>. QED
    BY <2>1
<1>. QED
  BY <1>1, <1>2

(* The queried sets are prefixes of the path. *)
LEMMA QueriedForm ==
    ASSUME NEW path \in Path, NEW depth \in Nat
    PROVE  \A s \in QueriedSets(path, depth) :
              s \in Path /\ Len(s) \in Nat /\ Len(s) <= Len(path)
<1>. DEFINE S == {s \in Path : Len(s) \in Nat /\ Len(s) <= Len(path)}
            n == Len(path) + 1
            H == Hierarchy(path)
<1>1. Len(path) \in Nat /\ path \in [1..Len(path) -> Segment]
  BY LenProperties DEF Path
<1>2. ASSUME NEW i \in 1..n PROVE SubSeq(path, 1, i - 1) \in S
  <2>1. \A j \in 1..(i - 1) : path[j] \in Segment
    BY <1>1
  <2>2. /\ SubSeq(path, 1, i - 1) \in Seq(Segment)
        /\ Len(SubSeq(path, 1, i - 1)) = IF 1 <= i - 1 THEN (i - 1) - 1 + 1 ELSE 0
    BY <1>1, <2>1, SubSeqProperties
  <2>. QED
    BY <1>1, <2>2 DEF Path
<1>. HIDE DEF S
<1>3. H \in [1..n -> S]
  BY <1>2 DEF Hierarchy
<1>4. H \in Seq(S) /\ n \in Nat /\ 1 <= n
  BY <1>1, <1>3, SeqDef
<1>. HIDE DEF H, n
<1>5. Len(H) = n
  <2>1. DOMAIN H = 1..Len(H) /\ Len(H) \in Nat
    BY <1>4, LenProperties
  <2>2. DOMAIN H = 1..n
    BY <1>3
  <2>3. 1..Len(H) = 1..n
    BY <2>1, <2>2
  <2>. QED
    BY <1>4, <2>1, <2>3, SameInterval
<1>6. TakeRight(H, depth) \in Seq(S)
  <2>1. CASE depth >= Len(H)
    BY <1>4, <2>1 DEF TakeRight
  <2>2. CASE ~(depth >= Len(H))
    <3>1. \A i \in (n - depth + 1)..n : H[i] \in S
      BY <1>3, <1>4, <1>5, <2>2
    <3>2. SubSeq(H, n - depth + 1, n) \in Seq(S)
      BY <1>4, <3>1, SubSeqProperties
    <3>. QED
      BY <1>5, <2>2, <3>2 DEF TakeRight
  <2>. QED
    BY <2>1, <2>2
<1>7. \A i \in DOMAIN TakeRight(H, depth) : TakeRight(H, depth)[i] \in S
  BY <1>6, LenProperties
<1>8. QueriedSets(path, depth) \subseteq S
  BY <1>7 DEF QueriedSets, H
<1>. QED
  BY <1>8 DEF S

(* The answer of the deepest set is one of the answers. *)
LEMMA DeepestForm ==
    ASSUME NEW recs, NEW n \in Nat, NEW k,
           \A r \in recs : Len(r.set) \in Nat /\ Len(r.set) <= n,
           Answers(recs, k) # {}
    PROVE  /\ Deepest(recs, k) \in recs /\ Deepest(recs, k).key = k
           /\ \A other \in recs : other.key = k => Len(other.set) <= Len(Deepest(recs, k).set)
<1>. DEFINE A == Answers(recs, k)
            T == {n - Len(r.set) : r \in A}
<1>1. A \subseteq recs /\ \A r \in recs : r \in A <=> r.key = k
  BY DEF Answers
<1>2. T \in SUBSET Nat /\ T # {}
  BY <1>1
<1>3. PICK x \in T : \A y \in T : x <= y
  BY <1>2, Least
<1>4. PICK r \in A : x = n - Len(r.set)
  BY <1>3
<1>5. \A other \in A : Len(other.set) <= Len(r.set)
  <2>. SUFFICES ASSUME NEW other \in A PROVE Len(other.set) <= Len(r.set)
    OBVIOUS
  <2>1. n - Len(r.set) <= n - Len(other.set)
    BY <1>3, <1>4
  <2>. QED
    BY <1>1, <2>1
<1>6. \E a \in A : \A other \in A : Len(other.set) <= Len(a.set)
  BY <1>5
<1>7. Deepest(recs, k) \in A /\ \A other \in A : Len(other.set) <= Len(Deepest(recs, k).set)
  BY <1>6, Zenon DEF Deepest
<1>. QED
  BY <1>1, <1>7

-----------------------------------------------------------------------------
(* What the stages of execute make of a result. *)

LEMMA CommandForm ==
    ASSUME NEW c \in Command
    PROVE  /\ DOMAIN c.schema \subseteq Key
           /\ \A k \in DOMAIN c.schema : c.schema[k] \in Cfgu /\ Exclusive(c.schema[k])
           /\ c.path \in Path /\ c.depth \in Nat
           /\ \A k \in DOMAIN c.override : c.override[k] \in Content
  BY EvalAssumption DEF IsCommand, IsSchema

LEMMA SetsForm ==
    ASSUME NEW c \in Command
    PROVE  /\ QueriedSets(c.path, c.depth) \subseteq Sets
           /\ Len(c.path) \in Nat
           /\ \A s \in QueriedSets(c.path, c.depth) :
                 s \in Path /\ Len(s) \in Nat /\ Len(s) <= Len(c.path)
<1>1. c.path \in Path /\ c.depth \in Nat
  BY CommandForm
<1>2. Len(c.path) \in Nat
  BY <1>1, LenProperties DEF Path
<1>. QED
  BY <1>1, <1>2, QueriedForm DEF Sets

(* What the store, the override and the default give a key of the schema.  *)
Found(c, recs) == EvalDefault(EvalOverride(EvalStore(EvalEmpty(c), recs), c))

Answered(c, recs) ==
    \A r \in recs :
        r.set \in QueriedSets(c.path, c.depth) /\ r.key \in DOMAIN c.schema /\ r.value \in Value

LEMMA FoundForm ==
    ASSUME NEW c \in Command, NEW recs, Answered(c, recs),
           NEW k \in DOMAIN c.schema
    PROVE  LET found == Found(c, recs)[k]
               deepest == Deepest(recs, k)
           IN  /\ k \in DOMAIN Found(c, recs)
               /\ found \in Evaluated /\ found.cfgu = c.schema[k]
               /\ c.schema[k].lazy => found.origin = "override" /\ found.value = Overridden(c, k)
               /\ k \notin DOMAIN c.override /\ ~c.schema[k].lazy /\ Answers(recs, k) # {} =>
                     /\ found.origin = "store"
                     /\ found.set = deepest.set /\ found.value = deepest.value
               /\ found.origin = "store" => Answers(recs, k) # {}
                     /\ found.set = deepest.set /\ found.value = deepest.value
               /\ found.origin \in {"empty", "default"} =>
                     /\ k \notin DOMAIN c.override /\ ~c.schema[k].lazy /\ Answers(recs, k) = {}
               /\ found.origin = "empty" =>
                     found.value = Empty /\ c.schema[k].default \in Falsy \cup {Empty}
               /\ found.value = Empty /\ found.origin # "empty" =>
                     /\ k \in DOMAIN c.override \/ c.schema[k].lazy
                     /\ Overridden(c, k) = Empty
<1>. DEFINE empty == [set |-> c.path, value |-> Empty, cfgu |-> c.schema[k], origin |-> "empty"]
            deepest == Deepest(recs, k)
            stored == EvalStore(EvalEmpty(c), recs)[k]
            overridden == EvalOverride(EvalStore(EvalEmpty(c), recs), c)[k]
            found == Found(c, recs)[k]
<1>1. /\ c.schema[k] \in Cfgu /\ c.path \in Path
      /\ k \in DOMAIN c.override => c.override[k] \in Content
  BY CommandForm
<1>2. EvalEmpty(c)[k] = empty /\ DOMAIN EvalEmpty(c) = DOMAIN c.schema
  BY DEF EvalEmpty
<1>3. /\ DOMAIN EvalStore(EvalEmpty(c), recs) = DOMAIN c.schema
      /\ DOMAIN EvalOverride(EvalStore(EvalEmpty(c), recs), c) = DOMAIN c.schema
      /\ DOMAIN Found(c, recs) = DOMAIN c.schema
  BY <1>2 DEF EvalStore, EvalOverride, EvalDefault, Found
<1>4. stored = IF Answers(recs, k) # {}
               THEN [empty EXCEPT !.set = deepest.set, !.value = deepest.value, !.origin = "store"]
               ELSE empty
  <2>1. empty.origin = "empty"
    OBVIOUS
  <2>. HIDE DEF empty, deepest
  <2>2. /\ k \in DOMAIN EvalEmpty(c)
        /\ stored = IF EvalEmpty(c)[k].origin = "empty" /\ Answers(recs, k) # {}
                    THEN [EvalEmpty(c)[k] EXCEPT !.set = Deepest(recs, k).set,
                                                 !.value = Deepest(recs, k).value,
                                                 !.origin = "store"]
                    ELSE EvalEmpty(c)[k]
    BY <1>2 DEF EvalStore
  <2>3. EvalEmpty(c)[k] = empty
    BY <1>2
  <2>. HIDE DEF stored
  <2>. QED
    BY <2>1, <2>2, <2>3 DEF deepest
<1>5. overridden = IF k \in DOMAIN c.override \/ stored.cfgu.lazy
                   THEN [stored EXCEPT !.value = Overridden(c, k), !.origin = "override"]
                   ELSE stored
  BY <1>3 DEF EvalOverride
<1>6. found = IF overridden.origin = "empty" /\ overridden.cfgu.default \notin Falsy \cup {Empty}
              THEN [overridden EXCEPT !.value = overridden.cfgu.default, !.origin = "default"]
              ELSE overridden
  BY <1>3 DEF EvalDefault, Found
<1>7. Answers(recs, k) # {} => deepest.set \in Path /\ deepest.value \in Value
  <2>. SUFFICES ASSUME Answers(recs, k) # {} PROVE deepest.set \in Path /\ deepest.value \in Value
    OBVIOUS
  <2>1. deepest \in recs
    BY DeepestForm, SetsForm DEF Answered
  <2>. QED
    BY <2>1, SetsForm DEF Answered
<1>8. Overridden(c, k) \in Content
  BY <1>1 DEF Overridden, Content
<1>. HIDE DEF deepest, stored, overridden, found
<1>9. /\ stored \in Evaluated /\ stored.cfgu = c.schema[k]
      /\ stored.origin = IF Answers(recs, k) # {} THEN "store" ELSE "empty"
      /\ Answers(recs, k) # {} => stored.set = deepest.set /\ stored.value = deepest.value
      /\ Answers(recs, k) = {} => stored.value = Empty
  BY <1>1, <1>4, <1>7 DEF Evaluated, Origin, Content
<1>10. /\ overridden \in Evaluated /\ overridden.cfgu = c.schema[k]
       /\ overridden = stored \/ overridden.origin = "override"
       /\ k \notin DOMAIN c.override /\ ~c.schema[k].lazy => overridden = stored
       /\ c.schema[k].lazy =>
             overridden.origin = "override" /\ overridden.value = Overridden(c, k)
       /\ k \in DOMAIN c.override \/ c.schema[k].lazy =>
             overridden.origin = "override" /\ overridden.value = Overridden(c, k)
  BY <1>5, <1>8, <1>9 DEF Evaluated, Origin
<1>11. c.schema[k].default \in Content
  BY <1>1 DEF Cfgu
<1>12. /\ found \in Evaluated /\ found.cfgu = c.schema[k]
       /\ overridden.origin # "empty" => found = overridden
       /\ overridden.origin = "empty" => found.origin \in {"empty", "default"}
       /\ found.origin = "empty" =>
             found.value = overridden.value /\ c.schema[k].default \in Falsy \cup {Empty}
       /\ found.origin = "default" => overridden.origin = "empty" /\ found.value # Empty
  BY <1>6, <1>9, <1>10, <1>11 DEF Evaluated, Origin
<1>13. Answers(recs, k) # {} => deepest.value # Empty
  BY <1>7, ConfigsAssumption
<1>14. found.origin \in {"empty", "default"} =>
          overridden = stored /\ stored.origin = "empty"
          /\ k \notin DOMAIN c.override /\ ~c.schema[k].lazy
  BY <1>9, <1>10, <1>12
<1>15. /\ found.origin = "empty" => found.value = Empty
       /\ found.value = Empty /\ found.origin # "empty" =>
             /\ k \in DOMAIN c.override \/ c.schema[k].lazy
             /\ Overridden(c, k) = Empty
  BY <1>9, <1>10, <1>12, <1>13, <1>14
<1>. QED
  BY <1>3, <1>9, <1>10, <1>12, <1>14, <1>15 DEF deepest, found

(* A pipe takes the place of an empty entry or of a default only. *)
LEMMA EvalPipeForm ==
    ASSUME NEW res, NEW piped, NEW k \in DOMAIN res \cup DOMAIN piped
    PROVE  /\ DOMAIN EvalPipe(res, piped) = DOMAIN res \cup DOMAIN piped
           /\ \/ k \in DOMAIN res /\ EvalPipe(res, piped)[k] = res[k]
                 /\ (k \in DOMAIN piped => ~PipeWins(res[k], piped[k]))
              \/ k \in DOMAIN piped /\ EvalPipe(res, piped)[k] = piped[k]
                 /\ (k \in DOMAIN res => PipeWins(res[k], piped[k]))
  BY DEF EvalPipe

(* The entry of a key that is merged, when its constants are not evaluated *)
(* yet: its own or the piped one.                                          *)
Chosen(entry, c, recs, piped, k) ==
    LET found == Found(c, recs)
        merged == Merged(c, recs, piped)
    IN  /\ \/ k \in DOMAIN c.schema /\ entry = found[k]
              /\ (k \in DOMAIN piped => ~PipeWins(found[k], piped[k]))
           \/ k \in DOMAIN piped /\ entry = piped[k]
              /\ (k \in DOMAIN c.schema => PipeWins(found[k], piped[k]))
        /\ ~IsConst(entry.cfgu) => merged[k] = entry
        /\ IsConst(entry.cfgu) => merged[k].cfgu = entry.cfgu /\ merged[k].origin = "const"

LEMMA MergedForm ==
    ASSUME NEW c \in Command, NEW recs, Answered(c, recs), NEW piped, IsOutput(piped),
           NEW k \in DOMAIN c.schema \cup DOMAIN piped
    PROVE  LET merged == Merged(c, recs, piped)
           IN  /\ DOMAIN merged = DOMAIN c.schema \cup DOMAIN piped
               /\ merged[k] \in Evaluated
               /\ \E entry \in Evaluated : Chosen(entry, c, recs, piped, k)
<1>. DEFINE found == Found(c, recs)
            piping == EvalPipe(found, piped)
            merged == Merged(c, recs, piped)
<1>1. DOMAIN found = DOMAIN c.schema
  BY DEF Found, EvalDefault, EvalOverride, EvalStore, EvalEmpty
<1>2. \A j \in DOMAIN c.schema : found[j] \in Evaluated
  BY FoundForm
<1>3. \A j \in DOMAIN piped : piped[j] \in Evaluated
  BY DEF IsOutput
<1>4. merged = ConstReset(piping)
  BY DEF Merged, Found
<1>. HIDE DEF found
<1>5. /\ DOMAIN piping = DOMAIN c.schema \cup DOMAIN piped
      /\ \/ k \in DOMAIN c.schema /\ piping[k] = found[k]
            /\ (k \in DOMAIN piped => ~PipeWins(found[k], piped[k]))
         \/ k \in DOMAIN piped /\ piping[k] = piped[k]
            /\ (k \in DOMAIN c.schema => PipeWins(found[k], piped[k]))
  <2>1. k \in DOMAIN found \cup DOMAIN piped
    BY <1>1
  <2>2. /\ DOMAIN piping = DOMAIN found \cup DOMAIN piped
        /\ \/ k \in DOMAIN found /\ piping[k] = found[k]
              /\ (k \in DOMAIN piped => ~PipeWins(found[k], piped[k]))
           \/ k \in DOMAIN piped /\ piping[k] = piped[k]
              /\ (k \in DOMAIN found => PipeWins(found[k], piped[k]))
    BY <2>1, EvalPipeForm
  <2>. HIDE DEF piping
  <2>. QED
    BY <1>1, <2>2
<1>6. piping[k] \in Evaluated
  BY <1>2, <1>3, <1>5
<1>. HIDE DEF piping, merged
<1>7. /\ DOMAIN merged = DOMAIN c.schema \cup DOMAIN piped
      /\ ~IsConst(piping[k].cfgu) => merged[k] = piping[k]
      /\ IsConst(piping[k].cfgu) =>
            merged[k] = [piping[k] EXCEPT !.value = Empty, !.origin = "const"]
  BY <1>4, <1>5 DEF ConstReset
<1>8. IsConst(piping[k].cfgu) =>
         /\ merged[k] \in Evaluated
         /\ merged[k].cfgu = piping[k].cfgu /\ merged[k].origin = "const"
  BY <1>6, <1>7 DEF Evaluated, Origin, Content
<1>9. merged[k] \in Evaluated
  BY <1>6, <1>7, <1>8
<1>10. Chosen(piping[k], c, recs, piped, k)
  BY <1>5, <1>7, <1>8 DEF Chosen, found, merged
<1>. QED
  BY <1>6, <1>7, <1>9, <1>10 DEF merged

LEMMA MergedIsOutput ==
    ASSUME NEW c \in Command, NEW recs, Answered(c, recs), NEW piped, IsOutput(piped)
    PROVE  IsOutput(Merged(c, recs, piped))
<1>1. DOMAIN c.schema \subseteq Key /\ DOMAIN piped \subseteq Key
  BY CommandForm DEF IsOutput
<1>2. DOMAIN Merged(c, recs, piped) = DOMAIN c.schema \cup DOMAIN piped
  BY DEF Merged, ConstReset, EvalPipe, EvalDefault, EvalOverride, EvalStore, EvalEmpty
<1>3. \A k \in DOMAIN c.schema \cup DOMAIN piped : Merged(c, recs, piped)[k] \in Evaluated
  BY MergedForm
<1>. QED
  BY <1>1, <1>2, <1>3 DEF IsOutput

(* Neither the store nor the pipe gives a lazy key its value. *)
LEMMA MergedLazy ==
    ASSUME NEW c \in Command, NEW recs, Answered(c, recs), NEW piped, IsOutput(piped),
           NEW k \in DOMAIN c.schema, c.schema[k].lazy
    PROVE  LET merged == Merged(c, recs, piped)
           IN  /\ merged[k].cfgu = c.schema[k] /\ merged[k].origin = "override"
               /\ merged[k].value = Overridden(c, k)
<1>1. /\ Found(c, recs)[k].cfgu = c.schema[k]
      /\ Found(c, recs)[k].origin = "override" /\ Found(c, recs)[k].value = Overridden(c, k)
  BY FoundForm
<1>2. ~IsConst(c.schema[k])
  BY CommandForm DEF Exclusive
<1>3. \A entry : ~PipeWins(Found(c, recs)[k], entry)
  BY <1>1 DEF PipeWins
<1>4. k \in DOMAIN c.schema \cup DOMAIN piped
  OBVIOUS
<1>5. PICK entry \in Evaluated : Chosen(entry, c, recs, piped, k)
  BY <1>4, MergedForm
<1>6. /\ entry = Found(c, recs)[k]
      /\ ~IsConst(entry.cfgu) => Merged(c, recs, piped)[k] = entry
  BY <1>3, <1>5 DEF Chosen
<1>. QED
  BY <1>1, <1>2, <1>6

(* A value of the pipe is not lost. *)
LEMMA MergedRank ==
    ASSUME NEW c \in Command, NEW recs, Answered(c, recs), NEW piped, IsOutput(piped),
           NEW k \in DOMAIN piped
    PROVE  /\ k \in DOMAIN Merged(c, recs, piped)
           /\ Rank(Merged(c, recs, piped)[k].origin) >= Rank(piped[k].origin)
<1>. DEFINE merged == Merged(c, recs, piped)
            found == Found(c, recs)
<1>0. k \in DOMAIN c.schema \cup DOMAIN piped
  OBVIOUS
<1>chosen. PICK entry \in Evaluated : Chosen(entry, c, recs, piped, k)
  BY <1>0, MergedForm
<1>1. /\ \/ entry = found[k] /\ ~PipeWins(found[k], piped[k])
         \/ entry = piped[k]
      /\ ~IsConst(entry.cfgu) => merged[k] = entry
      /\ IsConst(entry.cfgu) => merged[k].origin = "const"
  BY <1>chosen DEF Chosen
<1>2. piped[k].origin \in Origin /\ entry.origin \in Origin
  BY DEF IsOutput, Evaluated
<1>3. Rank(entry.origin) >= Rank(piped[k].origin)
  <2>1. CASE entry = piped[k]
    BY <1>2, <2>1 DEF Rank, Origin
  <2>2. CASE entry = found[k] /\ ~PipeWins(found[k], piped[k])
    BY <1>2, <2>2 DEF PipeWins, Rank, Origin
  <2>. QED
    BY <1>1, <2>1, <2>2
<1>4. Rank("const") >= Rank(piped[k].origin)
  BY <1>2 DEF Rank, Origin
<1>5. k \in DOMAIN merged
  BY <1>0, MergedForm
<1>. QED
  BY <1>1, <1>3, <1>4, <1>5

(* A command that is merged with the pipe keeps its values, and its Cfgu   *)
(* only where it has no value.                                             *)
LEMMA MergedPipe ==
    ASSUME cmd \in Command, Answered(cmd, records), IsOutput(pipe), Hollow(pipe),
           NEW merged, merged = Merged(cmd, records, pipe)
    PROVE  /\ Hollow(merged)
           /\ \A k \in DOMAIN cmd.schema :
                 \/ merged[k].cfgu = cmd.schema[k]
                 \/ LeftToPipe(k) /\ merged[k].cfgu = pipe[k].cfgu
           /\ \A k \in DOMAIN pipe :
                 pipe[k].value # Empty /\ merged[k].value = Empty =>
                     IsConst(merged[k].cfgu) \/ Cleared(k)
<1>1. DOMAIN merged = DOMAIN cmd.schema \cup DOMAIN pipe
  BY DEF Merged, ConstReset, EvalPipe, EvalDefault, EvalOverride, EvalStore, EvalEmpty
<1>2. ASSUME NEW k \in DOMAIN cmd.schema \cup DOMAIN pipe
      PROVE  /\ merged[k].origin = "empty" => merged[k].value = Empty /\ ~IsConst(merged[k].cfgu)
             /\ k \in DOMAIN cmd.schema =>
                   \/ merged[k].cfgu = cmd.schema[k]
                   \/ LeftToPipe(k) /\ merged[k].cfgu = pipe[k].cfgu
             /\ k \in DOMAIN pipe /\ pipe[k].value # Empty /\ merged[k].value = Empty =>
                   IsConst(merged[k].cfgu) \/ Cleared(k)
  <2>. DEFINE found == Found(cmd, records)[k]
  <2>1. PICK entry \in Evaluated : Chosen(entry, cmd, records, pipe, k)
    BY <1>2, MergedForm
  <2>2. /\ \/ k \in DOMAIN cmd.schema /\ entry = found
              /\ (k \in DOMAIN pipe => ~PipeWins(found, pipe[k]))
           \/ k \in DOMAIN pipe /\ entry = pipe[k]
              /\ (k \in DOMAIN cmd.schema => PipeWins(found, pipe[k]))
        /\ ~IsConst(entry.cfgu) => merged[k] = entry
        /\ IsConst(entry.cfgu) => merged[k].cfgu = entry.cfgu /\ merged[k].origin = "const"
    BY <2>1 DEF Chosen
  <2>3. k \in DOMAIN cmd.schema =>
           /\ found.cfgu = cmd.schema[k]
           /\ found.origin \in {"empty", "default"} =>
                 /\ k \notin DOMAIN cmd.override /\ ~cmd.schema[k].lazy
                 /\ Answers(records, k) = {}
           /\ found.origin = "empty" =>
                 found.value = Empty /\ cmd.schema[k].default \in Falsy \cup {Empty}
           /\ found.value = Empty /\ found.origin # "empty" =>
                 /\ k \in DOMAIN cmd.override \/ cmd.schema[k].lazy
                 /\ Overridden(cmd, k) = Empty
    BY FoundForm
  <2>. HIDE DEF found
  <2>4. k \in DOMAIN pipe =>
           (pipe[k].origin = "empty" => pipe[k].value = Empty /\ ~IsConst(pipe[k].cfgu))
    BY DEF Hollow
  <2>5. CASE /\ k \in DOMAIN cmd.schema /\ entry = found
             /\ k \in DOMAIN pipe => ~PipeWins(found, pipe[k])
    <3>1. /\ merged[k].cfgu = cmd.schema[k]
          /\ merged[k].origin = "empty" => merged[k].value = Empty /\ ~IsConst(merged[k].cfgu)
      BY <2>2, <2>3, <2>5
    <3>2. CASE k \in DOMAIN pipe /\ pipe[k].value # Empty /\ merged[k].value = Empty
               /\ ~IsConst(merged[k].cfgu)
      <4>1. found.origin # "empty" /\ found.value = Empty
        BY <2>2, <2>4, <2>5, <3>2 DEF PipeWins
      <4>. QED
        BY <2>3, <2>5, <3>1, <4>1 DEF Cleared
    <3>. QED
      BY <3>1, <3>2
  <2>6. CASE /\ k \in DOMAIN pipe /\ entry = pipe[k]
             /\ k \in DOMAIN cmd.schema => PipeWins(found, pipe[k])
    <3>1. /\ merged[k].cfgu = pipe[k].cfgu
          /\ merged[k].origin = "empty" => merged[k].value = Empty /\ ~IsConst(merged[k].cfgu)
          /\ pipe[k].value # Empty /\ merged[k].value = Empty => IsConst(merged[k].cfgu)
      BY <2>2, <2>4, <2>6
    <3>2. k \in DOMAIN cmd.schema => LeftToPipe(k)
      BY <2>3, <2>6 DEF PipeWins, LeftToPipe
    <3>. QED
      BY <3>1, <3>2
  <2>. QED
    BY <2>2, <2>5, <2>6
<1>. QED
  BY <1>1, <1>2 DEF Hollow

(* What comes of the store was read there, or piped. *)
LEMMA MergedStore ==
    ASSUME NEW c \in Command, NEW recs, Answered(c, recs), NEW piped, IsOutput(piped),
           NEW k \in DOMAIN c.schema
    PROVE  LET merged == Merged(c, recs, piped)
               deepest == Deepest(recs, k)
           IN  /\ merged[k].origin = "store" =>
                     \/ /\ Answers(recs, k) # {}
                        /\ merged[k].set = deepest.set /\ merged[k].value = deepest.value
                     \/ k \in DOMAIN piped /\ merged[k] = piped[k]
               /\ /\ ~c.schema[k].lazy /\ ~IsConst(c.schema[k]) /\ k \notin DOMAIN c.override
                  /\ Answers(recs, k) # {}
                  => /\ merged[k].origin = "store"
                     /\ merged[k].set = deepest.set /\ merged[k].value = deepest.value
<1>. DEFINE merged == Merged(c, recs, piped)
            found == Found(c, recs)
            deepest == Deepest(recs, k)
<1>0. k \in DOMAIN c.schema \cup DOMAIN piped
  OBVIOUS
<1>chosen. PICK entry \in Evaluated : Chosen(entry, c, recs, piped, k)
  BY <1>0, MergedForm
<1>1. /\ \/ entry = found[k] /\ (k \in DOMAIN piped => ~PipeWins(found[k], piped[k]))
         \/ k \in DOMAIN piped /\ entry = piped[k] /\ PipeWins(found[k], piped[k])
      /\ ~IsConst(entry.cfgu) => merged[k] = entry
      /\ IsConst(entry.cfgu) => merged[k].origin = "const"
  BY <1>chosen DEF Chosen
<1>2. /\ found[k].cfgu = c.schema[k]
      /\ k \notin DOMAIN c.override /\ ~c.schema[k].lazy /\ Answers(recs, k) # {} =>
            /\ found[k].origin = "store"
            /\ found[k].set = deepest.set /\ found[k].value = deepest.value
      /\ found[k].origin = "store" =>
            /\ Answers(recs, k) # {}
            /\ found[k].set = deepest.set /\ found[k].value = deepest.value
  BY FoundForm
<1>. HIDE DEF merged, found, deepest
<1>3. merged[k].origin = "store" =>
         \/ /\ Answers(recs, k) # {}
            /\ merged[k].set = deepest.set /\ merged[k].value = deepest.value
         \/ k \in DOMAIN piped /\ merged[k] = piped[k]
  BY <1>1, <1>2
<1>4. found[k].origin = "store" => ~PipeWins(found[k], piped[k])
  BY DEF PipeWins
<1>. QED
  BY <1>1, <1>2, <1>3, <1>4 DEF merged, deepest

-----------------------------------------------------------------------------
(* The steps. *)

LEMMA NoOutputIsOutput ==
    IsOutput(NoOutput) /\ DOMAIN NoOutput = {}
  BY DEF IsOutput, NoOutput

LEMMA InitHolds ==
    Init => IInv
<1>. SUFFICES ASSUME Init PROVE IInv
  OBVIOUS
<1>1. (CHOOSE c \in Command : TRUE) \in Command
  BY EvalAssumption
<1>2. TypeOK
  <2>1. MaxEvals \in Nat /\ MaxWrites \in Nat /\ MaxFaults \in Nat
    BY EvalAssumption
  <2>2. cmd \in Command
    BY <1>1 DEF Init
  <2>3. IsOutput(result) /\ IsOutput(pipe) /\ DOMAIN exported = {}
    BY NoOutputIsOutput DEF Init
  <2>4. /\ phase \in Phase /\ unread = {} /\ records = {} /\ todo = {}
        /\ evals = 0 /\ writes = 0 /\ faults = 0 /\ torn = FALSE
        /\ store \in [Sets -> [Key -> Content]]
    BY DEF Init, Phase
  <2>5. unread \subseteq Queried /\ todo \subseteq DOMAIN result
        /\ records \subseteq [set : Sets, key : Key, value : Value]
    BY <2>4
  <2>6. /\ evals \in 0..MaxEvals /\ writes \in 0..MaxWrites /\ faults \in 0..MaxFaults
    <3>1. 0 \in 0..MaxEvals /\ 0 \in 0..MaxWrites /\ 0 \in 0..MaxFaults
      BY <2>1
    <3>. QED
      BY <2>4, <3>1, Zenon
  <2>7. DOMAIN exported \subseteq Key /\ \A k \in DOMAIN exported : exported[k] \in Content
    BY <2>3
  <2>. QED
    BY <2>2, <2>3, <2>4, <2>5, <2>6, <2>7, FALSE \in BOOLEAN, Zenon DEF TypeOK, Queried
<1>3. RecordsOK /\ ResultOK /\ PipeOK
  BY DEF Init, RecordsOK, ResultOK, PipeOK, Hollow, NoOutput
<1>. QED
  BY <1>2, <1>3 DEF IInv

LEMMA BeginHolds ==
    ASSUME IInv, Begin PROVE IInv'
<1>. PICK c \in Command : cmd' = c /\ unread' = QueriedSets(c.path, c.depth)
  BY DEF Begin
<1>1. /\ phase' = "read" /\ records' = {} /\ torn' = FALSE /\ evals' = evals + 1 /\ evals < MaxEvals
      /\ store' = store /\ result' = result /\ todo' = todo /\ pipe' = pipe /\ exported' = exported
      /\ writes' = writes /\ faults' = faults
  BY DEF Begin
<1>2. TypeOK'
  <2>1. evals' \in 0..MaxEvals
    BY <1>1, EvalAssumption DEF IInv, TypeOK
  <2>. QED
    BY <1>1, <2>1 DEF IInv, TypeOK, Phase, IsOutput, Path, Evaluated
<1>3. RecordsOK'
  BY <1>1 DEF RecordsOK, Queried
<1>4. ResultOK' /\ PipeOK'
  BY <1>1 DEF IInv, ResultOK, PipeOK, Hollow
<1>. QED
  BY <1>2, <1>3, <1>4 DEF IInv

LEMMA ReadSetHolds ==
    ASSUME IInv, NEW s \in Sets, ReadSet(s) PROVE IInv'
<1>. DEFINE fresh == {[set |-> s, key |-> k, value |-> store[s][k]] :
                        k \in {j \in DOMAIN cmd.schema : store[s][j] # Empty}}
<1>1. /\ phase = "read" /\ phase' = "read" /\ s \in unread /\ unread' = unread \ {s}
      /\ records' = records \cup fresh
      /\ store' = store /\ cmd' = cmd /\ result' = result /\ todo' = todo /\ pipe' = pipe
      /\ exported' = exported /\ evals' = evals /\ writes' = writes /\ faults' = faults
      /\ torn' = torn
  BY DEF ReadSet, counters
<1>2. DOMAIN cmd.schema \subseteq Key
  BY CommandForm DEF IInv, TypeOK
<1>3. fresh \subseteq [set : Sets, key : Key, value : Value]
  BY <1>2 DEF IInv, TypeOK, Content
<1>4. /\ \A r \in fresh : r.set = s /\ r.key \in DOMAIN cmd.schema /\ r.value = store[s][r.key]
      /\ \A k \in DOMAIN cmd.schema :
            store[s][k] # Empty => \E r \in fresh : r.set = s /\ r.key = k
  <2>1. \A r \in fresh : r.set = s /\ r.key \in DOMAIN cmd.schema /\ r.value = store[s][r.key]
    OBVIOUS
  <2>2. ASSUME NEW k \in DOMAIN cmd.schema, store[s][k] # Empty
        PROVE  \E r \in fresh : r.set = s /\ r.key = k
    <3>1. [set |-> s, key |-> k, value |-> store[s][k]] \in fresh
      BY <2>2
    <3>. QED
      BY <3>1
  <2>. QED
    BY <2>1, <2>2
<1>. HIDE DEF fresh
<1>5. TypeOK'
  BY <1>1, <1>3 DEF IInv, TypeOK, IsOutput
<1>6. RecordsOK'
  <2>1. Queried' = Queried /\ s \in Queried
    BY <1>1 DEF Queried, IInv, TypeOK
  <2>2. \A r \in records' : r.set \in Queried \ unread' /\ r.key \in DOMAIN cmd.schema
    BY <1>1, <1>4, <2>1 DEF IInv, RecordsOK
  <2>3. ~torn => \A r \in records' : r.value = store[r.set][r.key]
    BY <1>1, <1>4 DEF IInv, RecordsOK
  <2>4. ASSUME ~torn, NEW q \in Queried \ unread', NEW k \in DOMAIN cmd.schema, store[q][k] # Empty
        PROVE  \E r \in records' : r.set = q /\ r.key = k
    <3>1. CASE q = s
      BY <1>1, <1>4, <2>4, <3>1
    <3>2. CASE q # s
      <4>1. \E r \in records : r.set = q /\ r.key = k
        BY <1>1, <2>4, <3>2 DEF IInv, RecordsOK
      <4>. QED
        BY <1>1, <4>1
    <3>. QED
      BY <3>1, <3>2
  <2>. QED
    BY <1>1, <2>1, <2>2, <2>3, <2>4 DEF RecordsOK
<1>7. ResultOK' /\ PipeOK'
  BY <1>1 DEF IInv, ResultOK, PipeOK, Hollow
<1>. QED
  BY <1>5, <1>6, <1>7 DEF IInv

LEMMA ReadFailsHolds ==
    ASSUME IInv, ReadRejected \/ \E s \in Sets : ReadSwallowed(s) PROVE IInv'
<1>1. faults' \in 0..MaxFaults
  BY EvalAssumption DEF IInv, TypeOK, ReadRejected, ReadSwallowed
<1>2. CASE ReadRejected
  <2>1. TypeOK'
    BY <1>1, <1>2 DEF IInv, TypeOK, IsOutput, Phase, ReadRejected
  <2>2. RecordsOK' /\ ResultOK' /\ PipeOK'
    BY <1>2 DEF IInv, ReadRejected, RecordsOK, ResultOK, PipeOK, Hollow
  <2>. QED
    BY <2>1, <2>2 DEF IInv
<1>3. ASSUME NEW s \in Sets, ReadSwallowed(s) PROVE IInv'
  <2>1. /\ phase = "read" /\ phase' = "read" /\ unread' = unread \ {s} /\ torn' = TRUE
        /\ records' = records /\ cmd' = cmd
    BY <1>3 DEF ReadSwallowed
  <2>2. TypeOK'
    BY <1>1, <1>3 DEF IInv, TypeOK, IsOutput, Phase, ReadSwallowed
  <2>3. RecordsOK'
    BY <2>1 DEF IInv, RecordsOK, Queried
  <2>4. ResultOK' /\ PipeOK'
    BY <1>3, <2>1 DEF IInv, ReadSwallowed, ResultOK, PipeOK, Hollow
  <2>. QED
    BY <2>2, <2>3, <2>4 DEF IInv
<1>. QED
  BY <1>2, <1>3

LEMMA ExternalWriteHolds ==
    ASSUME IInv, ExternalWrite PROVE IInv'
<1>. PICK s \in Sets, k \in Key, v \in Content :
        store' = [store EXCEPT ![s][k] = v] /\ torn' = (torn \/ s \notin unread)
  BY DEF ExternalWrite
<1>1. /\ phase = "read" /\ phase' = "read" /\ cmd' = cmd /\ unread' = unread /\ records' = records
      /\ result' = result /\ todo' = todo /\ pipe' = pipe /\ exported' = exported
      /\ evals' = evals /\ faults' = faults /\ writes' = writes + 1 /\ writes < MaxWrites
  BY DEF ExternalWrite
<1>2. TypeOK'
  <2>1. writes' \in 0..MaxWrites
    BY <1>1, EvalAssumption DEF IInv, TypeOK
  <2>2. store' \in [Sets -> [Key -> Content]]
    BY DEF IInv, TypeOK
  <2>3. torn' \in BOOLEAN
    BY DEF IInv, TypeOK
  <2>. QED
    BY <1>1, <2>1, <2>2, <2>3 DEF IInv, TypeOK, IsOutput, Phase
<1>3. RecordsOK'
  <2>1. Queried' = Queried /\ unread' = unread
    BY <1>1 DEF Queried
  <2>2. \A q \in Sets : q # s => store'[q] = store[q]
    BY DEF IInv, TypeOK
  <2>3. Queried \subseteq Sets
    BY SetsForm DEF Queried, IInv, TypeOK
  <2>4. ~torn' => ~torn /\ \A q \in Queried \ unread : store'[q] = store[q]
    BY <2>2, <2>3
  <2>. QED
    BY <1>1, <2>1, <2>4 DEF IInv, RecordsOK
<1>4. ResultOK' /\ PipeOK'
  BY <1>1 DEF IInv, ResultOK, PipeOK, Hollow
<1>. QED
  BY <1>2, <1>3, <1>4 DEF IInv

LEMMA MergeHolds ==
    ASSUME IInv, Merge PROVE IInv'
<1>. DEFINE merged == Merged(cmd, records, pipe)
<1>1. /\ phase = "read" /\ unread = {} /\ result' = merged /\ todo' = Consts(result')
      /\ phase' = "const" /\ store' = store /\ cmd' = cmd /\ unread' = unread /\ records' = records
      /\ pipe' = pipe /\ exported' = exported /\ evals' = evals /\ writes' = writes
      /\ faults' = faults /\ torn' = torn
  BY DEF Merge, counters
<1>2. /\ cmd \in Command /\ IsOutput(pipe)
      /\ Answered(cmd, records)
  BY <1>1 DEF IInv, TypeOK, RecordsOK, Answered, Queried
<1>3. IsOutput(merged)
  BY <1>2, MergedIsOutput
<1>4. DOMAIN merged = DOMAIN cmd.schema \cup DOMAIN pipe
  BY DEF Merged, ConstReset, EvalPipe, EvalDefault, EvalOverride, EvalStore, EvalEmpty
<1>5. \A k \in DOMAIN cmd.schema :
         /\ k \in DOMAIN merged
         /\ cmd.schema[k].lazy =>
               /\ merged[k].cfgu = cmd.schema[k]
               /\ merged[k].origin = "override" /\ merged[k].value = Overridden(cmd, k)
  BY <1>2, <1>4, MergedLazy
<1>6. \A k \in DOMAIN pipe :
         k \in DOMAIN merged /\ Rank(merged[k].origin) >= Rank(pipe[k].origin)
  BY <1>2, MergedRank
<1>pipe. Hollow(pipe)
  BY DEF IInv, PipeOK
<1>kept. /\ Hollow(merged)
         /\ \A k \in DOMAIN cmd.schema :
               \/ merged[k].cfgu = cmd.schema[k]
               \/ LeftToPipe(k) /\ merged[k].cfgu = pipe[k].cfgu
         /\ \A k \in DOMAIN pipe :
               pipe[k].value # Empty /\ merged[k].value = Empty =>
                   IsConst(merged[k].cfgu) \/ Cleared(k)
  BY <1>2, <1>pipe, MergedPipe
<1>. HIDE DEF merged
<1>7. TypeOK'
  <2>1. IsOutput(result)' /\ IsOutput(pipe)'
    BY <1>1, <1>2, <1>3 DEF IsOutput
  <2>2. todo' \subseteq DOMAIN result'
    BY <1>1 DEF Consts
  <2>. QED
    BY <1>1, <2>1, <2>2 DEF IInv, TypeOK, Phase
<1>8. ResultOK'
  <2>1. InOrder'
    BY <1>1 DEF InOrder, Consts
  <2>2. Agrees(result, todo)'
    BY <1>1 DEF Agrees, Consts
  <2>3. \A k \in DOMAIN cmd'.schema :
           /\ k \in DOMAIN result'
           /\ cmd'.schema[k].lazy =>
                 /\ result'[k].cfgu = cmd'.schema[k]
                 /\ result'[k].origin = "override" /\ result'[k].value = Overridden(cmd', k)
    BY <1>1, <1>5
  <2>4. \A k \in DOMAIN pipe' :
           k \in DOMAIN result' /\ Rank(result'[k].origin) >= Rank(pipe'[k].origin)
    BY <1>1, <1>6
  <2>5. todo' \subseteq Consts(result)'
    BY <1>1 DEF Consts
  <2>6. Hollow(result)' /\ Judged' /\ Kept'
    BY <1>1, <1>kept DEF Hollow, Judged, Kept, LeftToPipe, Cleared, Overridden
  <2>. QED
    BY <2>1, <2>2, <2>3, <2>4, <2>5, <2>6 DEF ResultOK
<1>9. RecordsOK' /\ PipeOK'
  BY <1>1, <1>pipe DEF RecordsOK, PipeOK, Hollow
<1>. QED
  BY <1>7, <1>8, <1>9 DEF IInv

(* The constants evaluated agree, and stay in order, when the next one is. *)
LEMMA EvalConstHolds ==
    ASSUME IInv, EvalConst PROVE IInv'
<1>1. /\ phase = "const" /\ store' = store /\ cmd' = cmd /\ unread' = unread /\ records' = records
      /\ pipe' = pipe /\ exported' = exported /\ evals' = evals /\ writes' = writes
      /\ faults' = faults /\ torn' = torn
  BY DEF EvalConst, counters
<1>2. PICK k \in todo :
         /\ \A j \in todo : Precedes(k, j, cmd.schema)
         /\ \/ /\ Renders(result[k].cfgu.const, result)
               /\ result' = [result EXCEPT ![k].value = Rendered(result[k].cfgu.const, result)]
               /\ todo' = todo \ {k}
               /\ phase' = phase
            \/ /\ phase' = "failed"
               /\ result' = result /\ todo' = todo
  BY DEF EvalConst
<1>3. CASE phase' = "failed" /\ result' = result /\ todo' = todo
  <2>1. TypeOK'
    BY <1>1, <1>3 DEF IInv, TypeOK, IsOutput, Phase
  <2>. QED
    BY <1>1, <1>3, <2>1 DEF IInv, RecordsOK, ResultOK, PipeOK, Hollow
<1>4. CASE /\ Renders(result[k].cfgu.const, result)
           /\ result' = [result EXCEPT ![k].value = Rendered(result[k].cfgu.const, result)]
           /\ todo' = todo \ {k}
           /\ phase' = phase
  <2>. DEFINE const == result[k].cfgu.const
              value == Rendered(const, result)
  <2>1. /\ \A j \in DOMAIN result : result[j] \in Evaluated
        /\ k \in DOMAIN result /\ DOMAIN result \subseteq Key
        /\ IsConst(result[k].cfgu) /\ k \in todo
    BY <1>1, <1>2 DEF IInv, TypeOK, IsOutput, ResultOK, Consts
  <2>2. const \in Key \cup Value
    BY <2>1 DEF IsConst, Evaluated, Cfgu
  <2>3. const \in Key => const \in DOMAIN result /\ value = result[const].value
    BY <1>4 DEF Renders, Rendered
  <2>4. value \in Content
    <3>1. CASE const \in Key
      BY <2>1, <2>3, <3>1 DEF Evaluated
    <3>2. CASE const \notin Key
      BY <2>2, <3>2 DEF Rendered, Content
    <3>. QED
      BY <3>1, <3>2
  <2>. HIDE DEF const, value
  <2>5. /\ DOMAIN result' = DOMAIN result
        /\ result'[k] = [result[k] EXCEPT !.value = value]
        /\ \A j \in DOMAIN result \ {k} : result'[j] = result[j]
    BY <1>4, <2>1 DEF value, const
  <2>6. /\ result'[k] \in Evaluated /\ result'[k].value = value
        /\ result'[k].cfgu = result[k].cfgu /\ result'[k].origin = result[k].origin
    BY <2>1, <2>4, <2>5 DEF Evaluated
  <2>7. \A j \in DOMAIN result :
           /\ result'[j] \in Evaluated
           /\ result'[j].cfgu = result[j].cfgu /\ result'[j].origin = result[j].origin
           /\ j # k => result'[j].value = result[j].value
    BY <2>1, <2>5, <2>6
  <2>8. Consts(result)' = Consts(result)
    BY <2>5, <2>7 DEF Consts
  <2>9. TypeOK'
    <3>1. IsOutput(result)'
      BY <2>1, <2>5, <2>7 DEF IsOutput
    <3>2. IsOutput(pipe)'
      BY <1>1 DEF IInv, TypeOK, IsOutput
    <3>. QED
      BY <1>1, <1>4, <2>5, <3>1, <3>2 DEF IInv, TypeOK, Phase
  <2>10. InOrder'
    <3>. SUFFICES ASSUME NEW i \in Consts(result) \ todo'
                  PROVE  /\ result'[i].cfgu.const \in Key => result'[i].cfgu.const \in DOMAIN result'
                         /\ \A j \in todo' : Precedes(i, j, cmd.schema)
      BY <1>1, <2>8 DEF InOrder, Precedes, Renders
    <3>0. i \in DOMAIN result /\ result'[i].cfgu = result[i].cfgu
      BY <2>7 DEF Consts
    <3>1. CASE i = k
      BY <1>2, <1>4, <2>5, <3>0, <3>1 DEF Renders
    <3>2. CASE i # k
      BY <1>1, <1>4, <2>5, <3>0, <3>2 DEF IInv, ResultOK, InOrder, Renders
    <3>. QED
      BY <3>1, <3>2
  <2>11. Agrees(result, todo)'
    <3>. SUFFICES ASSUME NEW i \in (DOMAIN cmd.schema \cap DOMAIN result) \ todo',
                         IsConst(result[i].cfgu), result[i].cfgu.const \in Key,
                         \/ ~IsConst(result'[result[i].cfgu.const].cfgu)
                         \/ /\ result[i].cfgu.const \in DOMAIN cmd.schema
                            /\ Position[result[i].cfgu.const] < Position[i]
                  PROVE  result'[i].value = result'[result[i].cfgu.const].value
      BY <1>1, <2>5, <2>7 DEF Agrees, IsConst
    <3>. DEFINE target == result[i].cfgu.const
    <3>0. \A p \in Key : Position[p] \in Nat
      BY EvalAssumption
    <3>1. CASE i = k
      <4>1. target = const /\ target \in DOMAIN result
        BY <2>3, <3>1 DEF const
      <4>2. target # k
        BY <2>1, <2>7, <3>0, <3>1
      <4>. QED
        BY <2>3, <2>6, <2>7, <3>1, <4>1, <4>2
    <3>2. CASE i # k
      <4>1. i \in (DOMAIN cmd.schema \cap DOMAIN result) \ todo
        BY <1>4, <3>2
      <4>2. target # k
        <5>. SUFFICES ASSUME target = k PROVE FALSE
          OBVIOUS
        <5>1. k \in DOMAIN cmd.schema /\ Position[k] < Position[i]
          BY <2>1, <2>6
        <5>2. Precedes(i, k, cmd.schema)
          BY <1>1, <1>2, <4>1 DEF IInv, ResultOK, InOrder, Consts
        <5>. QED
          BY <2>1, <3>0, <4>1, <5>1, <5>2 DEF Precedes
      <4>3. target \in DOMAIN result
        BY <1>1, <4>1 DEF IInv, ResultOK, InOrder, Consts, Renders
      <4>4. result'[target] = result[target] /\ result'[i] = result[i]
        BY <2>5, <3>2, <4>2, <4>3
      <4>. QED
        BY <1>1, <4>1, <4>4 DEF IInv, ResultOK, Agrees
    <3>. QED
      BY <3>1, <3>2
  <2>12. ResultOK'
    <3>1. \A i \in DOMAIN cmd'.schema :
             /\ i \in DOMAIN result'
             /\ cmd'.schema[i].lazy =>
                   /\ result'[i].cfgu = cmd'.schema[i]
                   /\ result'[i].origin = "override" /\ result'[i].value = Overridden(cmd', i)
      <4>. SUFFICES ASSUME NEW i \in DOMAIN cmd.schema
                    PROVE  /\ i \in DOMAIN result'
                           /\ cmd.schema[i].lazy =>
                                 /\ result'[i].cfgu = cmd.schema[i]
                                 /\ result'[i].origin = "override"
                                 /\ result'[i].value = Overridden(cmd, i)
        BY <1>1
      <4>1. /\ i \in DOMAIN result
            /\ cmd.schema[i].lazy =>
                  /\ result[i].cfgu = cmd.schema[i]
                  /\ result[i].origin = "override" /\ result[i].value = Overridden(cmd, i)
        BY <1>1 DEF IInv, ResultOK
      <4>2. cmd.schema[i].lazy => i # k
        <5>1. cmd.schema[i].lazy => ~IsConst(cmd.schema[i])
          BY CommandForm DEF Exclusive, IInv, TypeOK
        <5>. QED
          BY <2>1, <4>1, <5>1
      <4>. QED
        BY <2>5, <2>7, <4>1, <4>2
    <3>2. \A j \in DOMAIN pipe' :
             j \in DOMAIN result' /\ Rank(result'[j].origin) >= Rank(pipe'[j].origin)
      BY <1>1, <2>5, <2>7 DEF IInv, ResultOK
    <3>3. todo' \subseteq Consts(result)'
      BY <1>1, <1>4, <2>8 DEF IInv, ResultOK
    <3>4. Hollow(result) /\ Judged /\ Kept
      BY <1>1 DEF IInv, ResultOK
    <3>5. result[k].origin # "empty"
      BY <2>1, <3>4 DEF Hollow
    <3>6. Hollow(result)'
      BY <2>1, <2>5, <2>7, <3>4, <3>5 DEF Hollow
    <3>7. Judged'
      <4>. SUFFICES ASSUME NEW i \in DOMAIN cmd.schema
                    PROVE  \/ result'[i].cfgu = cmd.schema[i]
                           \/ LeftToPipe(i) /\ result'[i].cfgu = pipe[i].cfgu
        BY <1>1 DEF Judged, LeftToPipe
      <4>1. i \in DOMAIN result
        BY <1>1 DEF IInv, ResultOK
      <4>. QED
        BY <2>7, <3>4, <4>1 DEF Judged
    <3>8. Kept'
      <4>. SUFFICES ASSUME NEW i \in DOMAIN pipe, pipe[i].value # Empty, result'[i].value = Empty
                    PROVE  IsConst(result'[i].cfgu) \/ Cleared(i)
        BY <1>1 DEF Kept, Cleared, Overridden
      <4>1. i \in DOMAIN result
        BY <1>1 DEF IInv, ResultOK
      <4>2. CASE i = k
        BY <2>1, <2>6, <4>2
      <4>3. CASE i # k
        BY <2>7, <3>4, <4>1, <4>3 DEF Kept
      <4>. QED
        BY <4>2, <4>3
    <3>. QED
      BY <2>10, <2>11, <3>1, <3>2, <3>3, <3>6, <3>7, <3>8 DEF ResultOK
  <2>13. RecordsOK' /\ PipeOK'
    BY <1>1, <1>4 DEF IInv, RecordsOK, PipeOK, Hollow
  <2>. QED
    BY <2>9, <2>12, <2>13 DEF IInv
<1>. QED
  BY <1>2, <1>3, <1>4

(* A result that is handed on has no constant left. *)
LEMMA ValidateResultHolds ==
    ASSUME IInv, ValidateResult PROVE IInv'
<1>1. /\ phase = "const" /\ todo = {}
      /\ store' = store /\ cmd' = cmd /\ unread' = unread /\ records' = records
      /\ result' = result /\ todo' = todo /\ exported' = exported
      /\ evals' = evals /\ writes' = writes /\ faults' = faults /\ torn' = torn
  BY DEF ValidateResult, counters
<1>2. CASE (cmd.validate => Valid(result)) /\ phase' = "idle" /\ pipe' = result
  <2>1. TypeOK'
    BY <1>1, <1>2 DEF IInv, TypeOK, IsOutput, Phase
  <2>2. Agrees(pipe, {})'
    BY <1>1, <1>2 DEF IInv, ResultOK, Agrees
  <2>3. Hollow(pipe)'
    BY <1>1, <1>2 DEF IInv, ResultOK, Hollow
  <2>4. RecordsOK' /\ ResultOK'
    BY <1>2 DEF RecordsOK, ResultOK
  <2>. QED
    BY <2>1, <2>2, <2>3, <2>4 DEF IInv, PipeOK
<1>3. CASE phase' = "failed" /\ pipe' = pipe
  <2>1. TypeOK'
    BY <1>1, <1>3 DEF IInv, TypeOK, IsOutput, Phase
  <2>. QED
    BY <1>1, <1>3, <2>1 DEF IInv, RecordsOK, ResultOK, PipeOK, Hollow
<1>. QED
  BY <1>2, <1>3 DEF ValidateResult

LEMMA RunExportHolds ==
    ASSUME IInv, RunExport PROVE IInv'
<1>1. /\ phase = "idle" /\ evals > 0 /\ phase' = "exported" /\ exported' = Export(pipe)
      /\ store' = store /\ cmd' = cmd /\ unread' = unread /\ records' = records
      /\ result' = result /\ todo' = todo /\ pipe' = pipe
      /\ evals' = evals /\ writes' = writes /\ faults' = faults /\ torn' = torn
  BY DEF RunExport, counters
<1>2. DOMAIN pipe \subseteq Key /\ \A k \in DOMAIN pipe : pipe[k].value \in Content
  BY DEF IInv, TypeOK, IsOutput, Evaluated
<1>3. DOMAIN exported' \subseteq Key /\ \A k \in DOMAIN exported' : exported'[k] \in Content
  BY <1>1, <1>2 DEF Export
<1>4. TypeOK'
  BY <1>1, <1>3 DEF IInv, TypeOK, IsOutput, Phase
<1>5. RecordsOK' /\ ResultOK'
  BY <1>1 DEF RecordsOK, ResultOK
<1>6. PipeOK'
  BY <1>1 DEF IInv, PipeOK, Hollow, Agrees
<1>. QED
  BY <1>4, <1>5, <1>6 DEF IInv

LEMMA NextHolds ==
    IInv /\ [Next]_vars => IInv'
<1>. SUFFICES ASSUME IInv, [Next]_vars PROVE IInv'
  OBVIOUS
<1>1. CASE Next
  BY <1>1, BeginHolds, ReadSetHolds, ReadFailsHolds, MergeHolds, EvalConstHolds, ValidateResultHolds,
     RunExportHolds, ExternalWriteHolds DEF Next
<1>2. CASE UNCHANGED vars
  <2>1. TypeOK'
    BY <1>2 DEF vars, IInv, TypeOK, IsOutput
  <2>2. RecordsOK'
    BY <1>2 DEF vars, IInv, RecordsOK, Queried
  <2>4. ResultOK'
    <3>. SUFFICES ASSUME phase = "const" PROVE ResultOK'
      BY <1>2 DEF vars, ResultOK
    <3>1. InOrder' /\ Agrees(result, todo)' /\ Hollow(result)'
      BY <1>2 DEF vars, IInv, ResultOK, InOrder, Consts, Precedes, Renders, Agrees, Hollow
    <3>2. Judged' /\ Kept'
      BY <1>2 DEF vars, IInv, ResultOK, Judged, Kept, LeftToPipe, Cleared, Overridden
    <3>. QED
      BY <1>2, <3>1, <3>2 DEF vars, IInv, ResultOK, Consts, Overridden
  <2>3. PipeOK'
    BY <1>2 DEF vars, IInv, PipeOK, Hollow, Agrees
  <2>. QED
    BY <2>1, <2>2, <2>3, <2>4 DEF IInv
<1>. QED
  BY <1>1, <1>2

(* In every reachable state the result in the making agrees with the       *)
(* command, the pipe and what the store answered, as far as the methods of *)
(* execute have come.                                                      *)
THEOREM Invariant == Spec => []IInv
  BY InitHolds, NextHolds, PTL DEF Spec

-----------------------------------------------------------------------------
(* The properties. *)

(* Every variable keeps its type: what is read, merged and rendered is an  *)
(* output, of keys of some schema.                                         *)
THEOREM TypeCorrect == Spec => []TypeOK
<1>1. IInv => TypeOK
  BY DEF IInv
<1>. QED
  BY <1>1, Invariant, PTL

(* A lazy key has the value of the command's own override, whatever the    *)
(* store holds and the pipe brings.                                        *)
THEOREM LazyIsOverridden == Spec => []LazyOnlyFromOverride
<1>1. IInv => LazyOnlyFromOverride
  BY DEF IInv, ResultOK, LazyOnlyFromOverride
<1>. QED
  BY <1>1, Invariant, PTL

(* A const agrees with the key it reads, if that one is no const or a      *)
(* const declared before it.                                               *)
THEOREM ConstsAgree == Spec => []ConstAgrees
<1>1. IInv => ConstAgrees
  BY DEF IInv, PipeOK, Agrees, ConstAgrees
<1>. QED
  BY <1>1, Invariant, PTL

(* Only the merge ends a read well. *)
LEMMA ReadEndsWithMerge ==
    ASSUME [Next]_vars, phase = "read", phase' = "const"
    PROVE  Merge
<1>1. ~UNCHANGED vars
  BY DEF vars
<1>2. ~Begin /\ ~ReadRejected /\ ~EvalConst /\ ~ValidateResult /\ ~RunExport /\ ~ExternalWrite
  BY DEF Begin, ReadRejected, EvalConst, ValidateResult, RunExport, ExternalWrite
<1>3. \A s \in Sets : ~ReadSet(s) /\ ~ReadSwallowed(s)
  BY DEF ReadSet, ReadSwallowed
<1>. QED
  BY <1>1, <1>2, <1>3 DEF Next

LEMMA ReadIsAnswered ==
    ASSUME IInv, Merge
    PROVE  /\ cmd \in Command /\ IsOutput(pipe) /\ Answered(cmd, records)
           /\ result' = Merged(cmd, records, pipe)
  BY DEF IInv, TypeOK, RecordsOK, Answered, Queried, Merge

(* However the answers of the sets and the writes of others interleave, a  *)
(* value of origin store was read in that set, or came with the pipe.      *)
THEOREM StoreValuesAreRead == Spec => StoreValuesWereRead
<1>1. ASSUME IInv, [Next]_vars, phase = "read", phase' = "const",
             NEW k \in DOMAIN cmd.schema, result'[k].origin = "store"
      PROVE  \/ [set |-> result'[k].set, key |-> k, value |-> result'[k].value] \in records
             \/ k \in DOMAIN pipe /\ result'[k] = pipe[k]
  <2>1. /\ cmd \in Command /\ IsOutput(pipe) /\ Answered(cmd, records)
        /\ result' = Merged(cmd, records, pipe)
    BY <1>1, ReadEndsWithMerge, ReadIsAnswered
  <2>. DEFINE deepest == Deepest(records, k)
  <2>2. \/ /\ Answers(records, k) # {}
           /\ result'[k].set = deepest.set /\ result'[k].value = deepest.value
        \/ k \in DOMAIN pipe /\ result'[k] = pipe[k]
    BY <1>1, <2>1, MergedStore
  <2>3. CASE /\ Answers(records, k) # {}
             /\ result'[k].set = deepest.set /\ result'[k].value = deepest.value
    <3>1. deepest \in records /\ deepest.key = k
      BY <2>1, <2>3, DeepestForm, SetsForm DEF Answered
    <3>. HIDE DEF deepest
    <3>2. deepest = [set |-> deepest.set, key |-> deepest.key, value |-> deepest.value]
      BY <1>1, <3>1 DEF IInv, TypeOK
    <3>. QED
      BY <2>3, <3>1, <3>2
  <2>. QED
    BY <2>2, <2>3
<1>2. IInv /\ [Next]_vars =>
        [phase = "read" /\ phase' = "const" =>
            \A k \in DOMAIN cmd.schema :
                result'[k].origin = "store" =>
                    \/ [set |-> result'[k].set, key |-> k, value |-> result'[k].value] \in records
                    \/ k \in DOMAIN pipe /\ result'[k] = pipe[k]]_vars
  BY <1>1
<1>. QED
  BY <1>2, Invariant, PTL DEF Spec, StoreValuesWereRead

(* Unless the store changed under the read or a read failed, a key the     *)
(* store decides has the value of the deepest set that holds one.          *)
THEOREM DeepestWins == Spec => DeepestSetWins
<1>1. ASSUME IInv, [Next]_vars, phase = "read", phase' = "const", ~torn,
             NEW k \in PlainKeys,
             NEW holders, holders = {s \in Queried : store[s][k] # Empty}, holders # {}
      PROVE  /\ result'[k].origin = "store"
             /\ result'[k].set \in holders
             /\ \A s \in holders : Len(s) <= Len(result'[k].set)
             /\ result'[k].value = store[result'[k].set][k]
  <2>1. /\ cmd \in Command /\ IsOutput(pipe) /\ Answered(cmd, records)
        /\ result' = Merged(cmd, records, pipe) /\ unread = {}
    BY <1>1, ReadEndsWithMerge, ReadIsAnswered DEF Merge
  <2>2. /\ k \in DOMAIN cmd.schema /\ ~cmd.schema[k].lazy /\ ~IsConst(cmd.schema[k])
        /\ k \notin DOMAIN cmd.override
    BY <1>1 DEF PlainKeys
  <2>3. /\ \A r \in records : r.set \in Queried /\ r.value = store[r.set][r.key] /\ r.value # Empty
        /\ \A s \in holders : \E r \in records : r.set = s /\ r.key = k
    <3>1. \A r \in records : r.value \in Value
      BY <2>1 DEF Answered
    <3>2. Empty \notin Value
      BY ConfigsAssumption
    <3>. QED
      BY <1>1, <2>1, <2>2, <3>1, <3>2 DEF IInv, RecordsOK
  <2>. DEFINE deepest == Deepest(records, k)
  <2>4. Answers(records, k) # {}
    BY <1>1, <2>3 DEF Answers
  <2>5. /\ deepest \in records /\ deepest.key = k
        /\ \A other \in records : other.key = k => Len(other.set) <= Len(deepest.set)
    BY <2>1, <2>4, DeepestForm, SetsForm DEF Answered
  <2>6. /\ result'[k].origin = "store"
        /\ result'[k].set = deepest.set /\ result'[k].value = deepest.value
    BY <2>1, <2>2, <2>4, MergedStore
  <2>. HIDE DEF deepest
  <2>. QED
    BY <1>1, <2>3, <2>5, <2>6
<1>2. IInv /\ [Next]_vars =>
        [phase = "read" /\ phase' = "const" /\ ~torn =>
            \A k \in PlainKeys :
                LET holders == {s \in QueriedSets(cmd.path, cmd.depth) : store[s][k] # Empty}
                IN  holders # {} =>
                        /\ result'[k].origin = "store"
                        /\ result'[k].set \in holders
                        /\ \A s \in holders : Len(s) <= Len(result'[k].set)
                        /\ result'[k].value = store[result'[k].set][k]]_vars
  BY <1>1 DEF Queried
<1>. QED
  BY <1>2, Invariant, PTL DEF Spec, DeepestSetWins

(* Only the validation of a result hands on a pipe. *)
LEMMA PipeIsResult ==
    ASSUME [Next]_vars, pipe' # pipe \/ (phase = "const" /\ phase' = "idle")
    PROVE  /\ phase = "const" /\ todo = {} /\ cmd' = cmd /\ pipe' = result
           /\ cmd.validate => Valid(result)
<1>1. ~Begin /\ ~ReadRejected /\ ~Merge /\ ~EvalConst /\ ~RunExport /\ ~ExternalWrite
  BY DEF Begin, ReadRejected, Merge, EvalConst, RunExport, ExternalWrite
<1>2. \A s \in Sets : ~ReadSet(s) /\ ~ReadSwallowed(s)
  BY DEF ReadSet, ReadSwallowed
<1>3. ~UNCHANGED vars
  BY DEF vars
<1>. QED
  BY <1>1, <1>2, <1>3 DEF Next, ValidateResult

(* Along a pipeline, however long, no key is lost or falls back to a       *)
(* default, and a value becomes empty only if the command clears it or it  *)
(* is a const.                                                             *)
THEOREM PipeIsKept == Spec => PipeNeverDowngraded
<1>1. ASSUME IInv, [Next]_vars, pipe' # pipe,
             NEW k \in DOMAIN pipe
      PROVE  /\ k \in DOMAIN pipe' /\ Rank(pipe'[k].origin) >= Rank(pipe[k].origin)
             /\ pipe[k].value # Empty /\ pipe'[k].value = Empty =>
                   IsConst(pipe'[k].cfgu) \/ Cleared(k)
  <2>1. phase = "const" /\ pipe' = result
    BY <1>1, PipeIsResult
  <2>. QED
    BY <1>1, <2>1 DEF IInv, ResultOK, Kept
<1>2. IInv /\ [Next]_vars =>
        [\A k \in DOMAIN pipe :
            /\ k \in DOMAIN pipe' /\ Rank(pipe'[k].origin) >= Rank(pipe[k].origin)
            /\ pipe[k].value # Empty /\ pipe'[k].value = Empty =>
                  IsConst(pipe'[k].cfgu) \/ Cleared(k)]_pipe
  BY <1>1
<1>. QED
  BY <1>2, Invariant, PTL DEF Spec, PipeNeverDowngraded

(* What a validating command hands on meets its own schema, whatever Cfgus *)
(* came through the pipe, but for keys it has no value for.                *)
THEOREM SchemasRule == Spec => OwnSchemaRules
<1>1. ASSUME IInv, [Next]_vars, phase = "const", phase' = "idle", cmd.validate,
             NEW k \in DOMAIN cmd.schema
      PROVE  \/ Meets(cmd.schema[k], k, pipe')
             \/ LeftToPipe(k) /\ Meets(pipe[k].cfgu, k, pipe')
  <2>1. pipe' = result /\ Valid(result)
    BY <1>1, PipeIsResult
  <2>2. /\ k \in DOMAIN result
        /\ result[k].cfgu = cmd.schema[k] \/ (LeftToPipe(k) /\ result[k].cfgu = pipe[k].cfgu)
    BY <1>1 DEF IInv, ResultOK, Judged
  <2>3. Meets(result[k].cfgu, k, result)
    BY <2>1, <2>2 DEF Valid
  <2>. QED
    BY <2>1, <2>2, <2>3
<1>2. IInv /\ [Next]_vars =>
        [phase = "const" /\ phase' = "idle" /\ cmd.validate =>
            \A k \in DOMAIN cmd.schema :
                \/ Meets(cmd.schema[k], k, pipe')
                \/ LeftToPipe(k) /\ Meets(pipe[k].cfgu, k, pipe')]_vars
  BY <1>1
<1>. QED
  BY <1>2, Invariant, PTL DEF Spec, OwnSchemaRules

=============================================================================
