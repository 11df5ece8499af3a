-------------------------- MODULE FileStore_proofs --------------------------
(***************************************************************************)
(* Proofs about FileStore, for every format, any number of programs, of    *)
(* configs, of sets and of crashes.                                        *)
(***************************************************************************)
EXTENDS FileStore, FiniteSetTheorems, TLAPS

Place == {"idle", "init", "create", "initialise", "ready", "read", "write", "written"}

Given == UNION {[D -> Content] : D \in SUBSET Query}

TypeInv ==
    /\ IsFormat(format) /\ users \subseteq Program /\ IsFiniteSet(users)
    /\ file \in Tables \cup {Missing, Blank, Garbled}
    /\ pc \in [Program -> Place]
    /\ batch \in [Program -> Given] /\ seen \in [Program -> Tables]
    /\ sets \in Nat /\ crashes \in Nat
    /\ expected \in [Query -> Content]
    /\ mixed \in BOOLEAN

(* What is in the file and in memory was stored at first or given.  Of the *)
(* file this is not known for the values that are not read back, and of    *)
(* either it is not once the mixture of two writes may have been parsed.   *)
OnlyOffered ==
    /\ ~mixed /\ file \in Tables =>
          \A q \in DOMAIN file : file[q] \notin format.scalars => <<q, file[q]>> \in offered
    /\ \A p \in Program :
          /\ \A q \in DOMAIN batch[p] : <<q, batch[p][q]>> \in offered
          /\ ~mixed => \A q \in DOMAIN seen[p] : <<q, seen[p][q]>> \in offered

(* A program that no other has raced finds the file as it left it. *)
Unraced(p) ==
    p \in Active \ raced =>
        /\ Active = {p}
        /\ pc[p] = "create" => file = Missing
        /\ pc[p] \in {"initialise", "write"} => file = Blank
        /\ pc[p] \in {"ready", "read", "written"} => file # Missing
        /\ pc[p] = "written" => file = Serialized(NextRows(batch[p], seen[p]))

(* A value read for q is the one last stored, or was lost with a crash. *)
Lost == format.blankParses /\ crashes > 0

Faithful(v, q) == v = Readback(expected[q]) \/ (Lost /\ v = Empty)

(* What one program on its own reads, and what it goes by. *)
Solo ==
    Alone =>
        /\ raced = {}
        /\ file = Missing \/ (\E p \in Program : pc[p] = "initialise") =>
              \A q \in Query : expected[q] = Empty
        /\ \A p \in Program :
              pc[p] \in {"read", "write"} => \A q \in Query : Faithful(ValueIn(seen[p], q), q)
        /\ ~Open /\ Parses(file) => \A q \in Query : Faithful(Get(file, q), q)

IInv ==
    /\ TypeInv
    /\ Active \subseteq users
    /\ OnlyOffered
    /\ \A p \in Program : Unraced(p)
    /\ Solo

-----------------------------------------------------------------------------
(* The formats. *)

LEMMA Distinct ==
    /\ Missing # Blank /\ Blank # Garbled /\ Missing # Garbled
    /\ Missing \notin Tables /\ Blank \notin Tables /\ Garbled \notin Tables
<1>1. \A x, y : Cardinality({x, y}) \in {1, 2}
  <2>. SUFFICES ASSUME NEW x, NEW y PROVE Cardinality({x, y}) \in {1, 2}
    OBVIOUS
  <2>1. IsFiniteSet({x}) /\ Cardinality({x}) = 1
    BY FS_Singleton
  <2>2. IsFiniteSet({x} \cup {y}) /\ Cardinality({x} \cup {y}) \in {1, 2}
    BY <2>1, FS_AddElement
  <2>3. {x, y} = {x} \cup {y}
    OBVIOUS
  <2>. QED
    BY <2>2, <2>3
<1>2. Cardinality({Missing, Blank, Garbled}) = 3
  BY FileAssumption
<1>3. Missing # Blank
  <2>. SUFFICES ASSUME Missing = Blank PROVE FALSE
    OBVIOUS
  <2>1. {Missing, Blank, Garbled} = {Blank, Garbled}
    OBVIOUS
  <2>2. Cardinality({Blank, Garbled}) = 3
    BY <1>2, <2>1
  <2>3. Cardinality({Blank, Garbled}) \in {1, 2}
    BY <1>1
  <2>. QED
    BY <2>2, <2>3
<1>4. Blank # Garbled
  <2>. SUFFICES ASSUME Blank = Garbled PROVE FALSE
    OBVIOUS
  <2>1. {Missing, Blank, Garbled} = {Missing, Blank}
    OBVIOUS
  <2>2. Cardinality({Missing, Blank}) = 3
    BY <1>2, <2>1
  <2>3. Cardinality({Missing, Blank}) \in {1, 2}
    BY <1>1
  <2>. QED
    BY <2>2, <2>3
<1>5. Missing # Garbled
  <2>. SUFFICES ASSUME Missing = Garbled PROVE FALSE
    OBVIOUS
  <2>1. {Missing, Blank, Garbled} = {Missing, Blank}
    OBVIOUS
  <2>2. Cardinality({Missing, Blank}) = 3
    BY <1>2, <2>1
  <2>3. Cardinality({Missing, Blank}) \in {1, 2}
    BY <1>1
  <2>. QED
    BY <2>2, <2>3
<1>. QED
  BY <1>3, <1>4, <1>5, FileAssumption

LEMMA TableForm ==
    ASSUME NEW rows
    PROVE  /\ rows \in Tables <=> DOMAIN rows \subseteq Query /\ rows \in [DOMAIN rows -> Value]
           /\ rows \in Given <=> DOMAIN rows \subseteq Query /\ rows \in [DOMAIN rows -> Content]
  BY DEF Tables, Given

LEMMA NoRowsForm ==
    NoRows \in Tables /\ NoRows \in Given /\ DOMAIN NoRows = {}
<1>1. NoRows \in [{} -> Value] /\ NoRows \in [{} -> Content] /\ DOMAIN NoRows = {}
  BY DEF NoRows
<1>. QED
  BY <1>1, TableForm

LEMMA OnlyNoRows ==
    ASSUME NEW rows \in Tables \cup Given, DOMAIN rows = {}
    PROVE  rows = NoRows
<1>1. rows \in [{} -> Value] \/ rows \in [{} -> Content]
  BY TableForm
<1>2. rows = [q \in {} |-> rows[q]]
  BY <1>1
<1>. QED
  BY <1>2 DEF NoRows

LEMMA ReadbackForm ==
    ASSUME IsFormat(format)
    PROVE  /\ Readback(Empty) = Empty
           /\ \A v \in Content : v \notin format.scalars => Readback(v) = v
           /\ \A v \in format.scalars : Readback(v) = Empty
<1>1. Empty \notin format.scalars
  BY FileAssumption DEF IsFormat
<1>. QED
  BY <1>1 DEF Readback

(* What a set writes. *)
LEMMA NextRowsForm ==
    ASSUME NEW configs \in Given, NEW rows \in Tables
    PROVE  /\ NextRows(configs, rows) \in Tables
           /\ \A q : ValueIn(NextRows(configs, rows), q) =
                        IF q \in DOMAIN configs THEN configs[q] ELSE ValueIn(rows, q)
           /\ \A q \in DOMAIN NextRows(configs, rows) :
                 \/ q \in DOMAIN configs /\ NextRows(configs, rows)[q] = configs[q]
                 \/ q \in DOMAIN rows /\ NextRows(configs, rows)[q] = rows[q]
<1>. DEFINE value(q) == IF q \in DOMAIN configs THEN configs[q] ELSE rows[q]
            D == {r \in DOMAIN configs \cup DOMAIN rows : value(r) # Empty}
            next == NextRows(configs, rows)
<1>1. next = [q \in D |-> value(q)]
  BY DEF NextRows
<1>2. /\ DOMAIN configs \subseteq Query /\ configs \in [DOMAIN configs -> Content]
      /\ DOMAIN rows \subseteq Query /\ rows \in [DOMAIN rows -> Value]
  BY TableForm
<1>3. \A q \in D : value(q) \in Value
  BY <1>2 DEF Content
<1>4. next \in Tables
  <2>1. next \in [D -> Value]
    BY <1>1, <1>3
  <2>2. D \in SUBSET Query
    BY <1>2
  <2>. HIDE DEF D, next
  <2>. QED
    BY <2>1, <2>2 DEF Tables
<1>5. ASSUME NEW q
      PROVE  ValueIn(next, q) = IF q \in DOMAIN configs THEN configs[q] ELSE ValueIn(rows, q)
  BY <1>1 DEF ValueIn
<1>6. \A q \in DOMAIN next : \/ q \in DOMAIN configs /\ next[q] = configs[q]
                             \/ q \in DOMAIN rows /\ next[q] = rows[q]
  BY <1>1
<1>. QED
  BY <1>4, <1>5, <1>6

(* What can be read is what parse returns. *)
LEMMA GetForm ==
    ASSUME IsFormat(format), NEW contents \in Tables \cup {Missing, Blank, Garbled}
    PROVE  /\ \A q : Get(contents, q) \in Content
           /\ ~Parses(contents) => \A q : Get(contents, q) = Empty
           /\ contents = Blank => \A q : Get(contents, q) = Empty
           /\ Parses(contents) =>
                 /\ Parsed(contents) \in Tables
                 /\ \A q : ValueIn(Parsed(contents), q) = Get(contents, q)
                 /\ \A q \in DOMAIN Parsed(contents) :
                       /\ Parsed(contents)[q] \notin format.scalars
                       /\ contents \in Tables /\ q \in DOMAIN contents
                       /\ Parsed(contents)[q] = contents[q]
           /\ contents \in Tables /\ Parses(contents) =>
                 \A q : Get(contents, q) = Readback(ValueIn(contents, q))
<1>1. ~Parses(contents) => \A q : Get(contents, q) = Empty
  BY DEF Get
<1>2. CASE contents = Blank
  <2>1. Parsed(contents) = NoRows /\ contents \notin Tables
    BY <1>2, Distinct DEF Parsed
  <2>2. \A q : Get(contents, q) = Empty /\ ValueIn(NoRows, q) = Empty
    BY <2>1, NoRowsForm DEF Get, ValueIn
  <2>. QED
    BY <1>1, <1>2, <2>1, <2>2, NoRowsForm DEF Content
<1>3. CASE contents \in Tables
  <2>. DEFINE D == {r \in DOMAIN contents : contents[r] \notin format.scalars}
  <2>1. contents # Blank /\ Parsed(contents) = [q \in D |-> contents[q]]
    BY <1>3, Distinct DEF Parsed
  <2>2. DOMAIN contents \subseteq Query /\ contents \in [DOMAIN contents -> Value]
    BY <1>3, TableForm
  <2>3. Parsed(contents) \in Tables
    <3>1. Parsed(contents) \in [D -> Value] /\ D \in SUBSET Query
      BY <2>1, <2>2
    <3>. HIDE DEF D
    <3>. QED
      BY <3>1 DEF Tables
  <2>4. \A q : Parses(contents) => Get(contents, q) = ValueIn(Parsed(contents), q)
    BY DEF Get, ValueIn
  <2>5. \A q : ValueIn(Parsed(contents), q) = Readback(ValueIn(contents, q))
    BY <2>1, <2>2, ReadbackForm DEF ValueIn, Readback
  <2>6. \A q : Get(contents, q) \in Content
    BY <2>1, <2>2 DEF Get, Content
  <2>7. \A q \in DOMAIN Parsed(contents) :
           /\ Parsed(contents)[q] \notin format.scalars
           /\ q \in DOMAIN contents /\ Parsed(contents)[q] = contents[q]
    BY <2>1
  <2>. QED
    BY <1>1, <1>3, <2>1, <2>3, <2>4, <2>5, <2>6, <2>7
<1>4. CASE contents \in {Missing, Garbled}
  <2>1. ~Parses(contents)
    BY <1>4, Distinct DEF Parses
  <2>. QED
    BY <1>1, <1>4, <2>1, Distinct DEF Content
<1>. QED
  BY <1>2, <1>3, <1>4

(* What stringify keeps. *)
LEMMA KeptForm ==
    ASSUME NEW rows \in Tables
    PROVE  /\ Kept(rows) \in Tables
           /\ \A q \in DOMAIN Kept(rows) : q \in DOMAIN rows /\ Kept(rows)[q] = rows[q]
           /\ \A q : ValueIn(Kept(rows), q) = IF q \in Shadowed(rows) THEN Empty
                                             ELSE ValueIn(rows, q)
<1>. DEFINE D == DOMAIN rows \ Shadowed(rows)
<1>1. Kept(rows) = [q \in D |-> rows[q]]
  BY DEF Kept
<1>2. D \in SUBSET Query /\ \A q \in D : rows[q] \in Value
  BY TableForm
<1>3. Kept(rows) \in Tables
  <2>1. Kept(rows) \in [D -> Value]
    BY <1>1, <1>2
  <2>. HIDE DEF D
  <2>. QED
    BY <1>2, <2>1 DEF Tables
<1>. QED
  BY <1>1, <1>3 DEF ValueIn

(* What a write has left in the file reads back as it was kept. *)
LEMMA SerializedForm ==
    ASSUME IsFormat(format), NEW rows \in Tables
    PROVE  /\ Serialized(rows) \in Tables \cup {Blank}
           /\ Serialized(rows) = Blank \/ Serialized(rows) = Kept(rows)
           /\ \/ Parses(Serialized(rows))
              \/ format.singleBreaks /\ Cardinality(DOMAIN Kept(rows)) = 1
           /\ Parses(Serialized(rows)) =>
                 \A q : Get(Serialized(rows), q) = Readback(ValueIn(Kept(rows), q))
<1>. PICK kept : kept = Kept(rows)
  OBVIOUS
<1>0. kept \in Tables
  BY KeptForm
<1>1. CASE kept = NoRows /\ format.blankParses
  <2>1. Serialized(rows) = Blank /\ Parses(Blank)
    BY <1>1 DEF Serialized, Parses
  <2>2. \A q : Get(Blank, q) = Empty /\ ValueIn(kept, q) = Empty
    BY <1>1, GetForm, NoRowsForm DEF ValueIn
  <2>. QED
    BY <2>1, <2>2, ReadbackForm
<1>2. CASE ~(kept = NoRows /\ format.blankParses)
  <2>1. Serialized(rows) = kept
    BY <1>2 DEF Serialized
  <2>2. Parses(kept) \/ (format.singleBreaks /\ Cardinality(DOMAIN kept) = 1)
    BY <1>0 DEF Parses
  <2>. QED
    BY <1>0, <2>1, <2>2, GetForm
<1>. QED
  BY <1>1, <1>2

(* The format of a file does not change. *)
LEMMA Rereads ==
    ASSUME format' = format, NEW contents, file' = contents
    PROVE  /\ Parses(file)' <=> Parses(contents)
           /\ \A q : Get(file, q)' = Get(contents, q)
  BY DEF Parses, Get, Parsed

-----------------------------------------------------------------------------
(* What holds of the steps. *)

LEMMA OutcomesForm ==
    ASSUME NEW contents
    PROVE  /\ file = Blank => Outcomes(contents) = {contents}
           /\ Outcomes(contents) \subseteq {contents, file, Garbled} \cup Tables
           /\ "parsed" \notin format.mixture =>
                 Outcomes(contents) \subseteq {contents, file, Garbled}
  BY DEF Outcomes, Mixtures

LEMMA NoRowsSerialized ==
    Kept(NoRows) = NoRows /\ Serialized(NoRows) \in {NoRows, Blank}
<1>1. Kept(NoRows) \in Tables /\ DOMAIN Kept(NoRows) = {}
  BY KeptForm, NoRowsForm
<1>. QED
  BY <1>1, OnlyNoRows DEF Serialized

LEMMA BatchesAreGiven == Batches \subseteq Given
  BY FileAssumption DEF Given

LEMMA TypeInit == Init => TypeInv
<1>. SUFFICES ASSUME Init PROVE TypeInv
  OBVIOUS
<1>1. IsFormat(format) /\ users \subseteq Program /\ IsFiniteSet(users)
  BY FileAssumption DEF Init
<1>2. file \in Tables \cup {Missing, Blank, Garbled}
  BY DEF Init
<1>3. pc \in [Program -> Place]
  BY DEF Init, Place
<1>4. batch \in [Program -> Given] /\ seen \in [Program -> Tables]
  BY NoRowsForm DEF Init
<1>5. sets \in Nat /\ crashes \in Nat
  BY DEF Init
<1>6. expected \in [Query -> Content] /\ mixed \in BOOLEAN
  BY <1>1, <1>2, GetForm DEF Init
<1>. QED
  BY <1>1, <1>2, <1>3, <1>4, <1>5, <1>6 DEF TypeInv

LEMMA TypeStep == TypeInv /\ [Next]_vars => TypeInv'
<1>. SUFFICES ASSUME TypeInv, [Next]_vars PROVE TypeInv'
  OBVIOUS
<1>1. CASE UNCHANGED vars
  BY <1>1 DEF TypeInv, vars, setup, IsFormat
<1>2. ASSUME NEW p \in Program, NEW configs \in Batches, Start(p, configs)
      PROVE  TypeInv'
  BY <1>2, BatchesAreGiven DEF TypeInv, Start, Goto, Place, setup, IsFormat
<1>3. ASSUME NEW p \in Program, Access(p)
      PROVE  TypeInv'
  BY <1>3 DEF TypeInv, Access, Goto, Place, setup, IsFormat
<1>4. ASSUME NEW p \in Program, OpenFile(p)
      PROVE  TypeInv'
  BY <1>4 DEF TypeInv, OpenFile, Goto, Place, setup, IsFormat
<1>5. ASSUME NEW p \in Program, Initialise(p)
      PROVE  TypeInv'
  <2>1. Serialized(NoRows) \in Tables \cup {Blank}
    BY SerializedForm, NoRowsForm DEF TypeInv
  <2>2. file' \in {Serialized(NoRows), file, Garbled} \cup Tables /\ mixed' \in BOOLEAN
    BY <1>5, OutcomesForm DEF Initialise, Put
  <2>. QED
    BY <1>5, <2>1, <2>2 DEF TypeInv, Initialise, Goto, Place, setup, IsFormat
<1>6. ASSUME NEW p \in Program, ReadFile(p)
      PROVE  TypeInv'
  <2>1. Parses(file) => Parsed(file) \in Tables
    BY GetForm DEF TypeInv
  <2>2. seen' \in [Program -> Tables]
    BY <1>6, <2>1 DEF TypeInv, ReadFile
  <2>3. pc' \in [Program -> Place]
    BY <1>6 DEF TypeInv, ReadFile, Goto, Place
  <2>. QED
    BY <1>6, <2>2, <2>3 DEF TypeInv, ReadFile, setup, IsFormat
<1>7. ASSUME NEW p \in Program, WriteFile(p)
      PROVE  TypeInv'
  <2>. DEFINE rows == NextRows(batch[p], seen[p])
  <2>1. batch[p] \in Given /\ seen[p] \in Tables
    BY DEF TypeInv
  <2>2. Serialized(rows) \in Tables \cup {Blank}
    BY <2>1, NextRowsForm, SerializedForm DEF TypeInv
  <2>3. file' \in {Serialized(rows), file, Garbled} \cup Tables /\ mixed' \in BOOLEAN
    BY <1>7, OutcomesForm DEF WriteFile, Put, Written
  <2>4. \A q : ValueIn(Kept(rows), q) \in Content
    <3>1. Kept(rows) \in Tables
      BY <2>1, NextRowsForm, KeptForm
    <3>. QED
      BY <3>1, TableForm DEF ValueIn, Content
  <2>5. expected' \in [Query -> Content]
    BY <1>7, <2>4 DEF WriteFile, Written, TypeInv
  <2>6. pc' \in [Program -> Place]
    BY <1>7 DEF TypeInv, WriteFile, Goto, Place
  <2>. QED
    BY <1>7, <2>2, <2>3, <2>5, <2>6 DEF TypeInv, WriteFile, setup, IsFormat
<1>8. ASSUME NEW p \in Program, EndSet(p)
      PROVE  TypeInv'
  BY <1>8 DEF TypeInv, EndSet, Goto, Place, setup, IsFormat
<1>9. ASSUME NEW p \in Program, Crash(p)
      PROVE  TypeInv'
  BY <1>9 DEF TypeInv, Crash, Goto, Place, setup, IsFormat
<1>. QED
  BY <1>1, <1>2, <1>3, <1>4, <1>5, <1>6, <1>7, <1>8, <1>9 DEF Next

-----------------------------------------------------------------------------
(* Values. *)

LEMMA OfferedInit == Init => OnlyOffered
<1>. SUFFICES ASSUME Init PROVE OnlyOffered
  OBVIOUS
<1>1. TypeInv
  BY TypeInit
<1>2. ASSUME file \in Tables, NEW q \in DOMAIN file, file[q] \notin format.scalars
      PROVE  <<q, file[q]>> \in offered
  <2>1. Parses(file)
    BY <1>2, Distinct DEF Init
  <2>2. Get(file, q) = Readback(ValueIn(file, q))
    BY <1>1, <1>2, <2>1, GetForm DEF TypeInv
  <2>3. Get(file, q) = file[q]
    BY <1>2, <2>2 DEF ValueIn, Readback
  <2>4. q \in Query
    BY <1>2, TableForm
  <2>. QED
    BY <2>3, <2>4 DEF Init
<1>3. \A p \in Program : batch[p] = NoRows /\ seen[p] = NoRows
  BY DEF Init
<1>. QED
  BY <1>2, <1>3, NoRowsForm DEF OnlyOffered

LEMMA OfferedStep == TypeInv /\ OnlyOffered /\ [Next]_vars => OnlyOffered'
<1>. SUFFICES ASSUME TypeInv, OnlyOffered, [Next]_vars PROVE OnlyOffered'
  OBVIOUS
<1>1. CASE UNCHANGED vars
  BY <1>1 DEF OnlyOffered, vars, setup
<1>2. ASSUME NEW p \in Program, NEW configs \in Batches, Start(p, configs)
      PROVE  OnlyOffered'
  <2>1. /\ batch' = [batch EXCEPT ![p] = configs]
        /\ offered' = offered \cup {<<q, configs[q]>> : q \in DOMAIN configs}
        /\ UNCHANGED <<format, file, seen, mixed>>
    BY <1>2 DEF Start, setup
  <2>2. ASSUME NEW r \in Program
        PROVE  \A q \in DOMAIN batch'[r] : <<q, batch'[r][q]>> \in offered'
    <3>1. CASE r = p
      BY <2>1, <3>1 DEF TypeInv
    <3>2. CASE r # p
      BY <2>1, <3>2 DEF TypeInv, OnlyOffered
    <3>. QED
      BY <3>1, <3>2
  <2>. QED
    BY <2>1, <2>2 DEF OnlyOffered
<1>3. ASSUME NEW p \in Program,
             \/ Access(p) \/ EndSet(p) \/ Crash(p)
      PROVE  OnlyOffered'
  BY <1>3 DEF OnlyOffered, Access, EndSet, Crash, setup
<1>4. ASSUME NEW p \in Program, OpenFile(p)
      PROVE  OnlyOffered'
  BY <1>4, Distinct DEF OnlyOffered, OpenFile, setup
<1>5. ASSUME NEW p \in Program, Initialise(p)
      PROVE  OnlyOffered'
  <2>1. Serialized(NoRows) \in {NoRows, Blank}
    BY NoRowsSerialized
  <2>2. /\ ~mixed' => ~mixed /\ file' \in {NoRows, file, Blank, Garbled}
        /\ UNCHANGED <<format, batch, seen, offered>>
    BY <1>5, <2>1, OutcomesForm DEF Initialise, Put, setup
  <2>. QED
    BY <2>2, NoRowsForm, Distinct DEF OnlyOffered
<1>6. ASSUME NEW p \in Program, ReadFile(p)
      PROVE  OnlyOffered'
  <2>1. UNCHANGED <<format, file, batch, offered, mixed>>
    BY <1>6 DEF ReadFile, setup
  <2>2. CASE UNCHANGED seen
    BY <2>1, <2>2 DEF OnlyOffered
  <2>3. CASE Parses(file) /\ seen' = [seen EXCEPT ![p] = Parsed(file)]
    <3>1. ~mixed => \A q \in DOMAIN Parsed(file) : <<q, Parsed(file)[q]>> \in offered
      BY <2>3, GetForm DEF TypeInv, OnlyOffered
    <3>2. ASSUME NEW r \in Program, ~mixed
          PROVE  \A q \in DOMAIN seen'[r] : <<q, seen'[r][q]>> \in offered
      <4>1. CASE r = p
        BY <2>3, <3>1, <3>2, <4>1 DEF TypeInv
      <4>2. CASE r # p
        BY <2>3, <3>2, <4>2 DEF TypeInv, OnlyOffered
      <4>. QED
        BY <4>1, <4>2
    <3>. QED
      BY <2>1, <3>2 DEF OnlyOffered
  <2>. QED
    BY <1>6, <2>2, <2>3 DEF ReadFile
<1>7. ASSUME NEW p \in Program, WriteFile(p)
      PROVE  OnlyOffered'
  <2>. DEFINE rows == NextRows(batch[p], seen[p])
  <2>1. UNCHANGED <<format, batch, seen, offered>>
    BY <1>7 DEF WriteFile, setup
  <2>2. ~mixed' => ~mixed /\ file' \in {Kept(rows), file, Blank, Garbled}
    <3>. PICK contents : contents = Serialized(rows)
      OBVIOUS
    <3>1. contents \in {Kept(rows), Blank}
      BY DEF Serialized
    <3>2. file' \in Outcomes(contents) /\ (~mixed' => ~mixed /\ ("parsed" \notin format.mixture
                                                             \/ file = Blank))
      BY <1>7 DEF WriteFile, Put, Written
    <3>. HIDE DEF rows
    <3>. QED
      BY <3>1, <3>2, OutcomesForm
  <2>3. batch[p] \in Given /\ seen[p] \in Tables
    BY DEF TypeInv
  <2>4. ~mixed => \A q \in DOMAIN Kept(rows) : <<q, Kept(rows)[q]>> \in offered
    <3>1. ~mixed => \A q \in DOMAIN rows : <<q, rows[q]>> \in offered
      BY <2>3, NextRowsForm DEF OnlyOffered
    <3>2. rows \in Tables
      BY <2>3, NextRowsForm
    <3>. HIDE DEF rows
    <3>. QED
      BY <3>1, <3>2, KeptForm
  <2>. HIDE DEF rows
  <2>. QED
    BY <2>1, <2>2, <2>4, Distinct DEF OnlyOffered
<1>. QED
  BY <1>1, <1>2, <1>3, <1>4, <1>5, <1>6, <1>7 DEF Next

-----------------------------------------------------------------------------
(* Races. *)

(* Who is not raced after a step of p, but for Start, was alone with p. *)
LEMMA StaysUnraced ==
    ASSUME pc \in [Program -> Place], \A r \in Program : Unraced(r),
           NEW p \in Program, pc[p] # "idle",
           NEW stage \in Place, Goto(p, stage), UNCHANGED raced,
           NEW r \in Program, r \in Active' \ raced'
    PROVE  /\ r = p /\ p \in Active \ raced /\ Active = {p}
           /\ Active' = {p} /\ pc'[p] = stage
<1>1. pc' = [pc EXCEPT ![p] = stage]
  BY DEF Goto
<1>2. r \in Active \ raced /\ p \in Active
  BY <1>1 DEF Active
<1>3. Active = {r}
  BY <1>2 DEF Unraced
<1>4. r = p
  BY <1>2, <1>3
<1>5. Active' \subseteq Active
  BY <1>1 DEF Active
<1>. QED
  BY <1>1, <1>2, <1>3, <1>4, <1>5

LEMMA UnracedInit == Init => \A p \in Program : Unraced(p)
  BY DEF Init, Active, Unraced

LEMMA UnracedStep ==
    TypeInv /\ (\A p \in Program : Unraced(p)) /\ [Next]_vars
        => \A p \in Program : Unraced(p)'
<1>. SUFFICES ASSUME TypeInv, \A p \in Program : Unraced(p), [Next]_vars,
                     NEW r \in Program, r \in Active' \ raced'
              PROVE  /\ Active' = {r}
                     /\ pc'[r] = "create" => file' = Missing
                     /\ pc'[r] \in {"initialise", "write"} => file' = Blank
                     /\ pc'[r] \in {"ready", "read", "written"} => file' # Missing
                     /\ pc'[r] = "written" =>
                           file' = Serialized(NextRows(batch[r], seen[r]))'
  BY DEF Unraced
<1>0. pc \in [Program -> Place] /\ format' = format
  BY DEF TypeInv, Next, vars, setup, Start, Access, OpenFile, Initialise, ReadFile,
         WriteFile, EndSet, Crash
<1>1. CASE UNCHANGED vars
  <2>1. r \in Active \ raced /\ Active' = Active
    BY <1>1 DEF vars, Active
  <2>2. UNCHANGED <<file, pc, batch, seen>>
    BY <1>1 DEF vars
  <2>3. Serialized(NextRows(batch[r], seen[r]))' = Serialized(NextRows(batch[r], seen[r]))
    BY <1>0, <2>2 DEF Serialized, Kept, Shadowed, NextRows
  <2>. QED
    BY <2>1, <2>2, <2>3 DEF Unraced
<1>2. ASSUME NEW p \in Program, NEW configs \in Batches, Start(p, configs)
      PROVE  Active' = {r} /\ pc'[r] = "init"
  <2>1. /\ pc' = [pc EXCEPT ![p] = "init"]
        /\ raced' = (raced \ {p}) \cup Active \cup {s \in {p} : Active # {}}
    BY <1>2 DEF Start, Goto
  <2>2. Active' = Active \cup {p}
    BY <1>0, <2>1 DEF Active
  <2>3. r = p /\ Active = {}
    BY <2>1, <2>2
  <2>. QED
    BY <1>0, <2>1, <2>2, <2>3
<1>3. ASSUME NEW p \in Program, Access(p)
      PROVE  Active' = {r} /\ pc'[r] \in {"create", "ready"}
             /\ (pc'[r] = "create" <=> file' = Missing)
  <2>. DEFINE stage == IF file = Missing THEN "create" ELSE "ready"
  <2>1. pc[p] # "idle" /\ stage \in Place /\ Goto(p, stage) /\ UNCHANGED <<raced, file>>
    BY <1>3 DEF Access, Place
  <2>2. r = p /\ Active' = {p} /\ pc'[p] = stage
    BY <1>0, <2>1, StaysUnraced
  <2>. QED
    BY <2>1, <2>2
<1>4. ASSUME NEW p \in Program, OpenFile(p)
      PROVE  Active' = {r} /\ pc'[r] \in {"initialise", "write"} /\ file' = Blank
  <2>1. /\ UNCHANGED raced /\ file' = Blank /\ pc[p] # "idle"
        /\ Goto(p, "initialise") \/ Goto(p, "write")
    BY <1>4 DEF OpenFile
  <2>2. "initialise" \in Place /\ "write" \in Place
    BY DEF Place
  <2>3. CASE Goto(p, "initialise")
    BY <1>0, <2>1, <2>2, <2>3, StaysUnraced
  <2>4. CASE Goto(p, "write")
    BY <1>0, <2>1, <2>2, <2>4, StaysUnraced
  <2>. QED
    BY <2>1, <2>3, <2>4
<1>5. ASSUME NEW p \in Program, Initialise(p)
      PROVE  Active' = {r} /\ pc'[r] = "ready" /\ file' # Missing
  <2>1. /\ UNCHANGED raced /\ pc[p] = "initialise" /\ Goto(p, "ready") /\ "ready" \in Place
        /\ file' \in Outcomes(Serialized(NoRows))
    BY <1>5 DEF Initialise, Put, Place
  <2>2. r = p /\ p \in Active \ raced /\ Active' = {p} /\ pc'[p] = "ready"
    BY <1>0, <2>1, StaysUnraced
  <2>3. file = Blank
    BY <2>1, <2>2 DEF Unraced
  <2>4. file' \in {NoRows, Blank}
    BY <2>1, <2>3, OutcomesForm, NoRowsSerialized
  <2>. QED
    BY <2>2, <2>4, NoRowsForm, Distinct
<1>6. ASSUME NEW p \in Program, ReadFile(p)
      PROVE  Active' = {r} /\ pc'[r] = "read" /\ file' # Missing
  <2>1. /\ UNCHANGED <<raced, file>> /\ pc[p] = "ready"
        /\ Goto(p, "read") \/ Goto(p, "idle")
    BY <1>6 DEF ReadFile
  <2>2. "read" \in Place /\ "idle" \in Place
    BY DEF Place
  <2>3. CASE Goto(p, "idle")
    <3>1. r = p /\ Active' = {p} /\ pc'[p] = "idle"
      BY <1>0, <2>1, <2>2, <2>3, StaysUnraced
    <3>. QED
      BY <3>1 DEF Active
  <2>4. CASE Goto(p, "read")
    <3>1. r = p /\ p \in Active \ raced /\ Active' = {p} /\ pc'[p] = "read"
      BY <1>0, <2>1, <2>2, <2>4, StaysUnraced
    <3>2. file # Missing
      BY <2>1, <3>1 DEF Unraced
    <3>. QED
      BY <2>1, <3>1, <3>2
  <2>. QED
    BY <2>1, <2>3, <2>4
<1>7. ASSUME NEW p \in Program, WriteFile(p)
      PROVE  Active' = {r} /\ pc'[r] = "written" /\ file' # Missing
             /\ file' = Serialized(NextRows(batch[r], seen[r]))'
  <2>1. /\ UNCHANGED <<raced, batch, seen>> /\ pc[p] = "write"
        /\ Goto(p, "written") /\ "written" \in Place
        /\ file' \in Outcomes(Serialized(NextRows(batch[p], seen[p])))
    BY <1>7 DEF WriteFile, Put, Written, Place
  <2>2. r = p /\ p \in Active \ raced /\ Active' = {p} /\ pc'[p] = "written"
    BY <1>0, <2>1, StaysUnraced
  <2>3. file = Blank
    BY <2>1, <2>2 DEF Unraced
  <2>4. file' = Serialized(NextRows(batch[p], seen[p]))
    BY <2>1, <2>3, OutcomesForm
  <2>5. file' \in Tables \cup {Blank}
    BY <2>4, NextRowsForm, SerializedForm DEF TypeInv
  <2>6. Serialized(NextRows(batch[r], seen[r]))' = Serialized(NextRows(batch[p], seen[p]))
    BY <1>0, <2>1, <2>2 DEF Serialized, Kept, Shadowed, NextRows
  <2>. QED
    BY <2>2, <2>4, <2>5, <2>6, Distinct
<1>8. ASSUME NEW p \in Program, EndSet(p) \/ Crash(p)
      PROVE  FALSE
  <2>1. pc[p] # "idle" /\ Goto(p, "idle") /\ UNCHANGED raced /\ "idle" \in Place
    BY <1>8 DEF EndSet, Crash, Place
  <2>2. r = p /\ Active' = {p} /\ pc'[p] = "idle"
    BY <1>0, <2>1, StaysUnraced
  <2>. QED
    BY <2>2 DEF Active
<1>. QED
  BY <1>1, <1>2, <1>3, <1>4, <1>5, <1>6, <1>7, <1>8 DEF Next

(* Only who uses the file has a set under way. *)
LEMMA UsersInit == Init => Active \subseteq users
  BY DEF Init, Active

LEMMA UsersStep == TypeInv /\ Active \subseteq users /\ [Next]_vars => Active' \subseteq users'
<1>. SUFFICES ASSUME TypeInv, Active \subseteq users, [Next]_vars,
                     NEW r \in Program, pc'[r] # "idle"
              PROVE  r \in users'
  BY DEF Active
<1>1. users' = users /\ pc \in [Program -> Place]
  BY DEF TypeInv, Next, vars, setup, Start, Access, OpenFile, Initialise, ReadFile,
         WriteFile, EndSet, Crash
<1>2. pc[r] # "idle" \/ r \in users
  BY <1>1 DEF Next, vars, Start, Access, OpenFile, Initialise, ReadFile, WriteFile, EndSet,
         Crash, Goto
<1>. QED
  BY <1>1, <1>2 DEF Active

-----------------------------------------------------------------------------
(* One program. *)

LEMMA OneProgram ==
    ASSUME IsFiniteSet(users), Alone, Active \subseteq users, NEW p \in users
    PROVE  /\ users = {p}
           /\ \A r \in Program : r # p => pc[r] = "idle"
<1>1. \E u : users = {u}
  BY FS_Singleton DEF Alone
<1>. QED
  BY <1>1 DEF Active

LEMMA FaithfulForm ==
    ASSUME IsFormat(format), expected \in [Query -> Content], NEW q \in Query, NEW v,
           Faithful(v, q)
    PROVE  Readback(v) = Readback(expected[q]) \/ (Lost /\ Readback(v) = Empty)
<1>1. Readback(Readback(expected[q])) = Readback(expected[q])
  BY DEF Readback
<1>. QED
  BY <1>1, ReadbackForm DEF Faithful

LEMMA SoloInit == Init => Solo
<1>. SUFFICES ASSUME Init, Alone PROVE Solo
  BY DEF Solo
<1>1. TypeInv
  BY TypeInit
<1>2. /\ raced = {} /\ pc = [p \in Program |-> "idle"]
      /\ expected = [q \in Query |-> Get(file, q)]
  BY DEF Init
<1>3. file = Missing => \A q \in Query : expected[q] = Empty
  BY <1>1, <1>2, GetForm, Distinct DEF TypeInv, Parses
<1>4. \A q \in Query : Readback(Get(file, q)) = Get(file, q)
  BY <1>1, ReadbackForm, GetForm DEF TypeInv, Get, Parsed, Readback
<1>5. \A q \in Query : Faithful(Get(file, q), q)
  BY <1>2, <1>4 DEF Faithful
<1>6. \A p \in Program : pc[p] \notin {"initialise", "read", "write"}
  BY <1>2
<1>. QED
  BY <1>2, <1>3, <1>5, <1>6 DEF Solo

(* What has to be shown of a step of p, the only program. *)
LEMMA SoloAfter ==
    ASSUME NEW p \in Program, \A r \in Program : r # p => pc'[r] = "idle",
           raced' = {},
           file' = Missing \/ pc'[p] = "initialise" => \A q \in Query : expected'[q] = Empty,
           pc'[p] \in {"read", "write"} => \A q \in Query : Faithful(ValueIn(seen[p], q), q)',
           pc'[p] \notin {"initialise", "write"} /\ Parses(file)' =>
              \A q \in Query : Faithful(Get(file, q), q)'
    PROVE  Solo'
<1>1. \A r \in Program : pc'[r] = "initialise" \/ pc'[r] \in {"read", "write"} => r = p
  OBVIOUS
<1>2. Open' <=> pc'[p] \in {"initialise", "write"}
  BY <1>1 DEF Open
<1>3. \A r \in Program : pc'[r] \in {"read", "write"} =>
         \A q \in Query : Faithful(ValueIn(seen[r], q), q)'
  BY <1>1
<1>. QED
  BY <1>1, <1>2, <1>3 DEF Solo

LEMMA StaysFaithful ==
    ASSUME crashes \in Nat, crashes' \in Nat, crashes' >= crashes, format' = format,
           NEW q \in Query, expected'[q] = expected[q], NEW v, Faithful(v, q)
    PROVE  Faithful(v, q)'
  BY DEF Faithful, Lost, Readback

(* A step that leaves the file, what was read and what was stored alone. *)
LEMMA SoloSame ==
    ASSUME TypeInv, TypeInv', Solo, Alone, crashes' >= crashes,
           UNCHANGED <<format, file, seen, expected>>, raced' = {},
           NEW p \in Program, \A r \in Program : r # p => pc[r] = "idle" /\ pc'[r] = "idle",
           pc[p] \notin {"initialise", "write"},
           pc'[p] \in {"read", "write"} => pc[p] = "read",
           pc'[p] = "initialise" => file = Missing
    PROVE  Solo'
<1>1. ~Open
  BY DEF Open
<1>2. file = Missing => \A q \in Query : expected[q] = Empty
  BY DEF Solo
<1>3. pc[p] = "read" => \A q \in Query : Faithful(ValueIn(seen[p], q), q)
  BY DEF Solo
<1>4. Parses(file) => \A q \in Query : Faithful(Get(file, q), q)
  BY <1>1 DEF Solo
<1>5. \A q \in Query : \A v : Faithful(v, q) => Faithful(v, q)'
  BY StaysFaithful DEF TypeInv
<1>6. PICK contents : file = contents /\ file' = contents
  OBVIOUS
<1>7. PICK rows : seen[p] = rows /\ seen'[p] = rows
  OBVIOUS
<1>8. (Parses(file)' <=> Parses(file)) /\ \A q : Get(file, q)' = Get(file, q)
  BY DEF Parses, Get, Parsed
<1>9. pc'[p] \in {"read", "write"} => \A q \in Query : Faithful(ValueIn(seen[p], q), q)'
  <2>. SUFFICES ASSUME pc'[p] \in {"read", "write"}, NEW q \in Query
                PROVE  Faithful(ValueIn(seen[p], q), q)'
    OBVIOUS
  <2>1. Faithful(ValueIn(rows, q), q)
    BY <1>3, <1>7
  <2>2. Faithful(ValueIn(rows, q), q)'
    BY <1>5, <2>1
  <2>3. ValueIn(seen[p], q)' = ValueIn(rows, q)
    BY <1>7 DEF ValueIn
  <2>. QED
    BY <2>2, <2>3 DEF Faithful
<1>10. Parses(file)' => \A q \in Query : Faithful(Get(file, q), q)'
  <2>. SUFFICES ASSUME Parses(file)', NEW q \in Query
                PROVE  Faithful(Get(file, q), q)'
    OBVIOUS
  <2>1. Faithful(Get(file, q), q) /\ Get(file, q)' = Get(file, q)
    BY <1>4, <1>8
  <2>. PICK v : v = Get(file, q)
    OBVIOUS
  <2>2. Faithful(v, q)'
    BY <1>5, <2>1
  <2>. QED
    BY <2>1, <2>2 DEF Faithful
<1>. QED
  BY <1>2, <1>9, <1>10, SoloAfter

LEMMA SoloStep ==
    IInv /\ [Next]_vars => Solo'
<1>. SUFFICES ASSUME IInv, [Next]_vars, Alone' PROVE Solo'
  BY DEF Solo
<1>. USE DEF IInv
<1>0. TypeInv /\ TypeInv'
  BY TypeStep
<1>1. users' = users /\ format' = format /\ crashes' >= crashes
  BY <1>0 DEF TypeInv, Next, vars, setup, Start, Access, OpenFile, Initialise, ReadFile,
         WriteFile, EndSet, Crash
<1>2. Alone /\ IsFiniteSet(users) /\ raced = {} /\ Active \subseteq users
  BY <1>1 DEF Alone, Solo, TypeInv
<1>3. ASSUME NEW p \in Program, NEW s, pc[p] # "idle" \/ p \in users, Goto(p, s)
      PROVE  /\ pc'[p] = s /\ users = {p}
             /\ \A r \in Program : r # p => pc[r] = "idle" /\ pc'[r] = "idle"
             /\ pc[p] # "idle" => Unraced(p) /\ p \in Active \ raced
  <2>1. p \in users
    BY <1>2, <1>3 DEF Active
  <2>2. users = {p} /\ \A r \in Program : r # p => pc[r] = "idle"
    BY <1>2, <2>1, OneProgram
  <2>. QED
    BY <1>2, <1>3, <2>2 DEF Goto, TypeInv, Active
<1>4. CASE UNCHANGED vars
  BY <1>2, <1>4 DEF vars, setup, Solo, Alone, Open, Faithful, Lost, Readback, ValueIn, Get,
                    Parses, Parsed
<1>5. ASSUME NEW p \in Program, NEW configs \in Batches, Start(p, configs)
      PROVE  Solo'
  <2>1. /\ pc[p] = "idle" /\ p \in users /\ Goto(p, "init")
        /\ raced' = (raced \ {p}) \cup Active \cup {r \in {p} : Active # {}}
        /\ UNCHANGED <<format, file, seen, expected>>
    BY <1>5 DEF Start, setup
  <2>2. pc'[p] = "init" /\ \A r \in Program : r # p => pc[r] = "idle" /\ pc'[r] = "idle"
    BY <1>3, <2>1
  <2>3. Active = {}
    BY <2>1, <2>2 DEF Active
  <2>4. raced' = {}
    BY <1>2, <2>1, <2>3
  <2>. QED
    BY <1>0, <1>1, <1>2, <2>1, <2>2, <2>4, SoloSame
<1>6. ASSUME NEW p \in Program, Access(p)
      PROVE  Solo'
  <2>1. /\ pc[p] = "init" /\ Goto(p, IF file = Missing THEN "create" ELSE "ready")
        /\ UNCHANGED <<format, file, seen, expected, raced>>
    BY <1>6 DEF Access, setup
  <2>2. /\ pc'[p] \in {"create", "ready"}
        /\ \A r \in Program : r # p => pc[r] = "idle" /\ pc'[r] = "idle"
    BY <1>3, <2>1
  <2>. QED
    BY <1>0, <1>1, <1>2, <2>1, <2>2, SoloSame
<1>7. ASSUME NEW p \in Program, EndSet(p)
      PROVE  Solo'
  <2>1. /\ pc[p] = "written" /\ Goto(p, "idle")
        /\ UNCHANGED <<format, file, seen, expected, raced>>
    BY <1>7 DEF EndSet, setup
  <2>2. /\ pc'[p] = "idle"
        /\ \A r \in Program : r # p => pc[r] = "idle" /\ pc'[r] = "idle"
    BY <1>3, <2>1
  <2>. QED
    BY <1>0, <1>1, <1>2, <2>1, <2>2, SoloSame
<1>8. ASSUME NEW p \in Program, OpenFile(p)
      PROVE  Solo'
  <2>1. /\ \/ pc[p] = "create" /\ Goto(p, "initialise")
           \/ pc[p] = "read" /\ Goto(p, "write")
        /\ file' = Blank
        /\ UNCHANGED <<format, seen, expected, raced, crashes>>
    BY <1>8 DEF OpenFile, setup
  <2>2. /\ \A r \in Program : r # p => pc[r] = "idle" /\ pc'[r] = "idle"
        /\ Unraced(p) /\ p \in Active \ raced
    BY <1>3, <2>1
  <2>3. pc'[p] \in {"initialise", "write"} /\ (pc'[p] = "initialise" <=> pc[p] = "create")
    BY <1>3, <2>1
  <2>4. pc'[p] = "initialise" => file = Missing
    BY <2>2, <2>3 DEF Unraced
  <2>5. file' # Missing
    BY <2>1, Distinct
  <2>6. pc'[p] = "initialise" => \A q \in Query : expected'[q] = Empty
    BY <1>2, <2>1, <2>4 DEF Solo
  <2>7. ASSUME pc'[p] \in {"read", "write"}, NEW q \in Query
        PROVE  Faithful(ValueIn(seen[p], q), q)'
    <3>1. pc[p] = "read"
      BY <1>3, <2>1, <2>7
    <3>2. Faithful(ValueIn(seen[p], q), q)
      BY <1>2, <3>1 DEF Solo
    <3>. QED
      BY <2>1, <3>2 DEF Faithful, Lost, Readback, ValueIn
  <2>. QED
    BY <1>2, <2>1, <2>2, <2>3, <2>5, <2>6, <2>7, SoloAfter
<1>9. ASSUME NEW p \in Program, Initialise(p)
      PROVE  Solo'
  <2>1. /\ pc[p] = "initialise" /\ Goto(p, "ready")
        /\ file' \in Outcomes(Serialized(NoRows))
        /\ UNCHANGED <<format, seen, expected, raced, crashes>>
    BY <1>9 DEF Initialise, Put, setup
  <2>2. /\ \A r \in Program : r # p => pc[r] = "idle" /\ pc'[r] = "idle"
        /\ Unraced(p) /\ p \in Active \ raced /\ pc'[p] = "ready"
    BY <1>3, <2>1
  <2>3. file = Blank
    BY <2>1, <2>2 DEF Unraced
  <2>. DEFINE contents == Serialized(NoRows)
  <2>4. file' = contents
    BY <2>1, <2>3, OutcomesForm
  <2>5. contents \in Tables \cup {Blank}
    BY <1>0, NoRowsForm, SerializedForm DEF TypeInv
  <2>6. \A q \in Query : expected[q] = Empty
    BY <1>2, <2>1 DEF Solo
  <2>7. Parses(contents) => \A q : Get(contents, q) = Empty
    <3>1. Parses(contents) => \A q : Get(contents, q) = Readback(ValueIn(NoRows, q))
      BY <1>0, NoRowsForm, NoRowsSerialized, SerializedForm DEF TypeInv
    <3>2. \A q : ValueIn(NoRows, q) = Empty
      BY NoRowsForm DEF ValueIn
    <3>3. Readback(Empty) = Empty
      BY <1>0, ReadbackForm DEF TypeInv
    <3>. QED
      BY <3>1, <3>2, <3>3
  <2>8. file' # Missing
    BY <2>4, <2>5, Distinct
  <2>9. Parses(file)' => \A q \in Query : Faithful(Get(file, q), q)'
    <3>. HIDE DEF contents
    <3>1. (Parses(file)' <=> Parses(contents)) /\ \A q : Get(file, q)' = Get(contents, q)
      BY <2>1, <2>4, Rereads
    <3>2. \A q \in Query : Readback(expected[q])' = Empty
      <4>1. Empty \notin format'.scalars
        BY <1>0, FileAssumption DEF TypeInv, IsFormat
      <4>. QED
        BY <2>1, <2>6, <4>1 DEF Readback
    <3>. QED
      BY <2>7, <3>1, <3>2 DEF Faithful
  <2>. QED
    BY <1>2, <2>1, <2>2, <2>8, <2>9, SoloAfter
<1>10. ASSUME NEW p \in Program, ReadFile(p)
       PROVE  Solo'
  <2>1. /\ pc[p] = "ready" /\ UNCHANGED <<format, file, expected, raced, crashes>>
        /\ \/ Parses(file) /\ seen' = [seen EXCEPT ![p] = Parsed(file)] /\ Goto(p, "read")
           \/ Goto(p, "idle") /\ UNCHANGED seen
    BY <1>10 DEF ReadFile, setup
  <2>2. /\ \A r \in Program : r # p => pc[r] = "idle" /\ pc'[r] = "idle"
        /\ Unraced(p) /\ p \in Active \ raced
    BY <1>3, <2>1
  <2>3. CASE Goto(p, "idle") /\ UNCHANGED seen
    <3>1. pc'[p] = "idle"
      BY <1>3, <2>1, <2>3
    <3>. QED
      BY <1>0, <1>1, <1>2, <2>1, <2>2, <2>3, <3>1, SoloSame
  <2>4. CASE Parses(file) /\ seen' = [seen EXCEPT ![p] = Parsed(file)] /\ Goto(p, "read")
    <3>1. pc'[p] = "read"
      BY <1>3, <2>1, <2>4
    <3>2. ~Open
      BY <2>1, <2>2 DEF Open
    <3>3. \A q \in Query : Faithful(Get(file, q), q)
      BY <1>2, <2>4, <3>2 DEF Solo
    <3>4. \A q : ValueIn(Parsed(file), q) = Get(file, q)
      BY <1>0, <2>4, GetForm DEF TypeInv
    <3>5. seen'[p] = Parsed(file)
      BY <1>0, <2>4 DEF TypeInv
    <3>6. \A q \in Query : Faithful(ValueIn(seen[p], q), q)'
      <4>. SUFFICES ASSUME NEW q \in Query PROVE Faithful(ValueIn(seen[p], q), q)'
        OBVIOUS
      <4>1. ValueIn(seen[p], q)' = Get(file, q)
        BY <3>4, <3>5 DEF ValueIn
      <4>. QED
        BY <2>1, <3>3, <4>1 DEF Faithful, Lost, Readback
    <3>7. file' # Missing
      BY <2>1, <2>2 DEF Unraced
    <3>. QED
      <4>1. Parses(file)' => \A q \in Query : Faithful(Get(file, q), q)'
        BY <2>1, <3>3 DEF Faithful, Lost, Readback, Get, Parses, Parsed
      <4>. QED
        BY <1>2, <2>1, <2>2, <3>1, <3>6, <3>7, <4>1, SoloAfter
  <2>. QED
    BY <2>1, <2>3, <2>4
<1>11. ASSUME NEW p \in Program, WriteFile(p)
       PROVE  Solo'
  <2>. DEFINE rows == NextRows(batch[p], seen[p])
              contents == Serialized(rows)
  <2>1. /\ pc[p] = "write" /\ Goto(p, "written")
        /\ file' \in Outcomes(contents)
        /\ expected' = [q \in Query |-> IF q \in DOMAIN batch[p] \cup Shadowed(rows)
                                        THEN ValueIn(Kept(rows), q) ELSE expected[q]]
        /\ UNCHANGED <<format, seen, raced, crashes>>
    BY <1>11 DEF WriteFile, Put, Written, setup
  <2>2. /\ \A r \in Program : r # p => pc[r] = "idle" /\ pc'[r] = "idle"
        /\ Unraced(p) /\ p \in Active \ raced /\ pc'[p] = "written"
    BY <1>3, <2>1
  <2>3. file = Blank
    BY <2>1, <2>2 DEF Unraced
  <2>4. file' = contents
    BY <2>1, <2>3, OutcomesForm
  <2>5. batch[p] \in Given /\ seen[p] \in Tables
    BY <1>0 DEF TypeInv
  <2>6. contents \in Tables \cup {Blank}
    BY <1>0, <2>5, NextRowsForm, SerializedForm DEF TypeInv
  <2>7. file' # Missing
    BY <2>4, <2>6, Distinct
  <2>8. Parses(contents) => \A q : Get(contents, q) = Readback(ValueIn(Kept(rows), q))
    BY <1>0, <2>5, NextRowsForm, SerializedForm DEF TypeInv
  <2>9. \A q : q \notin DOMAIN batch[p] \cup Shadowed(rows) =>
                  ValueIn(Kept(rows), q) = ValueIn(seen[p], q)
    <3>1. /\ rows \in Tables
          /\ \A q : q \notin DOMAIN batch[p] => ValueIn(rows, q) = ValueIn(seen[p], q)
      BY <2>5, NextRowsForm
    <3>. HIDE DEF rows
    <3>. QED
      BY <3>1, KeptForm
  <2>10. ASSUME NEW q \in Query
         PROVE  \/ Readback(ValueIn(Kept(rows), q)) = Readback(expected'[q])
                \/ Lost /\ Readback(ValueIn(Kept(rows), q)) = Empty
    <3>1. CASE q \in DOMAIN batch[p] \cup Shadowed(rows)
      BY <2>1, <3>1
    <3>2. CASE q \notin DOMAIN batch[p] \cup Shadowed(rows)
      <4>1. ValueIn(Kept(rows), q) = ValueIn(seen[p], q) /\ expected'[q] = expected[q]
        BY <2>1, <2>9, <3>2
      <4>2. Faithful(ValueIn(seen[p], q), q)
        BY <1>2, <2>1 DEF Solo
      <4>. QED
        BY <1>0, <4>1, <4>2, FaithfulForm DEF TypeInv
    <3>. QED
      BY <3>1, <3>2
  <2>11. Parses(file)' => \A q \in Query : Faithful(Get(file, q), q)'
    <3>. SUFFICES ASSUME Parses(file)', NEW q \in Query PROVE Faithful(Get(file, q), q)'
      OBVIOUS
    <3>. HIDE DEF contents
    <3>1. (Parses(file)' <=> Parses(contents)) /\ Get(file, q)' = Get(contents, q)
      BY <2>1, <2>4, Rereads
    <3>2. Get(file, q)' = Readback(ValueIn(Kept(rows), q))
      BY <2>8, <3>1
    <3>3. Readback(expected[q])' = Readback(expected'[q]) /\ Lost' = Lost
      BY <2>1 DEF Readback, Lost
    <3>. HIDE DEF rows
    <3>. QED
      BY <2>10, <3>2, <3>3 DEF Faithful
  <2>. QED
    BY <1>2, <2>1, <2>2, <2>7, <2>11, SoloAfter
<1>12. ASSUME NEW p \in Program, Crash(p)
       PROVE  Solo'
  <2>1. /\ pc[p] # "idle" /\ Goto(p, "idle") /\ crashes' = crashes + 1
        /\ UNCHANGED <<format, file, seen, expected, raced>>
    BY <1>12 DEF Crash, setup
  <2>2. /\ \A r \in Program : r # p => pc[r] = "idle" /\ pc'[r] = "idle"
        /\ Unraced(p) /\ p \in Active \ raced /\ pc'[p] = "idle"
    BY <1>3, <2>1
  <2>3. CASE pc[p] \notin {"initialise", "write"}
    BY <1>0, <1>1, <1>2, <2>1, <2>2, <2>3, SoloSame
  <2>4. CASE pc[p] \in {"initialise", "write"}
    <3>1. file = Blank /\ file' = Blank
      BY <2>1, <2>2, <2>4 DEF Unraced
    <3>2. Parses(Blank) => format.blankParses
      BY Distinct DEF Parses
    <3>3. (Parses(file)' <=> Parses(Blank)) /\ \A q : Get(file, q)' = Get(Blank, q)
      BY <2>1, <3>1, Rereads
    <3>4. \A q : Get(Blank, q) = Empty
      BY <1>0, GetForm DEF TypeInv
    <3>5. Parses(file)' => \A q \in Query : Faithful(Get(file, q), q)'
      BY <1>0, <2>1, <3>2, <3>3, <3>4 DEF Faithful, Lost, TypeInv
    <3>. QED
      BY <1>2, <2>1, <2>2, <3>1, <3>5, SoloAfter, Distinct
  <2>. QED
    BY <2>3, <2>4
<1>. QED
  BY <1>4, <1>5, <1>6, <1>7, <1>8, <1>9, <1>10, <1>11, <1>12 DEF Next

(* In every reachable state the file and what was read from it hold what   *)
(* was given, whoever runs unraced finds the file as it left it, and one   *)
(* program on its own reads what its sets have stored.                     *)
THEOREM Invariant == Spec => []IInv
<1>1. Init => IInv
  BY TypeInit, UsersInit, OfferedInit, UnracedInit, SoloInit DEF IInv
<1>2. IInv /\ [Next]_vars => IInv'
  BY TypeStep, UsersStep, OfferedStep, UnracedStep, SoloStep DEF IInv
<1>. QED
  BY <1>1, <1>2, PTL DEF Spec

-----------------------------------------------------------------------------

(* A readable file never yields, for a set and a key, a value that was     *)
(* neither there at first nor given to some set for that set and key,      *)
(* whatever programs raced or crashed half-way through FileConfigStore.set,*)
(* unless two of their writes overlapped in a format that may parse what   *)
(* such writes leave.                                                      *)
THEOREM ReadsWereOffered == Spec => []ValuesStayHome
<1>1. IInv => ValuesStayHome
  <2>. SUFFICES ASSUME IInv, ~mixed, NEW q \in Query, Get(file, q) # Empty
                PROVE  <<q, Get(file, q)>> \in offered
    BY DEF ValuesStayHome
  <2>1. Parses(file) /\ q \in DOMAIN Parsed(file) /\ Get(file, q) = Parsed(file)[q]
    BY DEF Get
  <2>2. /\ file \in Tables /\ q \in DOMAIN file
        /\ Parsed(file)[q] \notin format.scalars /\ Parsed(file)[q] = file[q]
    BY <2>1, GetForm DEF IInv, TypeInv
  <2>. QED
    BY <2>1, <2>2 DEF IInv, OnlyOffered
<1>. QED
  BY <1>1, Invariant, PTL

(* Whoever is the only one to use a file reads from it what its last set   *)
(* stored; what a crash has taken away is read as no config, and that only *)
(* where parse takes an empty file for an empty one.                       *)
THEOREM CrashShows == Spec => []CrashIsNoticed
<1>1. IInv => CrashIsNoticed
  <2>. SUFFICES ASSUME IInv, Alone, file = Missing \/ Parses(file), NEW q \in Query
                PROVE  \/ Get(file, q) = Readback(expected[q])
                       \/ /\ format.blankParses /\ (Open \/ crashes > 0)
                          /\ Get(file, q) = Empty
    BY DEF CrashIsNoticed
  <2>. USE DEF IInv
  <2>1. CASE file = Missing
    <3>1. expected[q] = Empty /\ Readback(Empty) = Empty
      BY <2>1, ReadbackForm DEF Solo, TypeInv
    <3>2. Get(file, q) = Empty
      BY <2>1, GetForm, Distinct DEF TypeInv, Parses
    <3>. QED
      BY <3>1, <3>2
  <2>2. CASE Parses(file) /\ ~Open
    BY <2>2 DEF Solo, Faithful, Lost
  <2>3. CASE Parses(file) /\ Open
    <3>1. PICK p \in Program : pc[p] \in {"initialise", "write"}
      BY <2>3 DEF Open
    <3>2. p \in Active \ raced
      BY <3>1 DEF Active, Solo
    <3>3. file = Blank
      BY <3>1, <3>2 DEF Unraced
    <3>4. format.blankParses /\ Get(file, q) = Empty
      BY <2>3, <3>3, GetForm, Distinct DEF TypeInv, Parses
    <3>. QED
      BY <2>3, <3>4
  <2>. QED
    BY <2>1, <2>2, <2>3
<1>. QED
  BY <1>1, Invariant, PTL

(* A set that ran without another on the same file, once it resolves, has  *)
(* stored its configs, read back as the format allows.  The exceptions are *)
(* an XML file left with one config, which cannot be parsed again, and in  *)
(* INI and TOML a root key that has the name of a set.                     *)
THEOREM ResolvedIsStored == Spec => AckedIsStored
<1>1. ASSUME IInv, NEW p \in Program \ raced, pc[p] = "written"
      PROVE  \/ /\ Parses(file)
                /\ \A q \in DOMAIN batch[p] \ Shadowed(Written(p)) :
                      Get(file, q) = Readback(batch[p][q])
             \/ format.singleBreaks /\ Cardinality(DOMAIN Kept(Written(p))) = 1
  <2>. DEFINE rows == NextRows(batch[p], seen[p])
  <2>1. p \in Active \ raced
    BY <1>1 DEF Active
  <2>2. file = Serialized(rows) /\ Written(p) = rows
    BY <1>1, <2>1 DEF IInv, Unraced, Written
  <2>3. rows \in Tables
        /\ \A q \in DOMAIN batch[p] : ValueIn(rows, q) = batch[p][q]
    BY <1>1, NextRowsForm DEF IInv, TypeInv
  <2>. HIDE DEF rows
  <2>4. /\ Parses(file) \/ (format.singleBreaks /\ Cardinality(DOMAIN Kept(rows)) = 1)
        /\ Parses(file) => \A q : Get(file, q) = Readback(ValueIn(Kept(rows), q))
    BY <1>1, <2>2, <2>3, SerializedForm DEF IInv, TypeInv
  <2>5. \A q \in DOMAIN batch[p] \ Shadowed(rows) : ValueIn(Kept(rows), q) = batch[p][q]
    BY <2>3, KeptForm
  <2>. QED
    BY <2>2, <2>4, <2>5
<1>2. IInv => [\A p \in Program \ raced :
                  pc[p] = "written" /\ pc'[p] = "idle" /\ crashes' = crashes =>
                      \/ /\ Parses(file)
                         /\ \A q \in DOMAIN batch[p] \ Shadowed(Written(p)) :
                               Get(file, q) = Readback(batch[p][q])
                      \/ format.singleBreaks
                         /\ Cardinality(DOMAIN Kept(Written(p))) = 1]_vars
  BY <1>1
<1>. QED
  BY <1>2, Invariant, PTL DEF AckedIsStored

-----------------------------------------------------------------------------
(* One program's file is a ConfigStore. *)

BarStore == [q \in Query |-> IF Open \/ ~Parses(file) THEN expected[q] ELSE Get(file, q)]

BarPending ==
    [p \in Program |-> IF p \in Active /\ pc[p] # "written" THEN batch[p] ELSE NoRows]

(* Where one program reads what it stored. *)
Exact == Alone /\ format.scalars = {} /\ ~Lost

LEMMA StoreIsExpected == IInv => (Exact => BarStore = expected)
<1>. SUFFICES ASSUME IInv, Exact PROVE BarStore = expected
  OBVIOUS
<1>1. expected \in [Query -> Content]
  BY DEF IInv, TypeInv
<1>2. ASSUME NEW q \in Query, ~Open, Parses(file) PROVE Get(file, q) = expected[q]
  BY <1>2 DEF IInv, Solo, Exact, Faithful, Readback
<1>. QED
  BY <1>1, <1>2 DEF BarStore

LEMMA StoreIsExpectedNext == IInv' => (Exact' => BarStore' = expected')
<1>1. IInv' => (Exact => BarStore = expected)'
  BY StoreIsExpected, PTL
<1>. QED
  BY <1>1

LEMMA NoBatchForm == Abstract!NoBatch = NoRows
  BY DEF Abstract!NoBatch, NoRows

(* A step of p changes what is under way for p only. *)
LEMMA PendingForm ==
    ASSUME pc \in [Program -> Place], batch \in [Program -> Given], NEW p \in Program,
           NEW stage \in Place, NEW b \in Given, Goto(p, stage), batch' = [batch EXCEPT ![p] = b]
    PROVE  /\ stage = "idle" => Active' = Active \ {p}
           /\ stage # "idle" => Active' = Active \cup {p}
           /\ stage \in {"idle", "written"} => BarPending' = [BarPending EXCEPT ![p] = NoRows]
           /\ stage \notin {"idle", "written"} => BarPending' = [BarPending EXCEPT ![p] = b]
<1>1. pc' = [pc EXCEPT ![p] = stage]
  BY DEF Goto
<1>2. \A r \in Program : pc'[r] = (IF r = p THEN stage ELSE pc[r])
  BY <1>1
<1>3. \A r \in Program : batch'[r] = (IF r = p THEN b ELSE batch[r])
  OBVIOUS
<1>4. \A r \in Program : r \in Active <=> pc[r] # "idle"
  BY DEF Active
<1>5. \A r \in Program : r \in Active' <=> pc'[r] # "idle"
  BY DEF Active
<1>6. Active \subseteq Program /\ Active' \subseteq Program
  BY DEF Active
<1>7. /\ stage = "idle" => Active' = Active \ {p}
      /\ stage # "idle" => Active' = Active \cup {p}
  BY <1>2, <1>4, <1>5, <1>6
<1>8. BarPending' =
         [r \in Program |-> IF r \in Active' /\ pc'[r] # "written" THEN batch'[r] ELSE NoRows]
  BY DEF BarPending, NoRows
<1>9. \A r \in Program \ {p} : BarPending'[r] = BarPending[r]
  BY <1>2, <1>3, <1>4, <1>5, <1>8 DEF BarPending
<1>10. BarPending'[p] = IF stage \in {"idle", "written"} THEN NoRows ELSE b
  BY <1>2, <1>3, <1>5, <1>8
<1>11. /\ BarPending \in [Program -> {BarPending[r] : r \in Program}]
       /\ BarPending' = [r \in Program |-> BarPending'[r]]
       /\ BarPending = [r \in Program |-> BarPending[r]]
  BY <1>8 DEF BarPending
<1>12. BarPending' = [BarPending EXCEPT ![p] = BarPending'[p]]
  BY <1>9, <1>11
<1>. QED
  BY <1>7, <1>10, <1>12

LEMMA SubmitIsNext ==
    ASSUME NEW p \in Program, NEW b \in Abstract!Batch, BarPending'[p] = b,
           Abstract!Submit(p, b)
    PROVE  Abstract!StoreNext
  BY DEF Abstract!StoreNext, Abstract!Submit, BarPending

LEMMA ApplyIsNext ==
    ASSUME NEW p \in Program, NEW D \in SUBSET DOMAIN BarPending[p], Abstract!Apply(p, D)
    PROVE  Abstract!StoreNext
<1>1. D \in SUBSET DOMAIN [r \in Program |->
         IF r \in Active /\ pc[r] # "written" THEN batch[r] ELSE NoRows][p]
  BY DEF BarPending
<1>. QED
  BY <1>1 DEF Abstract!StoreNext

LEMMA StepIsStep ==
    ASSUME IInv, IInv', [Next]_vars, Alone, format.scalars = {},
           format.blankParses => crashes' = 0, ~Shadows
    PROVE  Abstract!StoreNext \/ UNCHANGED Abstract!storeVars
<1>. USE DEF IInv
<1>0. /\ TypeInv /\ TypeInv' /\ users' = users /\ format' = format /\ crashes' >= crashes
      /\ pc \in [Program -> Place] /\ batch \in [Program -> Given]
  BY DEF TypeInv, Next, vars, setup, Start, Access, OpenFile, Initialise, ReadFile,
         WriteFile, EndSet, Crash
<1>1. Exact /\ Exact'
  BY <1>0 DEF Exact, Alone, Lost, TypeInv
<1>2. BarStore = expected /\ BarStore' = expected'
  BY <1>1, StoreIsExpected, StoreIsExpectedNext
<1>3. \A p \in Program :
         batch[p] \in Given /\ batch' = batch => batch' = [batch EXCEPT ![p] = batch[p]]
  BY <1>0
<1>4. \A p \in Program :
         BarPending[p] = IF p \in Active /\ pc[p] # "written" THEN batch[p] ELSE NoRows
  BY DEF BarPending
<1>5. /\ BarPending = [p \in Program |-> BarPending[p]]
      /\ \A p \in Program : p \in Active <=> pc[p] # "idle"
  BY DEF BarPending, Active
<1>6. ASSUME UNCHANGED <<BarStore, Active, BarPending>> PROVE UNCHANGED Abstract!storeVars
  BY <1>6 DEF Abstract!storeVars, BarStore, BarPending
<1>7. CASE UNCHANGED vars
  BY <1>6, <1>7 DEF vars, setup, BarStore, BarPending, Open, Parses, Get, Parsed, Active
<1>8. ASSUME NEW p \in Program, NEW configs \in Batches, Start(p, configs)
      PROVE  Abstract!StoreNext
  <2>1. /\ pc[p] = "idle" /\ Goto(p, "init") /\ batch' = [batch EXCEPT ![p] = configs]
        /\ expected' = expected /\ configs \in Given
    BY <1>8, BatchesAreGiven DEF Start
  <2>2. Active' = Active \cup {p} /\ BarPending' = [BarPending EXCEPT ![p] = configs]
    BY <1>0, <2>1, PendingForm DEF Place
  <2>3. p \notin Active /\ BarPending'[p] = configs /\ configs \in Abstract!Batch
    BY <1>5, <2>1, <2>2 DEF Abstract!Batch, Given
  <2>4. Abstract!Submit(p, configs)
    BY <1>2, <2>1, <2>2, <2>3 DEF Abstract!Submit, BarStore, BarPending
  <2>. QED
    BY <2>3, <2>4, SubmitIsNext
<1>9. ASSUME NEW p \in Program, NEW stage \in Place \ {"idle", "written"},
             pc[p] \notin {"idle", "written"}, Goto(p, stage), UNCHANGED <<batch, expected>>
      PROVE  UNCHANGED Abstract!storeVars
  <2>1. Active' = Active \cup {p} /\ BarPending' = [BarPending EXCEPT ![p] = batch[p]]
    BY <1>0, <1>3, <1>9, PendingForm
  <2>2. p \in Active /\ BarPending[p] = batch[p]
    BY <1>4, <1>5, <1>9
  <2>. QED
    BY <1>2, <1>5, <1>6, <1>9, <2>1, <2>2
<1>10. ASSUME NEW p \in Program, pc[p] # "idle", Goto(p, "idle"), UNCHANGED <<batch, expected>>
       PROVE  /\ p \in Active /\ Active' = Active \ {p}
              /\ BarStore' = BarStore /\ BarPending' = [BarPending EXCEPT ![p] = NoRows]
  BY <1>0, <1>2, <1>3, <1>5, <1>10, PendingForm DEF Place
<1>11. ASSUME NEW p \in Program, pc[p] # "idle", Goto(p, "idle"), UNCHANGED <<batch, expected>>
       PROVE  Abstract!StoreNext
  <2>1. Abstract!Reject(p, {})
    BY <1>10, <1>11, NoBatchForm DEF Abstract!Reject, BarStore, BarPending
  <2>. QED
    BY <2>1 DEF Abstract!StoreNext
<1>12. ASSUME NEW p \in Program, ReadFile(p)
       PROVE  Abstract!StoreNext \/ UNCHANGED Abstract!storeVars
  <2>1. /\ pc[p] = "ready"
        /\ Goto(p, "read") \/ Goto(p, "idle")
        /\ UNCHANGED <<batch, expected>>
    BY <1>12 DEF ReadFile
  <2>2. CASE Goto(p, "read")
    BY <1>9, <2>1, <2>2 DEF Place
  <2>3. CASE Goto(p, "idle")
    BY <1>11, <2>1, <2>3
  <2>. QED
    BY <2>1, <2>2, <2>3
<1>13. ASSUME NEW p \in Program, WriteFile(p)
       PROVE  Abstract!StoreNext \/ UNCHANGED Abstract!storeVars
  <2>0. /\ pc[p] = "write" /\ Goto(p, "written") /\ UNCHANGED batch
        /\ expected' = [q \in Query |-> IF q \in DOMAIN batch[p] \cup Shadowed(Written(p))
                                        THEN ValueIn(Kept(Written(p)), q) ELSE expected[q]]
    BY <1>13 DEF WriteFile
  <2>1. expected' = [q \in Query |-> IF q \in DOMAIN batch[p] THEN batch[p][q] ELSE expected[q]]
    <3>1. pc'[p] = "written"
      BY <1>0, <2>0 DEF Goto
    <3>2. Shadowed(Written(p)) = {}
      BY <2>0, <3>1 DEF Shadows
    <3>3. Written(p) \in Tables
          /\ \A q \in DOMAIN batch[p] : ValueIn(Written(p), q) = batch[p][q]
      BY <1>0, NextRowsForm DEF Written, TypeInv
    <3>4. \A q \in DOMAIN batch[p] : ValueIn(Kept(Written(p)), q) = batch[p][q]
      BY <3>2, <3>3, KeptForm
    <3>. QED
      BY <2>0, <3>2, <3>4
  <2>2. Active' = Active \cup {p} /\ BarPending' = [BarPending EXCEPT ![p] = NoRows]
    BY <1>0, <1>3, <2>0, PendingForm DEF Place
  <2>3. p \in Active /\ BarPending[p] = batch[p] /\ Active' = Active
    BY <1>4, <1>5, <2>0, <2>2
  <2>4. expected \in [Query -> Content]
    BY <1>0 DEF TypeInv
  <2>5. CASE DOMAIN batch[p] = {}
    <3>1. batch[p] = NoRows
      BY <1>0, <2>5, OnlyNoRows
    <3>2. expected' = expected
      BY <2>1, <2>4, <2>5
    <3>3. BarPending' = BarPending
      BY <1>5, <2>2, <2>3, <3>1
    <3>. QED
      BY <1>2, <1>6, <2>3, <3>2, <3>3
  <2>6. CASE DOMAIN batch[p] # {}
    <3>. PICK D : D = DOMAIN batch[p]
      OBVIOUS
    <3>1. BarStore' = Abstract!Override(BarStore, Abstract!Only(BarPending[p], D))
      BY <1>2, <2>1, <2>3, <2>4 DEF Abstract!Override, Abstract!Only
    <3>2. Abstract!Without(BarPending[p], D) = NoRows
      BY <2>3 DEF Abstract!Without, NoRows
    <3>3. Abstract!Apply(p, D)
      BY <2>2, <2>3, <2>6, <3>1, <3>2 DEF Abstract!Apply, BarStore, BarPending
    <3>4. D \in SUBSET DOMAIN BarPending[p]
      BY <2>3
    <3>. QED
      BY <3>3, <3>4, ApplyIsNext
  <2>. QED
    BY <2>5, <2>6
<1>14. ASSUME NEW p \in Program, EndSet(p)
       PROVE  Abstract!StoreNext
  <2>1. pc[p] = "written" /\ Goto(p, "idle") /\ UNCHANGED <<batch, expected>>
    BY <1>14 DEF EndSet
  <2>2. BarPending[p] = NoRows /\ BarPending' = BarPending
    BY <1>4, <1>5, <1>10, <2>1
  <2>3. Abstract!Resolve(p)
    BY <1>10, <2>1, <2>2, NoBatchForm DEF Abstract!Resolve, BarStore, BarPending
  <2>. QED
    BY <2>3 DEF Abstract!StoreNext
<1>15. ASSUME NEW p \in Program, Access(p) \/ OpenFile(p) \/ Initialise(p)
       PROVE  UNCHANGED Abstract!storeVars
  <2>1. PICK stage \in {"create", "ready", "initialise", "write"} :
          pc[p] \in {"init", "create", "read", "initialise"} /\ Goto(p, stage)
          /\ UNCHANGED <<batch, expected>>
    BY <1>15 DEF Access, OpenFile, Initialise
  <2>. QED
    BY <1>9, <2>1 DEF Place
<1>16. ASSUME NEW p \in Program, Crash(p)
       PROVE  Abstract!StoreNext
  BY <1>11, <1>16 DEF Crash
<1>. QED
  BY <1>7, <1>8, <1>12, <1>13, <1>14, <1>15, <1>16 DEF Next

(* A program alone on a file of a format that gives every value back has a *)
(* ConfigStore in it: FileConfigStore.set takes effect when fs.writeFile   *)
(* has written, all at once, and one that fails or crashes changes nothing.*)
(* Excepted are a crash where the empty file it leaves parses, and a write *)
(* to INI or TOML of a root key and a set of the same name.                *)
THEOREM FileStoreIsConfigStore == Spec => ImplementsConfigStore
<1>1. Init => Abstract!StoreInit
  <2>. SUFFICES ASSUME Init PROVE Abstract!StoreInit
    OBVIOUS
  <2>1. TypeInv /\ Active = {}
    BY TypeInit DEF Init, Active
  <2>2. BarStore \in [Query -> Content]
    BY <2>1, GetForm DEF BarStore, TypeInv
  <2>3. BarPending = [p \in Program |-> NoRows]
    BY <2>1 DEF BarPending
  <2>. QED
    BY <2>1, <2>2, <2>3, NoBatchForm DEF Abstract!StoreInit, BarStore, BarPending
<1>2. IInv /\ IInv' /\ [Next]_vars =>
         [Alone /\ format.scalars = {} /\ (format.blankParses => crashes' = 0) /\ ~Shadows
            => Abstract!StoreNext]_Abstract!storeVars
  BY StepIsStep
<1>. QED
  BY <1>1, <1>2, Invariant, PTL DEF Spec, ImplementsConfigStore

=============================================================================
