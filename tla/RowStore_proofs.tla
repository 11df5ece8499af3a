--------------------------- MODULE RowStore_proofs ---------------------------
(***************************************************************************)
(* Proofs about RowStore, for any number of programs, configs, calls and   *)
(* failures.                                                               *)
(***************************************************************************)
EXTENDS RowStore, TLAPS, FiniteSetTheorems

(* A config is in one statement of a set only. *)
Disjoint(statements) ==
    \A i, j \in DOMAIN statements :
        i # j => DOMAIN statements[i] \cap DOMAIN statements[j] = {}

TypeInv ==
    /\ kind \in {"database", "settings", "platform"}
    /\ rows \in [Ids -> (Query \X Value) \cup {NoRow}]
    /\ busy \subseteq Client
    /\ todo \in [Client -> Seq(Configs)]
    /\ late \subseteq Configs
    /\ offered \subseteq Configs
    /\ lost \in Nat
    /\ \A c \in Client : Disjoint(todo[c]) /\ (c \notin busy => todo[c] = <<>>)

(* The statements that upsert nothing, or all that a batch given to        *)
(* store.set upserts.                                                      *)
Whole ==
    {s \in Configs :
        Upserts(s) = Nothing \/ \E batch \in offered : Upserts(s) = Upserts(batch)}

IInv ==
    /\ TypeInv
    /\ kind # "settings" =>
          /\ \A c \in Client : \A i \in DOMAIN todo[c] : todo[c][i] \in Whole
          /\ late \subseteq Whole

-----------------------------------------------------------------------------
(* Configs and statements.                                                 *)

LEMMA ConfigsFacts ==
    ASSUME NEW f \in Configs
    PROVE  /\ DOMAIN f \subseteq Query
           /\ \A q \in DOMAIN f : f[q] \in Content
           /\ f = [q \in DOMAIN f |-> f[q]]
BY DEF Configs

LEMMA ConfigsIntro ==
    ASSUME NEW D \in SUBSET Query, NEW f \in [D -> Content]
    PROVE  f \in Configs
BY DEF Configs

LEMMA PartsFacts ==
    ASSUME NEW batch \in Configs
    PROVE  /\ Deletions(batch) \in Configs /\ Upserts(batch) \in Configs
           /\ DOMAIN Deletions(batch) \cap DOMAIN Upserts(batch) = {}
           /\ Upserts(Deletions(batch)) = Nothing
           /\ Upserts(Upserts(batch)) = Upserts(batch)
<1>. DEFINE D == {p \in DOMAIN batch : batch[p] = Empty}
            U == {p \in DOMAIN batch : batch[p] # Empty}
<1>1. /\ DOMAIN batch \subseteq Query
      /\ \A q \in DOMAIN batch : batch[q] \in Content
      /\ Empty \in Content
  BY ConfigsFacts DEF Content
<1>2. Deletions(batch) = [q \in D |-> Empty] /\ Upserts(batch) = [q \in U |-> batch[q]]
  BY DEF Deletions, Upserts
<1>3. /\ Deletions(batch) \in [D -> Content] /\ Upserts(batch) \in [U -> Content]
      /\ D \in SUBSET Query /\ U \in SUBSET Query
  BY <1>1, <1>2
<1>4. Upserts(Deletions(batch)) = Nothing
  <2>1. {p \in DOMAIN Deletions(batch) : Deletions(batch)[p] # Empty} = {}
    BY <1>2
  <2>. QED
    BY <2>1 DEF Upserts, Nothing
<1>5. Upserts(Upserts(batch)) = Upserts(batch)
  <2>1. {p \in DOMAIN Upserts(batch) : Upserts(batch)[p] # Empty} = DOMAIN Upserts(batch)
    BY <1>2
  <2>2. Upserts(Upserts(batch)) = [q \in DOMAIN Upserts(batch) |-> Upserts(batch)[q]]
    BY <2>1 DEF Upserts
  <2>. QED
    BY <1>2, <2>2
<1>. QED
  BY <1>2, <1>3, <1>4, <1>5, ConfigsIntro

(* The statements of a set are configs, and apart.                         *)
LEMMA StatementsFacts ==
    ASSUME NEW batch \in Configs, IsFiniteSet(DOMAIN batch), NEW statements \in Statements(batch),
           kind \in {"database", "settings", "platform"}
    PROVE  /\ statements \in Seq(Configs)
           /\ Disjoint(statements)
           /\ kind # "settings" =>
                 \A i \in DOMAIN statements :
                    \/ Upserts(statements[i]) = Nothing
                    \/ Upserts(statements[i]) = Upserts(batch)
<1>1. CASE kind = "database"
  <2>. DEFINE d == Deletions(batch)
              u == Upserts(batch)
  <2>1. /\ d \in Configs /\ u \in Configs /\ DOMAIN d \cap DOMAIN u = {}
        /\ Upserts(d) = Nothing /\ Upserts(u) = u
    BY PartsFacts
  <2>2. statements = Sent(d) \o Sent(u)
    BY <1>1 DEF Statements
  <2>. HIDE DEF d, u
  <2>3. CASE d = Nothing /\ u = Nothing
    <3>1. statements = <<>>
      BY <2>2, <2>3 DEF Sent
    <3>. QED
      BY <3>1 DEF Disjoint
  <2>4. CASE d = Nothing /\ u # Nothing
    <3>1. statements = <<u>>
      BY <2>2, <2>4 DEF Sent
    <3>. QED
      BY <2>1, <3>1 DEF Disjoint, u
  <2>5. CASE d # Nothing /\ u = Nothing
    <3>1. statements = <<d>>
      BY <2>2, <2>5 DEF Sent
    <3>. QED
      BY <2>1, <3>1 DEF Disjoint
  <2>6. CASE d # Nothing /\ u # Nothing
    <3>1. statements = <<d>> \o <<u>>
      BY <2>2, <2>6 DEF Sent
    <3>2. <<d>> \in Seq(Configs) /\ <<u>> \in Seq(Configs)
      BY <2>1
    <3>3. /\ statements \in Seq(Configs) /\ Len(statements) = 2
          /\ statements[1] = d /\ statements[2] = u
      BY <3>1, <3>2
    <3>. QED
      BY <2>1, <3>3 DEF Disjoint, u
  <2>. QED
    BY <2>3, <2>4, <2>5, <2>6
<1>2. CASE kind = "settings"
  <2>1. PICK order \in Orders(DOMAIN batch) :
           statements = [i \in DOMAIN order |-> [q \in {order[i]} |-> batch[q]]]
    BY <1>2 DEF Statements, OneByOne
  <2>2. /\ order \in [1..Cardinality(DOMAIN batch) -> DOMAIN batch]
        /\ \A i, j \in 1..Cardinality(DOMAIN batch) : order[i] = order[j] => i = j
    BY <2>1 DEF Orders
  <2>3. ASSUME NEW i \in DOMAIN order
        PROVE  statements[i] \in Configs /\ DOMAIN statements[i] = {order[i]}
    <3>1. order[i] \in DOMAIN batch
      BY <2>2, <2>3
    <3>2. order[i] \in Query /\ batch[order[i]] \in Content
      BY <3>1, ConfigsFacts
    <3>3. statements[i] = [q \in {order[i]} |-> batch[q]]
      BY <2>1, <2>3
    <3>4. statements[i] \in [{order[i]} -> Content] /\ {order[i]} \in SUBSET Query
      BY <3>2, <3>3
    <3>. QED
      BY <3>3, <3>4, ConfigsIntro
  <2>4. Disjoint(statements)
    BY <2>1, <2>2, <2>3 DEF Disjoint
  <2>5. statements \in [1..Cardinality(DOMAIN batch) -> Configs]
    BY <2>1, <2>2, <2>3
  <2>6. Cardinality(DOMAIN batch) \in Nat
    BY FS_CardinalityType
  <2>7. statements \in Seq(Configs)
    BY <2>5, <2>6
  <2>. QED
    BY <1>2, <2>4, <2>7
<1>3. CASE kind = "platform"
  <2>1. statements = <<batch>>
    BY <1>3 DEF Statements
  <2>. QED
    BY <2>1 DEF Disjoint
<1>. QED
  BY <1>1, <1>2, <1>3

(* A statement does to a config what it says of it, and nothing to others. *)
LEMMA ExecutedFacts ==
    ASSUME TypeInv, NEW statement \in Configs, rows' = Executed(rows, statement)
    PROVE  /\ rows' \in [Ids -> (Query \X Value) \cup {NoRow}]
           /\ \A q \in Query :
                 Get(q)' = IF q \in DOMAIN statement THEN statement[q] ELSE Get(q)
<1>1. /\ DOMAIN statement \subseteq Query
      /\ \A q \in DOMAIN statement : statement[q] \in Content
      /\ \A p, q \in Query : Id(p) = Id(q) => p = q
      /\ \A q \in Query : Id(q) \in Ids
  BY ConfigsFacts, RowStoreAssumption DEF Id, Ids
<1>2. ASSUME NEW q \in DOMAIN statement
      PROVE  /\ Affecting(statement, Id(q)) = q
             /\ rows'[Id(q)] = IF statement[q] = Empty THEN NoRow ELSE <<q, statement[q]>>
  <2>1. \A p \in DOMAIN statement : Id(p) = Id(q) <=> p = q
    BY <1>1
  <2>2. Affecting(statement, Id(q)) = q
    BY <2>1 DEF Affecting
  <2>3. Id(q) \in Ids /\ Id(q) \in Targets(statement)
    BY <1>1 DEF Targets
  <2>. QED
    BY <2>2, <2>3 DEF Executed
<1>3. ASSUME NEW i \in Ids, i \notin Targets(statement)
      PROVE  rows'[i] = rows[i]
  BY <1>3 DEF Executed
<1>4. ASSUME NEW i \in Ids
      PROVE  rows'[i] \in (Query \X Value) \cup {NoRow}
  <2>1. CASE i \in Targets(statement)
    <3>1. PICK q \in DOMAIN statement : i = Id(q)
      BY <2>1 DEF Targets
    <3>2. q \in Query /\ statement[q] \in Content
      BY <1>1
    <3>. QED
      <4>1. rows'[i] = IF statement[q] = Empty THEN NoRow ELSE <<q, statement[q]>>
        BY <1>2, <3>1
      <4>2. statement[q] # Empty => statement[q] \in Value
        BY <3>2 DEF Content
      <4>. QED
        BY <3>2, <4>1, <4>2
  <2>2. CASE i \notin Targets(statement)
    BY <1>3, <2>2 DEF TypeInv
  <2>. QED
    BY <2>1, <2>2
<1>5. rows' \in [Ids -> (Query \X Value) \cup {NoRow}]
  <2>1. \E f : rows' = [i \in Ids |-> f[i]]
    <3>1. rows' = [i \in Ids |-> rows'[i]]
      BY DEF Executed
    <3>. QED
      BY <3>1
  <2>. QED
    BY <1>4, <2>1
<1>6. ASSUME NEW q \in Query
      PROVE  Get(q)' = IF q \in DOMAIN statement THEN statement[q] ELSE Get(q)
  <2>1. CASE q \in DOMAIN statement
    <3>1. statement[q] \in Content
      BY <1>1, <2>1
    <3>2. CASE statement[q] = Empty
      BY <1>2, <2>1, <3>2 DEF Get
    <3>3. CASE statement[q] # Empty
      <4>1. rows'[Id(q)] = <<q, statement[q]>> /\ <<q, statement[q]>> \in Query \X Value
        BY <1>2, <2>1, <3>1, <3>3 DEF Content
      <4>2. rows'[Id(q)] # NoRow
        BY <4>1, RowStoreAssumption
      <4>. QED
        BY <2>1, <4>1, <4>2 DEF Get
    <3>. QED
      BY <3>2, <3>3
  <2>2. CASE q \notin DOMAIN statement
    <3>1. Id(q) \notin Targets(statement)
      BY <1>1, <2>2 DEF Targets
    <3>2. rows'[Id(q)] = rows[Id(q)]
      BY <1>1, <1>3, <3>1
    <3>. QED
      BY <2>2, <3>2 DEF Get
  <2>. QED
    BY <2>1, <2>2
<1>. QED
  BY <1>5, <1>6

LEMMA GetType == ASSUME TypeInv, NEW q \in Query PROVE Get(q) \in Content
<1>1. rows[Id(q)] \in (Query \X Value) \cup {NoRow}
  BY DEF TypeInv, Id, Ids
<1>. QED
  BY <1>1 DEF Get, Content

-----------------------------------------------------------------------------
(* The invariant.                                                          *)

LEMMA InvariantInit == Init => IInv
<1>1. SUFFICES ASSUME Init PROVE IInv
  OBVIOUS
<1>2. kind \in {"database", "settings", "platform"}
  BY <1>1, RowStoreAssumption DEF Init
<1>3. todo \in [Client -> Seq(Configs)] /\ \A c \in Client : todo[c] = <<>>
  BY <1>1 DEF Init
<1>. QED
  BY <1>1, <1>2, <1>3 DEF Init, IInv, TypeInv, Disjoint

(* A client's first statement, and those after it. *)
LEMMA HeadFacts ==
    ASSUME TypeInv, NEW c \in Client, Awaits(c)
    PROVE  /\ Head(todo[c]) \in Configs /\ 1 \in DOMAIN todo[c] /\ Head(todo[c]) = todo[c][1]
           /\ Tail(todo[c]) \in Seq(Configs) /\ Disjoint(Tail(todo[c]))
           /\ \A i \in DOMAIN Tail(todo[c]) :
                 i + 1 \in DOMAIN todo[c] /\ Tail(todo[c])[i] = todo[c][i + 1]
           /\ \A i \in DOMAIN todo[c] :
                 i = 1 \/ (i - 1 \in DOMAIN Tail(todo[c]) /\ todo[c][i] = Tail(todo[c])[i - 1])
<1>1. todo[c] \in Seq(Configs) /\ todo[c] # <<>> /\ Disjoint(todo[c])
  BY DEF TypeInv, Awaits
<1>2. /\ Head(todo[c]) \in Configs /\ 1 \in DOMAIN todo[c] /\ Head(todo[c]) = todo[c][1]
      /\ Tail(todo[c]) \in Seq(Configs)
      /\ \A i \in DOMAIN Tail(todo[c]) :
            i \in Nat /\ i + 1 \in DOMAIN todo[c] /\ Tail(todo[c])[i] = todo[c][i + 1]
      /\ \A i \in DOMAIN todo[c] :
            i = 1 \/ (i - 1 \in DOMAIN Tail(todo[c]) /\ todo[c][i] = Tail(todo[c])[i - 1])
  BY <1>1
<1>3. Disjoint(Tail(todo[c]))
  <2>1. ASSUME NEW i \in DOMAIN Tail(todo[c]), NEW j \in DOMAIN Tail(todo[c]), i # j
        PROVE  DOMAIN Tail(todo[c])[i] \cap DOMAIN Tail(todo[c])[j] = {}
    <3>1. i + 1 # j + 1
      BY <1>2, <2>1
    <3>. QED
      BY <1>1, <1>2, <3>1 DEF Disjoint
  <2>. QED
    BY <2>1 DEF Disjoint
<1>. QED
  BY <1>2, <1>3

LEMMA WholeStays == offered \subseteq offered' => Whole \subseteq Whole'
BY DEF Whole

LEMMA StartStep ==
    ASSUME IInv, NEW c \in Client, NEW batch \in Calls, StartSet(c, batch)
    PROVE  IInv'
<1>1. /\ TypeInv /\ batch \in Configs /\ IsFiniteSet(DOMAIN batch)
      /\ busy' = busy \cup {c} /\ offered' = offered \cup {batch}
      /\ UNCHANGED <<kind, rows, late, lost>>
  BY RowStoreAssumption DEF IInv, StartSet
<1>2. PICK statements \in Statements(batch) : todo' = [todo EXCEPT ![c] = statements]
  BY DEF StartSet
<1>3. /\ statements \in Seq(Configs) /\ Disjoint(statements)
      /\ kind # "settings" =>
            \A i \in DOMAIN statements :
               Upserts(statements[i]) = Nothing \/ Upserts(statements[i]) = Upserts(batch)
  BY <1>1, StatementsFacts DEF TypeInv
<1>4. /\ todo' \in [Client -> Seq(Configs)] /\ todo'[c] = statements
      /\ \A d \in Client \ {c} : todo'[d] = todo[d]
  BY <1>1, <1>2, <1>3 DEF TypeInv
<1>5. TypeInv'
  BY <1>1, <1>3, <1>4 DEF TypeInv, Disjoint
<1>6. ASSUME kind' # "settings", NEW d \in Client, NEW i \in DOMAIN todo'[d]
      PROVE  todo'[d][i] \in Whole'
  <2>1. CASE d = c
    BY <1>1, <1>3, <1>4, <1>6, <2>1 DEF Whole
  <2>2. CASE d # c
    <3>1. todo'[d] = todo[d] /\ Whole \subseteq Whole'
      BY <1>1, <1>4, <2>2, WholeStays
    <3>. QED
      BY <1>1, <1>6, <3>1 DEF IInv
  <2>. QED
    BY <2>1, <2>2
<1>7. ASSUME kind' # "settings", NEW statement \in late'
      PROVE  statement \in Whole'
  BY <1>1, <1>7, WholeStays DEF IInv
<1>. QED
  BY <1>5, <1>6, <1>7 DEF IInv

(* What is left to do when the first statement of a set is done with. *)
LEMMA TailStep ==
    ASSUME IInv, NEW c \in Client, Awaits(c), todo' = [todo EXCEPT ![c] = Tail(@)],
           rows' \in [Ids -> (Query \X Value) \cup {NoRow}], lost' \in Nat,
           UNCHANGED <<kind, busy, late, offered>>
    PROVE  IInv'
<1>1. TypeInv /\ c \in busy
  BY DEF IInv, Awaits
<1>2. /\ Tail(todo[c]) \in Seq(Configs) /\ Disjoint(Tail(todo[c]))
      /\ \A i \in DOMAIN Tail(todo[c]) :
            i + 1 \in DOMAIN todo[c] /\ Tail(todo[c])[i] = todo[c][i + 1]
  BY <1>1, HeadFacts
<1>3. /\ todo' \in [Client -> Seq(Configs)] /\ todo'[c] = Tail(todo[c])
      /\ \A d \in Client \ {c} : todo'[d] = todo[d]
  BY <1>1, <1>2 DEF TypeInv
<1>4. TypeInv'
  BY <1>1, <1>2, <1>3 DEF TypeInv, Disjoint
<1>5. ASSUME kind' # "settings", NEW d \in Client, NEW i \in DOMAIN todo'[d]
      PROVE  todo'[d][i] \in Whole'
  <2>1. todo'[d][i] \in Whole
    BY <1>2, <1>3, <1>5 DEF IInv
  <2>. QED
    BY <2>1, WholeStays
<1>6. ASSUME kind' # "settings", NEW statement \in late'
      PROVE  statement \in Whole'
  BY <1>6, WholeStays DEF IInv
<1>. QED
  BY <1>4, <1>5, <1>6 DEF IInv

LEMMA RejectedStep ==
    ASSUME IInv, NEW c \in Client, Rejected(c),
           late' = late \/ late' = late \cup {Head(todo[c])}
    PROVE  IInv'
<1>1. /\ TypeInv /\ Awaits(c) /\ busy' = busy \ {c} /\ todo' = [todo EXCEPT ![c] = <<>>]
      /\ UNCHANGED <<kind, rows, offered, lost>>
  BY DEF IInv, Rejected
<1>2. Head(todo[c]) \in Configs /\ 1 \in DOMAIN todo[c] /\ Head(todo[c]) = todo[c][1]
  BY <1>1, HeadFacts
<1>3. /\ todo' \in [Client -> Seq(Configs)] /\ todo'[c] = <<>>
      /\ \A d \in Client \ {c} : todo'[d] = todo[d]
  BY <1>1 DEF TypeInv
<1>4. TypeInv'
  BY <1>1, <1>2, <1>3 DEF TypeInv, Disjoint
<1>5. ASSUME kind' # "settings", NEW d \in Client, NEW i \in DOMAIN todo'[d]
      PROVE  todo'[d][i] \in Whole'
  <2>1. d # c /\ todo'[d] = todo[d]
    BY <1>3, <1>5
  <2>. QED
    BY <1>1, <1>5, <2>1, WholeStays DEF IInv
<1>6. ASSUME kind' # "settings", NEW statement \in late'
      PROVE  statement \in Whole'
  BY <1>1, <1>2, <1>6, WholeStays DEF IInv
<1>. QED
  BY <1>4, <1>5, <1>6 DEF IInv

LEMMA InvariantStep == IInv /\ [Next]_vars => IInv'
<1>1. SUFFICES ASSUME IInv, [Next]_vars PROVE IInv'
  OBVIOUS
<1>. USE <1>1
<1>2. TypeInv
  BY DEF IInv
<1>3. ASSUME NEW c \in Client, NEW batch \in Calls, StartSet(c, batch)
      PROVE  IInv'
  BY <1>3, StartStep
<1>4. ASSUME NEW c \in Client, Execute(c)
      PROVE  IInv'
  <2>1. rows' \in [Ids -> (Query \X Value) \cup {NoRow}]
    BY <1>2, <1>4, HeadFacts, ExecutedFacts DEF Execute
  <2>. QED
    BY <1>2, <1>4, <2>1, TailStep DEF Execute, TypeInv
<1>5. ASSUME NEW c \in Client, StatementFails(c) \/ StatementTimesOut(c) \/ AwaitsApproval(c)
      PROVE  IInv'
  <2>1. Rejected(c) /\ (late' = late \/ late' = late \cup {Head(todo[c])})
    BY <1>5 DEF StatementFails, StatementTimesOut, AwaitsApproval
  <2>. QED
    BY <2>1, RejectedStep
<1>6. ASSUME NEW c \in Client, DeletionIsLost(c)
      PROVE  IInv'
  <2>1. lost' \in Nat /\ rows' \in [Ids -> (Query \X Value) \cup {NoRow}]
    BY <1>2, <1>6 DEF DeletionIsLost, TypeInv
  <2>. QED
    BY <1>6, <2>1, TailStep DEF DeletionIsLost
<1>7. ASSUME NEW c \in Client, EndSet(c)
      PROVE  IInv'
  <2>1. TypeInv'
    BY <1>2, <1>7 DEF EndSet, TypeInv, Disjoint
  <2>. QED
    BY <1>7, <2>1, WholeStays DEF EndSet, IInv
<1>8. ASSUME NEW statement \in late, ExecuteLate(statement)
      PROVE  IInv'
  <2>1. statement \in Configs
    BY <1>2 DEF TypeInv
  <2>2. rows' \in [Ids -> (Query \X Value) \cup {NoRow}]
    BY <1>2, <1>8, <2>1, ExecutedFacts DEF ExecuteLate
  <2>3. TypeInv'
    BY <1>2, <1>8, <2>2 DEF ExecuteLate, TypeInv, Disjoint
  <2>. QED
    BY <1>8, <2>3, WholeStays DEF ExecuteLate, IInv
<1>9. CASE UNCHANGED vars
  <2>1. TypeInv'
    BY <1>2, <1>9 DEF vars, TypeInv, Disjoint
  <2>. QED
    BY <1>9, <2>1, WholeStays DEF vars, IInv
<1>. QED
  BY <1>3, <1>4, <1>5, <1>6, <1>7, <1>8, <1>9 DEF Next

LEMMA Invariance == Spec => []IInv
BY InvariantInit, InvariantStep, PTL DEF Spec

-----------------------------------------------------------------------------
(* What is upserted together appears together.                             *)

LEMMA UpsertsFacts ==
    ASSUME NEW f \in Configs
    PROVE  /\ \A q \in DOMAIN f : f[q] # Empty => q \in DOMAIN Upserts(f)
           /\ \A q \in DOMAIN Upserts(f) : q \in DOMAIN f /\ Upserts(f)[q] = f[q]
           /\ DOMAIN Nothing = {}
BY DEF Upserts, Nothing

(* A statement that upserts all a batch upserts makes its values appear together. *)
LEMMA WholeAppears ==
    ASSUME TypeInv, NEW s \in Whole, rows' = Executed(rows, s),
           NEW q \in Query, Get(q)' # Get(q), Get(q)' # Empty
    PROVE  \E batch \in offered :
              q \in DOMAIN batch /\ \A p \in DOMAIN Upserts(batch) : Get(p)' = batch[p]
<1>1. s \in Configs /\ q \in DOMAIN s /\ s[q] # Empty
  BY ExecutedFacts DEF Whole
<1>2. q \in DOMAIN Upserts(s) /\ Upserts(s) # Nothing
  BY <1>1, UpsertsFacts
<1>3. PICK batch \in offered : Upserts(s) = Upserts(batch)
  BY <1>2 DEF Whole
<1>4. batch \in Configs /\ q \in DOMAIN batch
  BY <1>2, <1>3, UpsertsFacts DEF TypeInv
<1>5. ASSUME NEW p \in DOMAIN Upserts(batch)
      PROVE  Get(p)' = batch[p]
  <2>1. p \in DOMAIN s /\ p \in Query /\ s[p] = batch[p]
    BY <1>1, <1>3, <1>4, <1>5, UpsertsFacts, ConfigsFacts
  <2>2. Get(p)' = s[p]
    BY <1>1, <2>1, ExecutedFacts
  <2>. QED
    BY <2>1, <2>2
<1>. QED
  BY <1>3, <1>4, <1>5

(* A value that appears on a database or the platform comes with all the   *)
(* others of a batch that was given, however calls overlap and whenever a  *)
(* statement given up is executed.                                         *)
THEOREM UpsertsStayWhole == Spec => UpsertsAreWhole
<1>1. ASSUME IInv, [Next]_vars, rows' # rows, kind # "settings",
             NEW q \in Query, Get(q)' # Get(q), Get(q)' # Empty
      PROVE  \E batch \in offered :
                q \in DOMAIN batch /\ \A p \in DOMAIN Upserts(batch) : Get(p)' = batch[p]
  <2>. USE <1>1
  <2>1. TypeInv
    BY DEF IInv
  <2>2. \E s \in Whole : rows' = Executed(rows, s)
    <3>1. ASSUME NEW c \in Client, Execute(c)
          PROVE  \E s \in Whole : rows' = Executed(rows, s)
      <4>1. Head(todo[c]) \in Whole
        BY <2>1, <3>1, HeadFacts DEF Execute, IInv
      <4>. QED
        BY <3>1, <4>1 DEF Execute
    <3>2. ASSUME NEW statement \in late, ExecuteLate(statement)
          PROVE  \E s \in Whole : rows' = Executed(rows, s)
      BY <3>2 DEF ExecuteLate, IInv
    <3>3. ASSUME NEW c \in Client,
                 \/ \E batch \in Calls : StartSet(c, batch)
                 \/ StatementFails(c) \/ StatementTimesOut(c) \/ AwaitsApproval(c)
                 \/ DeletionIsLost(c) \/ EndSet(c)
          PROVE  FALSE
      BY <3>3 DEF StartSet, StatementFails, StatementTimesOut, AwaitsApproval, Rejected,
                  DeletionIsLost, EndSet
    <3>4. CASE UNCHANGED vars
      BY <3>4 DEF vars
    <3>. QED
      BY <3>1, <3>2, <3>3, <3>4 DEF Next
  <2>. QED
    BY <2>1, <2>2, WholeAppears
<1>2. IInv /\ [Next]_vars =>
        [kind # "settings" =>
            \A q \in Query :
                Get(q)' # Get(q) /\ Get(q)' # Empty =>
                    \E batch \in offered :
                        /\ q \in DOMAIN batch
                        /\ \A p \in DOMAIN Upserts(batch) : Get(p)' = batch[p]]_rows
  BY <1>1
<1>. QED
  BY <1>2, Invariance, PTL DEF Spec, UpsertsAreWhole

-----------------------------------------------------------------------------
(* The refinement of ConfigStore.                                          *)

PendingOf(statements) ==
    [q \in UNION {DOMAIN statements[i] : i \in DOMAIN statements} |->
        statements[CHOOSE i \in DOMAIN statements : q \in DOMAIN statements[i]][q]]

LEMMA PendingFacts ==
    ASSUME NEW statements \in Seq(Configs), Disjoint(statements)
    PROVE  /\ DOMAIN PendingOf(statements) = UNION {DOMAIN statements[i] : i \in DOMAIN statements}
           /\ \A i \in DOMAIN statements : \A q \in DOMAIN statements[i] :
                 PendingOf(statements)[q] = statements[i][q]
           /\ PendingOf(statements) \in Configs
<1>1. ASSUME NEW i \in DOMAIN statements, NEW q \in DOMAIN statements[i]
      PROVE  PendingOf(statements)[q] = statements[i][q]
  <2>1. \A j \in DOMAIN statements : q \in DOMAIN statements[j] => j = i
    BY DEF Disjoint
  <2>2. (CHOOSE j \in DOMAIN statements : q \in DOMAIN statements[j]) = i
    BY <2>1
  <2>. QED
    BY <2>2 DEF PendingOf
<1>2. DOMAIN PendingOf(statements) = UNION {DOMAIN statements[i] : i \in DOMAIN statements}
  BY DEF PendingOf
<1>3. \A i \in DOMAIN statements : statements[i] \in Configs
  OBVIOUS
<1>4. ASSUME NEW q \in DOMAIN PendingOf(statements)
      PROVE  q \in Query /\ PendingOf(statements)[q] \in Content
  <2>1. PICK i \in DOMAIN statements : q \in DOMAIN statements[i]
    BY <1>2
  <2>2. statements[i] \in Configs
    BY <1>3
  <2>3. q \in Query /\ statements[i][q] \in Content
    BY <2>1, <2>2, ConfigsFacts
  <2>. QED
    BY <1>1, <2>1, <2>3
<1>5. PendingOf(statements) \in [DOMAIN PendingOf(statements) -> Content]
  <2>1. PendingOf(statements)
            = [q \in DOMAIN PendingOf(statements) |-> PendingOf(statements)[q]]
    BY DEF PendingOf
  <2>. QED
    BY <1>4, <2>1
<1>6. PendingOf(statements) \in Configs
  BY <1>4, <1>5, ConfigsIntro
<1>. QED
  BY <1>1, <1>2, <1>6

LEMMA PendingIs ==
    ASSUME NEW c \in Client
    PROVE  Pending(c) = PendingOf(todo[c]) /\ Pending(c)' = PendingOf(todo'[c])
BY DEF Pending, PendingOf

(* When the first statement is done with, its configs are not pending. *)
LEMMA PendingTail ==
    ASSUME TypeInv, NEW c \in Client, Awaits(c)
    PROVE  /\ DOMAIN Head(todo[c]) \subseteq DOMAIN PendingOf(todo[c])
           /\ \A q \in DOMAIN Head(todo[c]) : PendingOf(todo[c])[q] = Head(todo[c])[q]
           /\ PendingOf(Tail(todo[c]))
                 = Abstract!Without(PendingOf(todo[c]), DOMAIN Head(todo[c]))
<1>. DEFINE s == todo[c]
            t == Tail(todo[c])
<1>1. /\ s \in Seq(Configs) /\ Disjoint(s) /\ t \in Seq(Configs) /\ Disjoint(t)
      /\ 1 \in DOMAIN s /\ Head(s) = s[1]
      /\ \A i \in DOMAIN t : i \in Nat /\ i + 1 # 1 /\ i + 1 \in DOMAIN s /\ t[i] = s[i + 1]
      /\ \A i \in DOMAIN s : i = 1 \/ (i - 1 \in DOMAIN t /\ s[i] = t[i - 1])
  <2>1. todo[c] \in Seq(Configs) /\ Disjoint(todo[c])
    BY DEF TypeInv
  <2>2. Tail(todo[c]) \in Seq(Configs)
    BY HeadFacts
  <2>3. \A i \in DOMAIN t : i \in Nat /\ i + 1 # 1
    BY <2>2
  <2>. QED
    BY <2>1, <2>3, HeadFacts
<1>. HIDE DEF s, t
<1>2. /\ DOMAIN PendingOf(s) = UNION {DOMAIN s[i] : i \in DOMAIN s}
      /\ \A i \in DOMAIN s : \A q \in DOMAIN s[i] : PendingOf(s)[q] = s[i][q]
      /\ DOMAIN PendingOf(t) = UNION {DOMAIN t[i] : i \in DOMAIN t}
      /\ \A i \in DOMAIN t : \A q \in DOMAIN t[i] : PendingOf(t)[q] = t[i][q]
  BY <1>1, PendingFacts
<1>3. DOMAIN PendingOf(t) = DOMAIN PendingOf(s) \ DOMAIN s[1]
  <2>1. ASSUME NEW q \in DOMAIN PendingOf(t)
        PROVE  q \in DOMAIN PendingOf(s) \ DOMAIN s[1]
    <3>1. PICK i \in DOMAIN t : q \in DOMAIN t[i]
      BY <1>2, <2>1
    <3>. QED
      <4>1. i + 1 \in DOMAIN s /\ i + 1 # 1 /\ q \in DOMAIN s[i + 1]
        BY <1>1, <3>1
      <4>2. PICK j \in DOMAIN s : j # 1 /\ q \in DOMAIN s[j]
        BY <4>1
      <4>3. DOMAIN s[1] \cap DOMAIN s[j] = {}
        BY <1>1, <4>2 DEF Disjoint
      <4>. QED
        BY <1>2, <4>2, <4>3
  <2>2. ASSUME NEW q \in DOMAIN PendingOf(s) \ DOMAIN s[1]
        PROVE  q \in DOMAIN PendingOf(t)
    <3>1. PICK i \in DOMAIN s : q \in DOMAIN s[i]
      BY <1>2, <2>2
    <3>. QED
      <4>1. i # 1
        BY <2>2, <3>1
      <4>2. PICK j \in DOMAIN t : t[j] = s[i]
        BY <1>1, <4>1
      <4>. QED
        BY <1>2, <3>1, <4>2
  <2>. QED
    BY <2>1, <2>2
<1>4. ASSUME NEW q \in DOMAIN PendingOf(t)
      PROVE  PendingOf(t)[q] = PendingOf(s)[q]
  <2>1. PICK i \in DOMAIN t : q \in DOMAIN t[i]
    BY <1>2, <1>4
  <2>2. PICK j \in DOMAIN s : s[j] = t[i]
    BY <1>1
  <2>3. PendingOf(t)[q] = t[i][q] /\ PendingOf(s)[q] = s[j][q]
    BY <1>2, <2>1, <2>2
  <2>. QED
    BY <2>2, <2>3
<1>5. PendingOf(t) = [q \in DOMAIN PendingOf(t) |-> PendingOf(t)[q]]
  BY DEF PendingOf
<1>6. PendingOf(t) = Abstract!Without(PendingOf(s), DOMAIN s[1])
  BY <1>3, <1>4, <1>5 DEF Abstract!Without
<1>. QED
  BY <1>1, <1>2, <1>6 DEF s, t

LEMMA PendingNothing == PendingOf(<<>>) = Abstract!NoBatch
<1>1. UNION {DOMAIN <<>>[i] : i \in DOMAIN <<>>} = {}
  OBVIOUS
<1>. QED
  BY <1>1 DEF PendingOf, Abstract!NoBatch

(* Steps that leave the table, the sets under way and what was given up    *)
(* alone.                                                                  *)
LEMMA StoreStutters ==
    ASSUME rows' = rows, busy' = busy, todo' = todo, late' = late
    PROVE  UNCHANGED Abstract!storeVars
BY DEF Abstract!storeVars, Get, Pending

LEMMA StartIsSubmit ==
    ASSUME TypeInv, TypeInv', NEW c \in Client, NEW batch \in Calls, StartSet(c, batch)
    PROVE  Abstract!StoreNext
<1>1. /\ c \notin busy /\ busy' = busy \cup {c}
      /\ rows' = rows /\ late' = late
      /\ \A d \in Client \ {c} : todo'[d] = todo[d]
  BY DEF StartSet, TypeInv
<1>2. ASSUME NEW d \in Client \ {c} PROVE Pending(d)' = Pending(d)
  BY <1>1, PendingIs
<1>3. PICK b : b = Pending(c)'
  OBVIOUS
<1>4. b \in Abstract!Batch
  <2>1. todo'[c] \in Seq(Configs) /\ Disjoint(todo'[c])
    BY DEF TypeInv, Disjoint
  <2>2. b = PendingOf(todo'[c])
    BY <1>3, PendingIs
  <2>3. PendingOf(todo'[c]) \in Configs
    BY <2>1, PendingFacts
  <2>. QED
    BY <2>2, <2>3 DEF Configs, Abstract!Batch
<1>5. Abstract!Submit(c, b)
  BY <1>1, <1>2, <1>3 DEF Abstract!Submit, Get
<1>. QED
  BY <1>3, <1>4, <1>5 DEF Abstract!StoreNext

(* What a statement writes, and what the statements given up may write. *)
Writes(s) == {<<q, s[q]>> : q \in DOMAIN s}

Orphans == UNION {{<<q, s[q]>> : q \in DOMAIN s} : s \in late}

LEMMA OrphansFacts ==
    /\ Orphans = UNION {Writes(s) : s \in late}
    /\ Orphans' = UNION {Writes(s) : s \in late'}
BY DEF Orphans, Writes

LEMMA ExecuteIsApply ==
    ASSUME IInv, NEW c \in Client, Execute(c)
    PROVE  Abstract!StoreNext \/ UNCHANGED Abstract!storeVars
<1>1. /\ TypeInv /\ Awaits(c) /\ c \in busy
      /\ rows' = Executed(rows, Head(todo[c]))
      /\ todo' = [todo EXCEPT ![c] = Tail(@)]
      /\ busy' = busy /\ late' = late
  BY DEF IInv, Execute, Awaits
<1>2. PICK s : s = Head(todo[c])
  OBVIOUS
<1>3. /\ s \in Configs /\ DOMAIN s \subseteq DOMAIN PendingOf(todo[c])
      /\ \A q \in DOMAIN s : PendingOf(todo[c])[q] = s[q]
      /\ PendingOf(Tail(todo[c])) = Abstract!Without(PendingOf(todo[c]), DOMAIN s)
  BY <1>1, <1>2, HeadFacts, PendingTail
<1>4. /\ todo'[c] = Tail(todo[c])
      /\ \A d \in Client \ {c} : todo'[d] = todo[d]
  BY <1>1 DEF TypeInv
<1>5. \A q \in Query : Get(q)' = IF q \in DOMAIN s THEN s[q] ELSE Get(q)
  BY <1>1, <1>2, <1>3, ExecutedFacts
<1>6. ASSUME NEW d \in Client \ {c} PROVE Pending(d)' = Pending(d)
  BY <1>4, PendingIs
<1>7. /\ DOMAIN s \subseteq DOMAIN Pending(c)
      /\ \A q \in DOMAIN s : Pending(c)[q] = s[q]
      /\ Pending(c)' = Abstract!Without(Pending(c), DOMAIN s)
  BY <1>3, <1>4, PendingIs
<1>8. CASE DOMAIN s = {}
  <2>1. Pending(c)' = Pending(c)
    <3>1. Pending(c) = [q \in DOMAIN Pending(c) |-> Pending(c)[q]]
      BY DEF Pending
    <3>. QED
      BY <1>7, <1>8, <3>1 DEF Abstract!Without
  <2>. QED
    BY <1>1, <1>5, <1>6, <1>8, <2>1 DEF Abstract!storeVars
<1>9. CASE DOMAIN s # {}
  <2>1. [q \in Query |-> Get(q)]'
            = Abstract!Override([q \in Query |-> Get(q)], Abstract!Only(Pending(c), DOMAIN s))
    BY <1>5, <1>7 DEF Abstract!Override, Abstract!Only
  <2>2. Abstract!Apply(c, DOMAIN s)
    BY <1>1, <1>6, <1>7, <1>9, <2>1 DEF Abstract!Apply
  <2>. QED
    BY <1>7, <2>2 DEF Abstract!StoreNext
<1>. QED
  BY <1>8, <1>9

LEMMA RejectedIsReject ==
    ASSUME TypeInv, NEW c \in Client, Rejected(c),
           late' = late \/ late' = late \cup {Head(todo[c])}
    PROVE  Abstract!StoreNext
<1>1. /\ Awaits(c) /\ c \in busy /\ busy' = busy \ {c} /\ rows' = rows
      /\ todo' = [todo EXCEPT ![c] = <<>>]
  BY DEF Rejected, Awaits
<1>2. todo'[c] = <<>> /\ \A d \in Client \ {c} : todo'[d] = todo[d]
  BY <1>1 DEF TypeInv
<1>3. Pending(c)' = Abstract!NoBatch
  BY <1>2, PendingIs, PendingNothing
<1>4. ASSUME NEW d \in Client \ {c} PROVE Pending(d)' = Pending(d)
  BY <1>2, PendingIs
<1>5. PICK s : s = Head(todo[c])
  OBVIOUS
<1>6. DOMAIN s \subseteq DOMAIN Pending(c) /\ \A q \in DOMAIN s : Pending(c)[q] = s[q]
  BY <1>1, <1>5, PendingTail, PendingIs
<1>7. PICK D \in SUBSET DOMAIN Pending(c) :
         Orphans' = Orphans \cup {<<q, Pending(c)[q]>> : q \in D}
  <2>1. CASE late' = late
    <3>1. Orphans' = Orphans \cup {<<q, Pending(c)[q]>> : q \in {}}
      BY <2>1 DEF Orphans
    <3>. QED
      BY <3>1
  <2>2. CASE late' = late \cup {s}
    <3>1. Writes(s) = {<<q, Pending(c)[q]>> : q \in DOMAIN s}
      BY <1>6 DEF Writes
    <3>2. Orphans' = Orphans \cup Writes(s)
      BY <2>2, OrphansFacts
    <3>. QED
      BY <1>6, <3>1, <3>2
  <2>. QED
    BY <1>5, <2>1, <2>2
<1>8. Abstract!Reject(c, D)
  BY <1>1, <1>3, <1>4, <1>7 DEF Abstract!Reject, Get, Orphans
<1>. QED
  BY <1>8 DEF Abstract!StoreNext

LEMMA EndIsResolve ==
    ASSUME TypeInv, NEW c \in Client, EndSet(c)
    PROVE  Abstract!StoreNext
<1>1. /\ c \in busy /\ todo[c] = <<>> /\ busy' = busy \ {c}
      /\ rows' = rows /\ late' = late /\ todo' = todo
  BY DEF EndSet
<1>2. Pending(c) = Abstract!NoBatch
  BY <1>1, PendingIs, PendingNothing
<1>3. ASSUME NEW d \in Client PROVE Pending(d)' = Pending(d)
  BY <1>1, PendingIs
<1>4. Abstract!Resolve(c)
  BY <1>1, <1>2, <1>3 DEF Abstract!Resolve, Get
<1>. QED
  BY <1>4 DEF Abstract!StoreNext

(* A statement that was given up is executed. *)
LEMMA LateIsLand ==
    ASSUME TypeInv, NEW s \in late, ExecuteLate(s)
    PROVE  Abstract!StoreNext \/ UNCHANGED Abstract!storeVars
<1>1. /\ s \in Configs /\ rows' = Executed(rows, s) /\ late' = late \ {s}
      /\ busy' = busy /\ todo' = todo
  BY DEF ExecuteLate, TypeInv
<1>2. \A q \in Query : Get(q)' = IF q \in DOMAIN s THEN s[q] ELSE Get(q)
  BY <1>1, ExecutedFacts
<1>3. ASSUME NEW d \in Client PROVE Pending(d)' = Pending(d)
  BY <1>1, PendingIs
<1>4. \E landed \in SUBSET Writes(s) : Orphans' = Orphans \ landed
  <2>1. Orphans' \subseteq Orphans /\ Orphans \ Orphans' \subseteq Writes(s)
    BY <1>1, OrphansFacts
  <2>2. Orphans' = Orphans \ (Orphans \ Orphans')
    BY <2>1
  <2>. QED
    BY <2>1, <2>2
<1>5. CASE DOMAIN s = {}
  <2>1. Orphans' = Orphans
    BY <1>4, <1>5 DEF Writes
  <2>. QED
    BY <1>1, <1>2, <1>3, <1>5, <2>1 DEF Abstract!storeVars, Orphans
<1>6. CASE DOMAIN s # {}
  <2>1. PICK W : W = Writes(s)
    OBVIOUS
  <2>2. /\ W # {} /\ W \subseteq Orphans
        /\ \A w, x \in W : w[1] = x[1] => w = x
    <3>1. W \subseteq Orphans
      BY <2>1, OrphansFacts
    <3>2. \A q \in DOMAIN s : <<q, s[q]>> \in W
      BY <2>1 DEF Writes
    <3>3. \A w \in W : w[1] \in DOMAIN s /\ w = <<w[1], s[w[1]]>>
      BY <2>1 DEF Writes
    <3>. QED
      BY <1>6, <3>1, <3>2, <3>3
  <2>3. Abstract!Written(W) = DOMAIN s
    <3>1. \A q \in DOMAIN s : \E w \in W : w[1] = q
      <4>1. \A q \in DOMAIN s : <<q, s[q]>> \in W /\ <<q, s[q]>>[1] = q
        BY <2>1 DEF Writes
      <4>. QED
        BY <4>1
    <3>2. \A w \in W : w[1] \in DOMAIN s
      BY <2>1 DEF Writes
    <3>. QED
      BY <3>1, <3>2 DEF Abstract!Written
  <2>4. ASSUME NEW q \in DOMAIN s
        PROVE  (CHOOSE w \in W : w[1] = q)[2] = s[q]
    <3>1. <<q, s[q]>> \in W /\ \A w \in W : w[1] = q <=> w = <<q, s[q]>>
      BY <2>1 DEF Writes
    <3>2. (CHOOSE w \in W : w[1] = q) = <<q, s[q]>>
      BY <3>1
    <3>3. <<q, s[q]>>[2] = s[q]
      OBVIOUS
    <3>. QED
      BY <3>2, <3>3, Zenon
  <2>5. [q \in Query |-> Get(q)]' = Abstract!Landed([q \in Query |-> Get(q)], W)
    BY <1>2, <2>3, <2>4 DEF Abstract!Landed
  <2>6. Abstract!Land(W)
    BY <1>1, <1>3, <1>4, <2>1, <2>2, <2>5 DEF Abstract!Land, Orphans
  <2>7. W \in SUBSET Orphans
    BY <2>2
  <2>. QED
    BY <2>6, <2>7 DEF Abstract!StoreNext, Orphans
<1>. QED
  BY <1>5, <1>6

(* As long as primary keys differ these stores are ConfigStores: every     *)
(* step, other than one that loses a deletion, is a step of ConfigStore.   *)
THEOREM RowStoreIsConfigStore == Spec => ImplementsConfigStore
<1>1. Init => Abstract!StoreInit
  <2>1. SUFFICES ASSUME Init PROVE Abstract!StoreInit
    OBVIOUS
  <2>2. TypeInv
    BY <2>1, InvariantInit DEF IInv
  <2>3. \A q \in Query : Get(q) \in Content
    BY <2>2, GetType
  <2>4. ASSUME NEW c \in Client PROVE Pending(c) = Abstract!NoBatch
    <3>1. todo[c] = <<>>
      BY <2>1 DEF Init
    <3>. QED
      BY <3>1, PendingIs, PendingNothing
  <2>. QED
    BY <2>1, <2>3, <2>4 DEF Init, Abstract!StoreInit
<1>2. ASSUME IInv, IInv', [Next]_vars, lost' = lost
      PROVE  Abstract!StoreNext \/ UNCHANGED Abstract!storeVars
  <2>. USE <1>2
  <2>1. TypeInv /\ TypeInv'
    BY DEF IInv
  <2>2. ASSUME NEW c \in Client, NEW batch \in Calls, StartSet(c, batch)
        PROVE  Abstract!StoreNext
    BY <2>1, <2>2, StartIsSubmit
  <2>3. ASSUME NEW c \in Client, Execute(c)
        PROVE  Abstract!StoreNext \/ UNCHANGED Abstract!storeVars
    BY <2>3, ExecuteIsApply
  <2>4. ASSUME NEW c \in Client, StatementFails(c) \/ StatementTimesOut(c) \/ AwaitsApproval(c)
        PROVE  Abstract!StoreNext
    <3>1. Rejected(c) /\ (late' = late \/ late' = late \cup {Head(todo[c])})
      BY <2>4 DEF StatementFails, StatementTimesOut, AwaitsApproval
    <3>. QED
      BY <2>1, <3>1, RejectedIsReject
  <2>5. ASSUME NEW c \in Client, DeletionIsLost(c)
        PROVE  FALSE
    BY <2>1, <2>5 DEF DeletionIsLost, TypeInv
  <2>6. ASSUME NEW c \in Client, EndSet(c)
        PROVE  Abstract!StoreNext
    BY <2>1, <2>6, EndIsResolve
  <2>7. ASSUME NEW statement \in late, ExecuteLate(statement)
        PROVE  Abstract!StoreNext \/ UNCHANGED Abstract!storeVars
    BY <2>1, <2>7, LateIsLand
  <2>8. CASE UNCHANGED vars
    BY <2>8, StoreStutters DEF vars
  <2>. QED
    BY <2>2, <2>3, <2>4, <2>5, <2>6, <2>7, <2>8 DEF Next
<1>3. IInv /\ IInv' /\ [Next]_vars => [lost' = lost => Abstract!StoreNext]_Abstract!storeVars
  BY <1>2
<1>. QED
  BY <1>1, <1>3, Invariance, PTL DEF Spec, ImplementsConfigStore

=============================================================================
