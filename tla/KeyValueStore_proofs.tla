------------------------ MODULE KeyValueStore_proofs ------------------------
(***************************************************************************)
(* Proofs about KeyValueStore, for any number of programs, sets, keys,     *)
(* values, calls and failures.                                             *)
(***************************************************************************)
EXTENDS KeyValueStore, TLAPS

(* No set has the name of a key, so that calcKey keeps the entry of a root *)
(* config apart from the document of a set.                                *)
NamesDiffer == SetPath \cap Key = {}

Entry == UNION {Entries(b) : b \in BackendKey}

(* The shapes TypeOK leaves open. *)
Shapes ==
    /\ backend \in [BackendKey -> Entry]
    /\ call \in [Client -> [set : SetPath \cup {Root}, configs : Partial(Key, Content)]]
    /\ left \in [Client -> SUBSET BackendKey]
    /\ found \in [Client -> Partial(Key, Value)]
    /\ late \subseteq BackendKey \X Entry

(* A client writes no other entries than those its batch touches, and none *)
(* when its set has settled.                                               *)
LeftIsTouched ==
    \A c \in Client :
        /\ left[c] \subseteq Touched(call[c])
        /\ c \notin busy => left[c] = {}

TypeInv == TypeOK /\ Shapes /\ LeftIsTouched

(* What an entry would return was offered for the config it returns it for. *)
OfferedEntry(b, e) ==
    /\ b \in Key => e.text = Empty \/ <<<<Root, b>>, e.text>> \in offered
    /\ b \in SetPath => \A k \in DOMAIN e.json : <<<<b, k>>, e.json[k]>> \in offered

OnlyOffered ==
    /\ \A b \in BackendKey : OfferedEntry(b, backend[b])
    /\ \A w \in late : OfferedEntry(w[1], w[2])
    /\ \A c \in Client :
        /\ \A k \in DOMAIN call[c].configs : <<<<call[c].set, k>>, call[c].configs[k]>> \in offered
        /\ \A k \in DOMAIN found[c] : <<<<call[c].set, k>>, found[c][k]>> \in offered

(* A call nobody has raced has its set to itself. *)
Exclusive ==
    \A c \in busy \ raced :
        /\ \A d \in busy \ {c} : call[d].set # call[c].set
        /\ \A w \in late : w[1] \notin Touched(call[c])

(* Such a call has stored what it has no more to write ... *)
WrittenIsStored(c) ==
    \A k \in DOMAIN call[c].configs :
        CalcKey(<<call[c].set, k>>) \notin left[c] =>
            Get(<<call[c].set, k>>) = call[c].configs[k]

(* ... and until it writes, the document is what it has read. *)
FoundIsCurrent(c) ==
    call[c].set # Root /\ c \in answered /\ left[c] # {} =>
        found[c] = backend[call[c].set].json

IInv ==
    /\ TypeInv
    /\ OnlyOffered
    /\ Exclusive
    /\ \A c \in busy \ raced :
        /\ WrittenIsStored(c)
        /\ c \notin misread => FoundIsCurrent(c)

-----------------------------------------------------------------------------
(* Partial functions and entries.                                          *)

LEMMA PartialFacts ==
    ASSUME NEW S, NEW T, NEW f \in Partial(S, T)
    PROVE  /\ DOMAIN f \subseteq S
           /\ \A k \in DOMAIN f : f[k] \in T
           /\ f = [k \in DOMAIN f |-> f[k]]
BY DEF Partial

LEMMA PartialIntro ==
    ASSUME NEW S, NEW T, NEW D \in SUBSET S, NEW f \in [D -> T]
    PROVE  f \in Partial(S, T)
BY DEF Partial

LEMMA NothingIsPartial ==
    ASSUME NEW S, NEW T
    PROVE  Nothing \in Partial(S, T) /\ DOMAIN Nothing = {}
<1>1. Nothing \in [{} -> T] /\ DOMAIN Nothing = {}
  BY DEF Nothing
<1>. QED
  BY <1>1, PartialIntro

(* What is written is empty exactly when there is nothing to write. *)
LEMMA TextFacts ==
    ASSUME NEW v \in Content
    PROVE  Text(v).text = v /\ Text(v).json = Nothing
BY DEF Text, Absent

LEMMA DocumentFacts ==
    ASSUME NEW f
    PROVE  Document(f).json = f
BY DEF Document, Absent

LEMMA TextIsEntry ==
    ASSUME NEW b \in Key, NEW v \in Content
    PROVE  Text(v) \in Entries(b)
BY DEF Entries

LEMMA DocumentIsEntry ==
    ASSUME NEW b \in SetPath, NEW f \in Partial(Key, Value)
    PROVE  Document(f) \in Entries(b)
BY DEF Entries

LEMMA EntryFacts ==
    ASSUME NEW b \in BackendKey, NEW e \in Entries(b)
    PROVE  /\ e \in Entry
           /\ e.json \in Partial(Key, Value)
<1>1. e \in Entry
  BY DEF Entry
<1>2. CASE b \in Key /\ e \in {Text(v) : v \in Content}
  BY <1>1, <1>2, TextFacts, NothingIsPartial
<1>3. CASE b \in SetPath /\ e \in {Document(f) : f \in Partial(Key, Value)}
  BY <1>1, <1>3, DocumentFacts
<1>. QED
  BY <1>1, <1>2, <1>3 DEF Entries

LEMMA EmptyIsContent == Empty \in Content
BY DEF Content

(* Merging a document with a batch: the batch wins, an empty value deletes. *)
LEMMA MergedFacts ==
    ASSUME NEW prev \in Partial(Key, Value), NEW configs \in Partial(Key, Content)
    PROVE  /\ Merged(prev, configs) \in Partial(Key, Value)
           /\ \A k \in DOMAIN configs :
                 /\ k \in DOMAIN Merged(prev, configs) <=> configs[k] # Empty
                 /\ configs[k] # Empty => Merged(prev, configs)[k] = configs[k]
           /\ \A k \in DOMAIN Merged(prev, configs) \ DOMAIN configs :
                 k \in DOMAIN prev /\ Merged(prev, configs)[k] = prev[k]
           /\ Reparsed = {} =>
                 \A k \in DOMAIN prev \ DOMAIN configs : k \in DOMAIN Merged(prev, configs)
<1>. DEFINE value(k) == IF k \in DOMAIN configs THEN configs[k] ELSE prev[k]
            kept == {k \in DOMAIN prev \cup DOMAIN configs :
                        value(k) # Empty /\ (k \in DOMAIN configs \/ prev[k] \notin Reparsed)}
<1>1. Merged(prev, configs) = [k \in kept |-> value(k)]
  BY DEF Merged
<1>2. /\ DOMAIN prev \subseteq Key /\ \A k \in DOMAIN prev : prev[k] \in Value
      /\ DOMAIN configs \subseteq Key /\ \A k \in DOMAIN configs : configs[k] \in Content
  BY PartialFacts
<1>3. \A k \in DOMAIN prev : prev[k] # Empty
  BY <1>2, KeyValueAssumption
<1>4. Merged(prev, configs) \in [kept -> Value]
  BY <1>1, <1>2 DEF Content
<1>5. Merged(prev, configs) \in Partial(Key, Value)
  BY <1>2, <1>4, PartialIntro
<1>. QED
  BY <1>1, <1>3, <1>5

(* A batch from UpsertCommand, and the entries it touches. *)
LEMMA BatchFacts ==
    ASSUME NEW c \in Client, NEW batch \in Calls[c]
    PROVE  batch \in [set : SetPath \cup {Root}, configs : Partial(Key, Content)]
BY KeyValueAssumption

LEMMA TouchedFacts ==
    ASSUME NEW batch \in [set : SetPath \cup {Root}, configs : Partial(Key, Content)]
    PROVE  /\ batch.set = Root => Touched(batch) = DOMAIN batch.configs
           /\ batch.set # Root =>
                 /\ batch.set \in SetPath
                 /\ Touched(batch) = IF DOMAIN batch.configs = {} THEN {} ELSE {batch.set}
           /\ Touched(batch) \subseteq BackendKey
           /\ \A k \in DOMAIN batch.configs : CalcKey(<<batch.set, k>>) \in Touched(batch)
<1>1. DOMAIN batch.configs \subseteq Key
  BY PartialFacts
<1>2. batch.set = Root => Touched(batch) = DOMAIN batch.configs
  BY DEF Touched, CalcKey
<1>3. batch.set # Root => Touched(batch) = IF DOMAIN batch.configs = {} THEN {} ELSE {batch.set}
  BY DEF Touched, CalcKey
<1>4. \A k \in DOMAIN batch.configs : CalcKey(<<batch.set, k>>) \in Touched(batch)
  BY DEF Touched
<1>. QED
  BY <1>1, <1>2, <1>3, <1>4 DEF BackendKey

-----------------------------------------------------------------------------
(* Type correctness.                                                       *)

(* A client with something left to write. *)
LEMMA LeftFacts ==
    ASSUME TypeInv, NEW c \in Client, NEW b \in left[c]
    PROVE  /\ b \in BackendKey
           /\ call[c].set = Root => b \in DOMAIN call[c].configs /\ b \in Key
           /\ call[c].set # Root =>
                 b = call[c].set /\ b \in SetPath /\ left[c] = {b} /\ DOMAIN call[c].configs # {}
<1>1. /\ call[c] \in [set : SetPath \cup {Root}, configs : Partial(Key, Content)]
      /\ left[c] \subseteq Touched(call[c])
  BY DEF TypeInv, Shapes, LeftIsTouched
<1>2. DOMAIN call[c].configs \subseteq Key
  BY <1>1, PartialFacts
<1>. QED
  BY <1>1, <1>2, TouchedFacts

LEMMA NextEntryType ==
    ASSUME TypeInv, NEW c \in Client, NEW b \in left[c]
    PROVE  NextEntry(c, b) \in Entries(b)
<1>1. /\ call[c].configs \in Partial(Key, Content)
      /\ found[c] \in Partial(Key, Value)
  BY DEF TypeInv, TypeOK
<1>2. CASE call[c].set = Root
  <2>1. b \in Key /\ call[c].configs[b] \in Content
    BY <1>1, <1>2, LeftFacts, PartialFacts
  <2>. QED
    BY <1>2, <2>1, TextIsEntry DEF NextEntry
<1>3. CASE call[c].set # Root
  BY <1>1, <1>3, LeftFacts, MergedFacts, DocumentIsEntry DEF NextEntry
<1>. QED
  BY <1>2, <1>3

LEMMA GetFacts ==
    ASSUME NEW k \in Key
    PROVE  /\ Get(<<Root, k>>) = backend[k].text
           /\ \A s \in SetPath :
                 Get(<<s, k>>) = IF k \in DOMAIN backend[s].json THEN backend[s].json[k] ELSE Empty
BY KeyValueAssumption DEF Get, CalcKey

(* What get returns is a value or the empty string. *)
LEMMA GetType ==
    ASSUME NamesDiffer, \A b \in BackendKey : backend[b] \in Entries(b), NEW q \in Query
    PROVE  Get(q) \in Content
<1>1. PICK s \in SetPath \cup {Root}, k \in Key : q = <<s, k>>
  BY DEF Query
<1>2. CASE s = Root
  <2>1. \E v \in Content : backend[k] = Text(v)
    BY DEF NamesDiffer, Entries, BackendKey
  <2>. QED
    BY <1>1, <1>2, <2>1, TextFacts, GetFacts
<1>3. CASE s \in SetPath
  <2>1. backend[s].json \in Partial(Key, Value)
    BY <1>3, EntryFacts DEF BackendKey
  <2>2. \A j \in DOMAIN backend[s].json : backend[s].json[j] \in Value
    BY <2>1, PartialFacts
  <2>. QED
    BY <1>1, <1>3, <2>2, GetFacts DEF Content
<1>. QED
  BY <1>2, <1>3

LEMMA TypeInit == NamesDiffer /\ Init => TypeInv
<1>1. SUFFICES ASSUME NamesDiffer, Init PROVE TypeInv
  OBVIOUS
<1>2. /\ [set |-> Root, configs |-> Nothing]
             \in [set : SetPath \cup {Root}, configs : Partial(Key, Content)]
      /\ Nothing \in Partial(Key, Value) /\ Nothing \in Partial(Key, Content)
  BY NothingIsPartial
<1>3. backend \in [BackendKey -> Entry] /\ \A b \in BackendKey : backend[b] \in Entries(b)
  BY <1>1 DEF Init, Entry
<1>4. \A q \in Query : Get(q) \in Content
  BY <1>1, <1>3, GetType
<1>5. offered \subseteq Query \X Content
  BY <1>1, <1>4 DEF Init
<1>6. /\ MaxCalls \in Nat /\ MaxReadErrors \in Nat /\ MaxWriteErrors \in Nat /\ MaxTimeouts \in Nat
  BY KeyValueAssumption
<1>7. TypeOK
  BY <1>1, <1>2, <1>3, <1>5, <1>6 DEF Init, TypeOK
<1>8. Shapes /\ LeftIsTouched
  BY <1>1, <1>2, <1>3 DEF Init, Shapes, LeftIsTouched
<1>. QED
  BY <1>7, <1>8 DEF TypeInv

(* A set that is given up leaves entries of the right type behind. *)
LEMMA AbandonType ==
    ASSUME TypeInv, NEW c \in busy, NEW others \in SUBSET left[c], Abandon(c, others),
           writeErrors' \in 0..MaxWriteErrors, timeouts' \in 0..MaxTimeouts
    PROVE  TypeInv'
<1>0. c \in Client
  BY DEF TypeInv, TypeOK
<1>1. \A b \in others : b \in BackendKey /\ NextEntry(c, b) \in Entries(b) /\ NextEntry(c, b) \in Entry
  BY <1>0, LeftFacts, NextEntryType, EntryFacts
<1>2. \A w \in late' : /\ w \in BackendKey \X Entry
                       /\ w[1] \in BackendKey /\ w[2] \in Entries(w[1])
  BY <1>1 DEF Abandon, TypeInv, TypeOK, Shapes
<1>3. TypeOK'
  BY <1>0, <1>2 DEF Abandon, history, TypeInv, TypeOK, Shapes
<1>4. Shapes' /\ LeftIsTouched'
  BY <1>0, <1>2 DEF Abandon, TypeInv, Shapes, LeftIsTouched, Touched
<1>. QED
  BY <1>3, <1>4 DEF TypeInv

(* An entry of the right type takes the place of another. *)
LEMMA WriteType ==
    ASSUME TypeInv, NEW b \in BackendKey, NEW e \in Entries(b),
           backend' = [backend EXCEPT ![b] = e]
    PROVE  /\ backend' \in [BackendKey -> Entry]
           /\ \A d \in BackendKey : backend'[d] \in Entries(d)
           /\ backend'[b] = e
           /\ \A d \in BackendKey \ {b} : backend'[d] = backend[d]
BY EntryFacts DEF TypeInv, TypeOK, Shapes

LEMMA TypeStep == TypeInv /\ [Next]_vars => TypeInv'
<1>1. SUFFICES ASSUME TypeInv, [Next]_vars PROVE TypeInv'
  OBVIOUS
<1>. USE <1>1
<1>2. ASSUME NEW c \in Client, NEW batch \in Calls[c], StartSet(c, batch)
      PROVE  TypeInv'
  <2>1. /\ batch \in [set : SetPath \cup {Root}, configs : Partial(Key, Content)]
        /\ Touched(batch) \subseteq BackendKey
        /\ Nothing \in Partial(Key, Value)
    BY BatchFacts, TouchedFacts, NothingIsPartial
  <2>2. \A k \in DOMAIN batch.configs :
            <<<<batch.set, k>>, batch.configs[k]>> \in Query \X Content
    BY <2>1, PartialFacts DEF Query
  <2>3. calls[c] + 1 \in 0..MaxCalls
    BY <1>2, KeyValueAssumption DEF StartSet, TypeInv, TypeOK
  <2>4. call' = [call EXCEPT ![c] = batch] /\ left' = [left EXCEPT ![c] = Touched(batch)]
    BY <1>2 DEF StartSet
  <2>5. TypeOK'
    <3>1. offered' \subseteq Query \X Content
      BY <1>2, <2>2 DEF StartSet, TypeInv, TypeOK
    <3>2. calls' \in [Client -> 0..MaxCalls]
      BY <1>2, <2>3 DEF StartSet, TypeInv, TypeOK
    <3>3. raced' \subseteq Client /\ misread' \subseteq Client /\ answered' \subseteq Client
          /\ busy' \subseteq Client
      BY <1>2 DEF StartSet, Rivals, TypeInv, TypeOK
    <3>4. \A d \in Client :
             /\ call'[d].set \in SetPath \cup {Root}
             /\ call'[d].configs \in Partial(Key, Content)
             /\ left'[d] \subseteq BackendKey
             /\ found'[d] \in Partial(Key, Value)
      BY <1>2, <2>1, <2>4 DEF StartSet, TypeInv, TypeOK, Shapes
    <3>. QED
      BY <1>2, <3>1, <3>2, <3>3, <3>4 DEF StartSet, TypeInv, TypeOK
  <2>6. Shapes'
    BY <1>2, <2>1, <2>4 DEF StartSet, TypeInv, Shapes
  <2>7. LeftIsTouched'
    <3>1. SUFFICES ASSUME NEW d \in Client
                   PROVE  /\ left'[d] \subseteq Touched(call'[d])
                          /\ d \notin busy' => left'[d] = {}
      BY DEF LeftIsTouched, Touched
    <3>2. CASE d = c
      BY <1>2, <2>4, <3>2 DEF StartSet, TypeInv, Shapes
    <3>3. CASE d # c
      BY <1>2, <2>4, <3>3 DEF StartSet, TypeInv, Shapes, LeftIsTouched
    <3>. QED
      BY <3>2, <3>3
  <2>. QED
    BY <2>5, <2>6, <2>7 DEF TypeInv
<1>3. ASSUME NEW c \in Client, NEW b \in BackendKey, ReadDocument(c, b)
      PROVE  TypeInv'
  <2>1. b \in SetPath /\ backend[b].json \in Partial(Key, Value)
    BY <1>3, LeftFacts, EntryFacts DEF ReadDocument, Reading, TypeInv, TypeOK
  <2>2. found' \in [Client -> Partial(Key, Value)]
    BY <1>3, <2>1 DEF ReadDocument, TypeInv, Shapes
  <2>3. TypeOK' /\ Shapes'
    BY <1>3, <2>2 DEF ReadDocument, counters, history, TypeInv, TypeOK, Shapes
  <2>4. LeftIsTouched'
    BY <1>3 DEF ReadDocument, Touched, TypeInv, LeftIsTouched
  <2>. QED
    BY <2>3, <2>4 DEF TypeInv
<1>4. ASSUME NEW c \in Client, NEW b \in BackendKey, ReadFails(c, b)
      PROVE  TypeInv'
  <2>1. readErrors + 1 \in 0..MaxReadErrors
    BY <1>4, KeyValueAssumption DEF ReadFails, TypeInv, TypeOK
  <2>. QED
    BY <1>4, <2>1 DEF ReadFails, Touched, TypeInv, TypeOK, Shapes, LeftIsTouched
<1>5. ASSUME NEW c \in Client, NEW b \in BackendKey, Write(c, b)
      PROVE  TypeInv'
  <2>1. NextEntry(c, b) \in Entries(b)
    BY <1>5, NextEntryType DEF Write, Ready
  <2>2. /\ backend' \in [BackendKey -> Entry]
        /\ \A d \in BackendKey : backend'[d] \in Entries(d)
    BY <1>5, <2>1, WriteType DEF Write
  <2>. QED
    BY <1>5, <2>2 DEF Write, counters, history, Touched, TypeInv, TypeOK, Shapes, LeftIsTouched
<1>6. ASSUME NEW c \in Client, NEW b \in BackendKey, WriteFails(c, b)
      PROVE  TypeInv'
  <2>1. writeErrors' \in 0..MaxWriteErrors /\ timeouts' \in 0..MaxTimeouts
    BY <1>6, KeyValueAssumption DEF WriteFails, TypeInv, TypeOK
  <2>. QED
    BY <1>6, <2>1, AbandonType DEF WriteFails, Ready
<1>7. ASSUME NEW c \in Client, NEW b \in BackendKey, WriteTimesOut(c, b)
      PROVE  TypeInv'
  <2>1. writeErrors' \in 0..MaxWriteErrors /\ timeouts' \in 0..MaxTimeouts
    BY <1>7, KeyValueAssumption DEF WriteTimesOut, TypeInv, TypeOK
  <2>. QED
    BY <1>7, <2>1, AbandonType DEF WriteTimesOut, Ready
<1>8. ASSUME NEW c \in Client, EndSet(c)
      PROVE  TypeInv'
  BY <1>8 DEF EndSet, counters, history, Touched, TypeInv, TypeOK, Shapes, LeftIsTouched
<1>9. ASSUME NEW w \in late, WriteLate(w)
      PROVE  TypeInv'
  <2>1. w[1] \in BackendKey /\ w[2] \in Entries(w[1])
    BY DEF TypeInv, TypeOK
  <2>2. /\ backend' \in [BackendKey -> Entry]
        /\ \A d \in BackendKey : backend'[d] \in Entries(d)
    BY <1>9, <2>1, WriteType DEF WriteLate
  <2>. QED
    BY <1>9, <2>2 DEF WriteLate, counters, history, Touched, TypeInv, TypeOK, Shapes, LeftIsTouched
<1>10. CASE UNCHANGED vars
  <2>1. TypeOK' /\ Shapes'
    BY <1>10 DEF vars, counters, history, TypeInv, TypeOK, Shapes
  <2>2. LeftIsTouched'
    BY <1>10 DEF vars, Touched, TypeInv, LeftIsTouched
  <2>. QED
    BY <2>1, <2>2 DEF TypeInv
<1>. QED
  BY <1>2, <1>3, <1>4, <1>5, <1>6, <1>7, <1>8, <1>9, <1>10 DEF Next

LEMMA TypeInvariance == ASSUME NamesDiffer PROVE Spec => []TypeInv
<1>1. Init => TypeInv
  BY TypeInit
<1>. QED
  BY <1>1, TypeStep, PTL DEF Spec

(* Every variable has its type; no stored document holds an empty value.   *)
THEOREM TypeCorrect == ASSUME NamesDiffer PROVE Spec => []TypeOK
<1>1. TypeInv => TypeOK
  BY DEF TypeInv
<1>. QED
  BY <1>1, TypeInvariance, PTL

-----------------------------------------------------------------------------
(* Values stay home.                                                       *)

LEMMA OfferedStays ==
    ASSUME offered \subseteq offered', NEW b, NEW e, OfferedEntry(b, e)
    PROVE  OfferedEntry(b, e)'
BY DEF OfferedEntry

(* An entry mixes nothing but what its config, or its set, was given. *)
LEMMA NextEntryOffered ==
    ASSUME NamesDiffer, TypeInv, OnlyOffered, NEW c \in Client, NEW b \in left[c]
    PROVE  OfferedEntry(b, NextEntry(c, b))
<1>1. /\ call[c].configs \in Partial(Key, Content)
      /\ found[c] \in Partial(Key, Value)
  BY DEF TypeInv, TypeOK
<1>2. /\ \A k \in DOMAIN call[c].configs : <<<<call[c].set, k>>, call[c].configs[k]>> \in offered
      /\ \A k \in DOMAIN found[c] : <<<<call[c].set, k>>, found[c][k]>> \in offered
  BY DEF OnlyOffered
<1>3. CASE call[c].set = Root
  <2>1. b \in Key /\ b \notin SetPath /\ b \in DOMAIN call[c].configs
    BY <1>3, LeftFacts DEF NamesDiffer
  <2>2. NextEntry(c, b).text = call[c].configs[b]
    BY <1>1, <1>3, <2>1, PartialFacts, TextFacts DEF NextEntry
  <2>. QED
    BY <1>2, <1>3, <2>1, <2>2 DEF OfferedEntry
<1>4. CASE call[c].set # Root
  <2>1. b \in SetPath /\ b \notin Key /\ b = call[c].set
    BY <1>4, LeftFacts DEF NamesDiffer
  <2>2. NextEntry(c, b).json = Merged(found[c], call[c].configs)
    BY <1>4, DocumentFacts DEF NextEntry
  <2>3. \A k \in DOMAIN Merged(found[c], call[c].configs) :
            <<<<b, k>>, Merged(found[c], call[c].configs)[k]>> \in offered
    BY <1>1, <1>2, <2>1, MergedFacts
  <2>. QED
    BY <2>1, <2>2, <2>3 DEF OfferedEntry
<1>. QED
  BY <1>3, <1>4

LEMMA OfferedInit == NamesDiffer /\ Init => OnlyOffered
<1>1. SUFFICES ASSUME NamesDiffer, Init PROVE OnlyOffered
  OBVIOUS
<1>2. ASSUME NEW b \in BackendKey
      PROVE  OfferedEntry(b, backend[b])
  <2>1. ASSUME b \in Key
        PROVE  <<<<Root, b>>, backend[b].text>> \in offered
    BY <1>1, <2>1, GetFacts DEF Init, Query
  <2>2. ASSUME b \in SetPath, NEW k \in DOMAIN backend[b].json
        PROVE  <<<<b, k>>, backend[b].json[k]>> \in offered
    <3>1. k \in Key
      BY <1>1, <2>2, EntryFacts, PartialFacts DEF Init
    <3>2. Get(<<b, k>>) = backend[b].json[k] /\ <<b, k>> \in Query
      BY <2>2, <3>1, GetFacts DEF Query
    <3>. QED
      BY <1>1, <3>2 DEF Init
  <2>. QED
    BY <2>1, <2>2 DEF OfferedEntry
<1>. QED
  BY <1>1, <1>2, NothingIsPartial DEF Init, OnlyOffered

LEMMA OfferedStep == NamesDiffer /\ TypeInv /\ OnlyOffered /\ [Next]_vars => OnlyOffered'
<1>1. SUFFICES ASSUME NamesDiffer, TypeInv, OnlyOffered, [Next]_vars PROVE OnlyOffered'
  OBVIOUS
<1>. USE <1>1
<1>2. ASSUME NEW b \in BackendKey, NEW e \in Entries(b), OfferedEntry(b, e),
             backend' = [backend EXCEPT ![b] = e],
             late' \subseteq late, UNCHANGED <<call, found, offered>>
      PROVE  OnlyOffered'
  <2>1. \A d \in BackendKey : OfferedEntry(d, backend[d])' <=> OfferedEntry(d, backend'[d])
    BY <1>2 DEF OfferedEntry
  <2>2. \A d \in BackendKey : OfferedEntry(d, backend'[d])
    BY <1>2, WriteType DEF OnlyOffered
  <2>3. \A w \in late' : OfferedEntry(w[1], w[2])'
    BY <1>2 DEF OnlyOffered, OfferedEntry
  <2>. QED
    BY <1>2, <2>1, <2>2, <2>3 DEF OnlyOffered
<1>3. ASSUME NEW c \in busy, NEW others \in SUBSET left[c], Abandon(c, others)
      PROVE  OnlyOffered'
  <2>1. \A b \in others : OfferedEntry(b, NextEntry(c, b))
    BY NextEntryOffered DEF TypeInv, TypeOK
  <2>2. \A w \in late' : OfferedEntry(w[1], w[2])
    BY <1>3, <2>1 DEF Abandon, OnlyOffered
  <2>. QED
    BY <1>3, <2>2 DEF Abandon, history, OnlyOffered, OfferedEntry
<1>4. ASSUME NEW c \in Client, NEW batch \in Calls[c], StartSet(c, batch)
      PROVE  OnlyOffered'
  <2>1. /\ offered \subseteq offered'
        /\ \A k \in DOMAIN batch.configs : <<<<batch.set, k>>, batch.configs[k]>> \in offered'
        /\ backend' = backend /\ late' = late
        /\ call' = [call EXCEPT ![c] = batch] /\ found' = [found EXCEPT ![c] = Nothing]
    BY <1>4 DEF StartSet
  <2>2. /\ \A b \in BackendKey : OfferedEntry(b, backend[b])'
        /\ \A w \in late' : OfferedEntry(w[1], w[2])'
    BY <2>1 DEF OnlyOffered, OfferedEntry
  <2>3. ASSUME NEW d \in Client
        PROVE  /\ \A k \in DOMAIN call'[d].configs :
                      <<<<call'[d].set, k>>, call'[d].configs[k]>> \in offered'
               /\ \A k \in DOMAIN found'[d] : <<<<call'[d].set, k>>, found'[d][k]>> \in offered'
    <3>1. CASE d = c
      BY <2>1, <3>1, NothingIsPartial DEF TypeInv, Shapes
    <3>2. CASE d # c
      BY <2>1, <3>2 DEF TypeInv, Shapes, OnlyOffered
    <3>. QED
      BY <3>1, <3>2
  <2>. QED
    BY <2>2, <2>3 DEF OnlyOffered
<1>5. ASSUME NEW c \in Client, NEW b \in BackendKey, ReadDocument(c, b)
      PROVE  OnlyOffered'
  <2>1. b = call[c].set /\ b \in SetPath
    BY <1>5, LeftFacts DEF ReadDocument, Reading
  <2>2. /\ found' = [found EXCEPT ![c] = backend[b].json]
        /\ UNCHANGED <<backend, call, late, offered>>
    BY <1>5 DEF ReadDocument, history
  <2>3. \A k \in DOMAIN backend[b].json : <<<<b, k>>, backend[b].json[k]>> \in offered
    BY <2>1 DEF OnlyOffered, OfferedEntry
  <2>4. ASSUME NEW d \in Client
        PROVE  \A k \in DOMAIN found'[d] : <<<<call'[d].set, k>>, found'[d][k]>> \in offered'
    BY <2>1, <2>2, <2>3 DEF TypeInv, Shapes, OnlyOffered
  <2>. QED
    BY <2>2, <2>4 DEF OnlyOffered, OfferedEntry
<1>6. ASSUME NEW c \in Client, NEW b \in BackendKey, ReadFails(c, b)
      PROVE  OnlyOffered'
  BY <1>6 DEF ReadFails, OnlyOffered, OfferedEntry
<1>7. ASSUME NEW c \in Client, NEW b \in BackendKey, Write(c, b)
      PROVE  OnlyOffered'
  BY <1>2, <1>7, NextEntryType, NextEntryOffered DEF Write, Ready, history
<1>8. ASSUME NEW c \in Client, NEW b \in BackendKey, WriteFails(c, b) \/ WriteTimesOut(c, b)
      PROVE  OnlyOffered'
  BY <1>3, <1>8 DEF WriteFails, WriteTimesOut, Ready
<1>9. ASSUME NEW c \in Client, EndSet(c)
      PROVE  OnlyOffered'
  BY <1>9 DEF EndSet, history, OnlyOffered, OfferedEntry
<1>10. ASSUME NEW w \in late, WriteLate(w)
       PROVE  OnlyOffered'
  <2>1. w[1] \in BackendKey /\ w[2] \in Entries(w[1]) /\ OfferedEntry(w[1], w[2])
    BY DEF TypeInv, TypeOK, OnlyOffered
  <2>. QED
    BY <1>2, <1>10, <2>1 DEF WriteLate, history
<1>11. CASE UNCHANGED vars
  BY <1>11 DEF vars, history, OnlyOffered, OfferedEntry
<1>. QED
  BY <1>4, <1>5, <1>6, <1>7, <1>8, <1>9, <1>10, <1>11 DEF Next

(* A value never turns up under a config it was not given for.             *)
THEOREM ValuesComeHome == ASSUME NamesDiffer PROVE Spec => []ValuesStayHome
<1>. DEFINE Inv == TypeInv /\ OnlyOffered
<1>1. Init => Inv
  BY TypeInit, OfferedInit
<1>2. Inv /\ [Next]_vars => Inv'
  BY TypeStep, OfferedStep
<1>3. Inv => ValuesStayHome
  <2>1. SUFFICES ASSUME Inv, NEW s \in SetPath \cup {Root}, NEW k \in Key, Get(<<s, k>>) # Empty
                 PROVE  <<<<s, k>>, Get(<<s, k>>)>> \in offered
    BY DEF ValuesStayHome, Query
  <2>2. CASE s = Root
    BY <2>1, <2>2, GetFacts DEF OnlyOffered, OfferedEntry, BackendKey
  <2>3. CASE s \in SetPath
    <3>1. k \in DOMAIN backend[s].json /\ Get(<<s, k>>) = backend[s].json[k]
      BY <2>1, <2>3, GetFacts
    <3>2. OfferedEntry(s, backend[s])
      BY <2>1, <2>3 DEF OnlyOffered, BackendKey
    <3>. QED
      BY <2>3, <3>1, <3>2 DEF OfferedEntry
  <2>. QED
    BY <2>2, <2>3
<1>. QED
  BY <1>1, <1>2, <1>3, PTL DEF Spec

-----------------------------------------------------------------------------
(* A call that nobody has raced.                                           *)

(* Batches for different sets touch different entries. *)
LEMMA TouchedApart ==
    ASSUME NamesDiffer,
           NEW x \in [set : SetPath \cup {Root}, configs : Partial(Key, Content)],
           NEW y \in [set : SetPath \cup {Root}, configs : Partial(Key, Content)],
           x.set # y.set
    PROVE  Touched(x) \cap Touched(y) = {}
<1>1. DOMAIN x.configs \subseteq Key /\ DOMAIN y.configs \subseteq Key
  BY PartialFacts
<1>. QED
  BY <1>1, TouchedFacts DEF NamesDiffer

(* Another client has nothing to write that such a call touches. *)
LEMMA OthersApart ==
    ASSUME NamesDiffer, TypeInv, Exclusive, NEW c \in busy \ raced, NEW d \in busy \ {c}
    PROVE  left[d] \cap Touched(call[c]) = {}
<1>1. c \in Client /\ d \in Client
  BY DEF TypeInv, TypeOK
<1>2. call[d].set # call[c].set /\ left[d] \subseteq Touched(call[d])
  BY <1>1 DEF Exclusive, TypeInv, LeftIsTouched
<1>3. Touched(call[c]) \cap Touched(call[d]) = {}
  BY <1>1, <1>2, TouchedApart DEF TypeInv, Shapes
<1>. QED
  BY <1>2, <1>3

LEMMA ExclusiveStep == NamesDiffer /\ TypeInv /\ Exclusive /\ [Next]_vars => Exclusive'
<1>1. SUFFICES ASSUME NamesDiffer, TypeInv, Exclusive, [Next]_vars,
                      NEW e \in busy' \ raced'
               PROVE  /\ \A d \in busy' \ {e} : call'[d].set # call'[e].set
                      /\ \A w \in late' : w[1] \notin Touched(call'[e])
  BY DEF Exclusive, Touched
<1>. USE <1>1
<1>2. ASSUME NEW c \in Client, NEW batch \in Calls[c], StartSet(c, batch)
      PROVE  /\ \A d \in busy' \ {e} : call'[d].set # call'[e].set
             /\ \A w \in late' : w[1] \notin Touched(call'[e])
  <2>1. /\ call'[c] = batch
        /\ \A d \in Client \ {c} : call'[d] = call[d]
        /\ busy' = busy \cup {c} /\ c \notin busy /\ late' = late
        /\ busy \subseteq Client
    BY <1>2 DEF StartSet, TypeInv, TypeOK, Shapes
  <2>2. CASE e = c
    <3>1. Rivals(batch) = {} /\ ~Overtaken(batch)
      BY <1>2, <2>2 DEF StartSet
    <3>. QED
      BY <2>1, <2>2, <3>1 DEF Rivals, Overtaken
  <2>3. CASE e # c
    <3>1. e \in busy \ raced /\ call[e].set # batch.set
      BY <1>2, <2>1, <2>3 DEF StartSet, Rivals
    <3>. QED
      BY <2>1, <2>3, <3>1 DEF Exclusive
  <2>. QED
    BY <2>2, <2>3
<1>3. ASSUME NEW c \in busy, NEW others \in SUBSET left[c], Abandon(c, others)
      PROVE  /\ \A d \in busy' \ {e} : call'[d].set # call'[e].set
             /\ \A w \in late' : w[1] \notin Touched(call'[e])
  <2>1. e \in busy \ raced /\ e # c
    BY <1>3 DEF Abandon, history
  <2>2. left[c] \cap Touched(call[e]) = {}
    BY <2>1, OthersApart
  <2>3. \A w \in late' : w \in late \/ w[1] \in left[c]
    BY <1>3 DEF Abandon
  <2>. QED
    BY <1>3, <2>1, <2>2, <2>3 DEF Abandon, Exclusive
<1>4. ASSUME busy' \subseteq busy, late' \subseteq late, UNCHANGED <<call, raced>>
      PROVE  /\ \A d \in busy' \ {e} : call'[d].set # call'[e].set
             /\ \A w \in late' : w[1] \notin Touched(call'[e])
  BY <1>4 DEF Exclusive
<1>5. ASSUME NEW c \in Client, NEW b \in BackendKey,
             ReadDocument(c, b) \/ ReadFails(c, b) \/ Write(c, b)
      PROVE  busy' \subseteq busy /\ late' \subseteq late /\ UNCHANGED <<call, raced>>
  BY <1>5 DEF ReadDocument, ReadFails, Write, history
<1>6. ASSUME NEW c \in Client, NEW b \in BackendKey, WriteFails(c, b) \/ WriteTimesOut(c, b)
      PROVE  \E others \in SUBSET left[c] : c \in busy /\ Abandon(c, others)
  BY <1>6 DEF WriteFails, WriteTimesOut, Ready
<1>7. ASSUME NEW c \in Client, EndSet(c)
      PROVE  busy' \subseteq busy /\ late' \subseteq late /\ UNCHANGED <<call, raced>>
  BY <1>7 DEF EndSet, history
<1>8. ASSUME NEW w \in late, WriteLate(w)
      PROVE  busy' \subseteq busy /\ late' \subseteq late /\ UNCHANGED <<call, raced>>
  BY <1>8 DEF WriteLate, history
<1>9. CASE UNCHANGED vars
  BY <1>4, <1>9 DEF vars, history
<1>. QED
  BY <1>2, <1>3, <1>4, <1>5, <1>6, <1>7, <1>8, <1>9 DEF Next

(* Nobody wrote what c touches: what c has stored and read stands.         *)
LEMMA Undisturbed ==
    ASSUME TypeInv, NEW c \in busy,
           \A b \in Touched(call[c]) : backend'[b] = backend[b],
           call'[c] = call[c], left'[c] = left[c], found'[c] = found[c],
           c \in answered' => c \in answered
    PROVE  /\ WrittenIsStored(c) => WrittenIsStored(c)'
           /\ FoundIsCurrent(c) => FoundIsCurrent(c)'
<1>1. c \in Client /\ call[c] \in [set : SetPath \cup {Root}, configs : Partial(Key, Content)]
  BY DEF TypeInv, TypeOK, Shapes
<1>2. \A k \in DOMAIN call[c].configs :
        Get(<<call[c].set, k>>)' = Get(<<call[c].set, k>>)
  BY <1>1, TouchedFacts DEF Get
<1>3. WrittenIsStored(c) => WrittenIsStored(c)'
  BY <1>2 DEF WrittenIsStored
<1>4. FoundIsCurrent(c) => FoundIsCurrent(c)'
  <2>1. SUFFICES ASSUME FoundIsCurrent(c), call[c].set # Root, c \in answered, left[c] # {}
                 PROVE  found[c] = backend'[call[c].set].json
    BY DEF FoundIsCurrent
  <2>2. call[c].set \in left[c] /\ left[c] \subseteq Touched(call[c])
    BY <1>1, <2>1, LeftFacts DEF TypeInv, LeftIsTouched
  <2>. QED
    BY <2>1, <2>2 DEF FoundIsCurrent
<1>. QED
  BY <1>3, <1>4

(* What a write does to the configs of its client. *)
LEMMA WriteStores ==
    ASSUME TypeInv, NEW c \in Client, NEW b \in BackendKey, Write(c, b)
    PROVE  /\ call[c].set = Root =>
                 /\ b \in DOMAIN call[c].configs
                 /\ Get(<<Root, b>>)' = call[c].configs[b]
           /\ call[c].set # Root =>
                 /\ b = call[c].set /\ left'[c] = {}
                 /\ backend'[b].json = Merged(found[c], call[c].configs)
                 /\ \A k \in DOMAIN call[c].configs :
                       Get(<<b, k>>)' = call[c].configs[k]
<1>1. /\ call[c].configs \in Partial(Key, Content) /\ found[c] \in Partial(Key, Value)
      /\ b \in left[c]
      /\ left' = [left EXCEPT ![c] = @ \ {b}]
      /\ backend' = [backend EXCEPT ![b] = NextEntry(c, b)]
  BY DEF Write, Ready, TypeInv, TypeOK
<1>2. backend'[b] = NextEntry(c, b)
  BY <1>1 DEF TypeInv, Shapes
<1>3. CASE call[c].set = Root
  <2>1. b \in Key /\ b \in DOMAIN call[c].configs /\ call[c].configs[b] \in Content
    BY <1>1, <1>3, LeftFacts, PartialFacts
  <2>2. Get(<<Root, b>>)' = backend'[b].text
    BY DEF Get, CalcKey
  <2>. QED
    BY <1>2, <1>3, <2>1, <2>2, TextFacts DEF NextEntry
<1>4. CASE call[c].set # Root
  <2>1. b = call[c].set /\ b \in SetPath /\ left[c] = {b}
    BY <1>1, <1>4, LeftFacts
  <2>2. backend'[b].json = Merged(found[c], call[c].configs)
    BY <1>2, <1>4, DocumentFacts DEF NextEntry
  <2>3. ASSUME NEW k \in DOMAIN call[c].configs
        PROVE  Get(<<b, k>>)' = call[c].configs[k]
    <3>1. Get(<<b, k>>)' = IF k \in DOMAIN backend'[b].json THEN backend'[b].json[k] ELSE Empty
      BY <1>4, <2>1 DEF Get, CalcKey
    <3>. QED
      BY <1>1, <2>2, <3>1, MergedFacts
  <2>4. left'[c] = {}
    BY <1>1, <2>1 DEF TypeInv, Shapes
  <2>. QED
    BY <1>4, <2>1, <2>2, <2>3, <2>4
<1>. QED
  BY <1>3, <1>4

LEMMA UndisturbedStep ==
    ASSUME NamesDiffer, IInv, [Next]_vars
    PROVE  \A c \in busy' \ raced' :
              /\ WrittenIsStored(c)'
              /\ c \notin misread' => FoundIsCurrent(c)'
<1>1. SUFFICES ASSUME NEW c \in busy' \ raced'
               PROVE  /\ WrittenIsStored(c)'
                      /\ c \notin misread' => FoundIsCurrent(c)'
  OBVIOUS
<1>2. /\ TypeInv /\ Exclusive
      /\ c \in busy \ raced =>
            /\ WrittenIsStored(c)
            /\ c \notin misread => FoundIsCurrent(c)
  BY DEF IInv
<1>3. busy \subseteq Client
  BY <1>2 DEF TypeInv, TypeOK
<1>4. ASSUME NEW d \in Client, NEW batch \in Calls[d], StartSet(d, batch)
      PROVE  WrittenIsStored(c)' /\ (c \notin misread' => FoundIsCurrent(c)')
  <2>1. CASE d = c
    <3>1. call'[c] = batch /\ left'[c] = Touched(batch) /\ c \notin answered'
      BY <1>2, <1>4, <2>1 DEF StartSet, TypeInv, Shapes
    <3>2. \A k \in DOMAIN batch.configs : CalcKey(<<batch.set, k>>) \in Touched(batch)
      BY DEF Touched
    <3>. QED
      BY <3>1, <3>2 DEF WrittenIsStored, FoundIsCurrent
  <2>2. CASE d # c
    <3>1. /\ c \in busy \ raced /\ (c \in misread' <=> c \in misread)
          /\ call'[c] = call[c] /\ left'[c] = left[c] /\ found'[c] = found[c]
          /\ c \in answered' => c \in answered
          /\ backend' = backend
      BY <1>2, <1>3, <1>4, <2>2 DEF StartSet, TypeInv, Shapes
    <3>. QED
      BY <1>2, <3>1, Undisturbed
  <2>. QED
    BY <2>1, <2>2
<1>5. ASSUME NEW d \in Client, NEW b \in BackendKey, ReadDocument(d, b)
      PROVE  WrittenIsStored(c)' /\ (c \notin misread' => FoundIsCurrent(c)')
  <2>1. /\ c \in busy \ raced /\ misread' = misread
        /\ UNCHANGED <<backend, call, left>>
        /\ found' = [found EXCEPT ![d] = backend[b].json]
        /\ answered' = answered \cup {d}
    BY <1>5 DEF ReadDocument, history
  <2>2. CASE d = c
    <3>1. found'[c] = backend[call[c].set].json
      BY <1>2, <1>3, <1>5, <2>1, <2>2, LeftFacts DEF ReadDocument, Reading, TypeInv, Shapes
    <3>2. WrittenIsStored(c)'
      BY <1>2, <2>1 DEF WrittenIsStored, Get
    <3>. QED
      BY <2>1, <3>1, <3>2 DEF FoundIsCurrent
  <2>3. CASE d # c
    <3>1. found'[c] = found[c]
      BY <1>2, <1>3, <2>1, <2>3 DEF TypeInv, Shapes
    <3>. QED
      BY <1>2, <2>1, <2>3, <3>1, Undisturbed
  <2>. QED
    BY <2>2, <2>3
<1>6. ASSUME NEW d \in Client, NEW b \in BackendKey, ReadFails(d, b)
      PROVE  WrittenIsStored(c)' /\ (c \notin misread' => FoundIsCurrent(c)')
  <2>1. /\ c \in busy \ raced /\ misread' = misread \cup {d}
        /\ UNCHANGED <<backend, call, left, found>>
        /\ answered' = answered \cup {d}
    BY <1>6 DEF ReadFails
  <2>2. WrittenIsStored(c)'
    BY <1>2, <2>1 DEF WrittenIsStored, Get
  <2>3. c \notin misread' => FoundIsCurrent(c)'
    BY <1>2, <2>1 DEF FoundIsCurrent
  <2>. QED
    BY <2>2, <2>3
<1>7. ASSUME NEW d \in Client, NEW b \in BackendKey, Write(d, b)
      PROVE  WrittenIsStored(c)' /\ (c \notin misread' => FoundIsCurrent(c)')
  <2>1. /\ c \in busy \ raced /\ c \in Client /\ misread' = misread
        /\ b \in left[d] /\ d \in busy
        /\ left' = [left EXCEPT ![d] = @ \ {b}]
        /\ backend' = [backend EXCEPT ![b] = NextEntry(d, b)]
        /\ UNCHANGED <<call, found, answered>>
    BY <1>3, <1>7 DEF Write, Ready, history
  <2>2. CASE d = c /\ call[c].set = Root
    <3>1. \A k \in DOMAIN call[c].configs \ {b} : k \in BackendKey
      BY <1>2, <2>1, PartialFacts DEF BackendKey, TypeInv, TypeOK
    <3>2. \A k \in DOMAIN call[c].configs \ {b} : Get(<<Root, k>>)' = Get(<<Root, k>>)
      BY <1>2, <2>1, <3>1 DEF Get, CalcKey, TypeInv, Shapes
    <3>3. left'[c] = left[c] \ {b}
      BY <1>2, <2>1, <2>2 DEF TypeInv, Shapes
    <3>4. Get(<<Root, b>>)' = call[c].configs[b]
      BY <1>2, <1>7, <2>1, <2>2, WriteStores
    <3>5. WrittenIsStored(c)'
      BY <1>2, <2>1, <2>2, <3>2, <3>3, <3>4 DEF WrittenIsStored, CalcKey
    <3>. QED
      BY <2>1, <2>2, <3>5 DEF FoundIsCurrent
  <2>3. CASE d = c /\ call[c].set # Root
    <3>1. /\ b = call[c].set /\ left'[c] = {}
          /\ \A k \in DOMAIN call[c].configs : Get(<<b, k>>)' = call[c].configs[k]
      BY <1>2, <1>7, <2>3, WriteStores
    <3>2. \A k \in DOMAIN call'[c].configs :
              Get(<<call[c].set, k>>)' = call'[c].configs[k]
      BY <2>1, <3>1 DEF Get
    <3>. QED
      BY <3>1, <3>2 DEF WrittenIsStored, FoundIsCurrent
  <2>4. CASE d # c
    <3>1. b \notin Touched(call[c])
      BY <1>2, <2>1, <2>4, OthersApart
    <3>2. \A x \in Touched(call[c]) : backend'[x] = backend[x]
      BY <1>2, <2>1, <3>1, TouchedFacts DEF TypeInv, Shapes
    <3>3. left'[c] = left[c]
      BY <1>2, <2>1, <2>4 DEF TypeInv, Shapes
    <3>. QED
      BY <1>2, <2>1, <3>2, <3>3, Undisturbed
  <2>. QED
    BY <2>2, <2>3, <2>4
<1>8. ASSUME NEW d \in Client, NEW others, Abandon(d, others)
      PROVE  WrittenIsStored(c)' /\ (c \notin misread' => FoundIsCurrent(c)')
  <2>1. /\ c \in busy \ raced /\ c # d /\ c \in Client
        /\ UNCHANGED <<backend, call, answered, found, misread>>
        /\ left'[c] = left[c]
    BY <1>2, <1>3, <1>8 DEF Abandon, history, TypeInv, Shapes
  <2>. QED
    BY <1>2, <2>1, Undisturbed
<1>9. ASSUME NEW d \in Client, EndSet(d)
      PROVE  WrittenIsStored(c)' /\ (c \notin misread' => FoundIsCurrent(c)')
  <2>1. /\ c \in busy \ raced
        /\ UNCHANGED <<backend, call, left, answered, found, misread>>
    BY <1>9 DEF EndSet, history
  <2>. QED
    BY <1>2, <2>1, Undisturbed
<1>10. ASSUME NEW w \in late, WriteLate(w)
       PROVE  WrittenIsStored(c)' /\ (c \notin misread' => FoundIsCurrent(c)')
  <2>1. /\ c \in busy \ raced /\ c \in Client
        /\ UNCHANGED <<call, left, answered, found, misread>>
        /\ backend' = [backend EXCEPT ![w[1]] = w[2]]
    BY <1>3, <1>10 DEF WriteLate, history
  <2>2. w[1] \notin Touched(call[c])
    BY <1>2, <2>1 DEF Exclusive
  <2>3. \A x \in Touched(call[c]) : backend'[x] = backend[x]
    BY <1>2, <2>1, <2>2, TouchedFacts DEF TypeInv, Shapes
  <2>. QED
    BY <1>2, <2>1, <2>3, Undisturbed
<1>11. CASE UNCHANGED vars
  BY <1>2, <1>11, Undisturbed DEF vars, history
<1>12. ASSUME NEW d \in Client, NEW b \in BackendKey, WriteFails(d, b) \/ WriteTimesOut(d, b)
       PROVE  \E others : Abandon(d, others)
  BY <1>12 DEF WriteFails, WriteTimesOut
<1>. QED
  BY <1>4, <1>5, <1>6, <1>7, <1>8, <1>9, <1>10, <1>11, <1>12 DEF Next

LEMMA Invariance == ASSUME NamesDiffer PROVE Spec => []IInv
<1>1. Init => IInv
  BY TypeInit, OfferedInit DEF Init, Exclusive, IInv
<1>2. IInv /\ [Next]_vars => IInv'
  BY TypeStep, OfferedStep, ExclusiveStep, UndisturbedStep DEF IInv
<1>. QED
  BY <1>1, <1>2, PTL DEF Spec

(* A counter that stays tells that nothing has failed. *)
LEMMA CountersMove ==
    ASSUME TypeInv, NEW c \in Client, NEW b \in BackendKey
    PROVE  /\ WriteFails(c, b) => writeErrors' # writeErrors
           /\ WriteTimesOut(c, b) => timeouts' # timeouts
BY DEF WriteFails, WriteTimesOut, TypeInv, TypeOK

(* A set that resolves, and that no other write of its set overlapped, has *)
(* stored all its configs.                                                 *)
THEOREM ResolvedIsStored == ASSUME NamesDiffer PROVE Spec => AckedIsStored
<1>1. ASSUME IInv, [Next]_vars,
             NEW c \in busy \ (busy' \cup raced), writeErrors' = writeErrors, timeouts' = timeouts,
             NEW k \in DOMAIN call[c].configs
      PROVE  Get(<<call[c].set, k>>) = call[c].configs[k]
  <2>. USE <1>1
  <2>1. TypeInv /\ WrittenIsStored(c)
    BY DEF IInv
  <2>2. EndSet(c)
    <3>1. ASSUME NEW d \in Client, NEW batch \in Calls[d], StartSet(d, batch)
          PROVE  FALSE
      BY <3>1 DEF StartSet
    <3>2. ASSUME NEW d \in Client, NEW b \in BackendKey,
                 ReadDocument(d, b) \/ ReadFails(d, b) \/ Write(d, b)
          PROVE  FALSE
      BY <3>2 DEF ReadDocument, ReadFails, Write
    <3>3. ASSUME NEW w \in late, WriteLate(w)
          PROVE  FALSE
      BY <3>3 DEF WriteLate
    <3>4. CASE UNCHANGED vars
      BY <3>4 DEF vars
    <3>5. ASSUME NEW d \in Client, EndSet(d)
          PROVE  d = c
      BY <3>5 DEF EndSet
    <3>. QED
      BY <2>1, <3>1, <3>2, <3>3, <3>4, <3>5, CountersMove DEF Next
  <2>. QED
    BY <2>1, <2>2 DEF EndSet, WrittenIsStored
<1>2. IInv /\ [Next]_vars =>
        [\A c \in busy \ (busy' \cup raced) :
            writeErrors' = writeErrors /\ timeouts' = timeouts =>
                \A k \in DOMAIN call[c].configs :
                    Get(<<call[c].set, k>>) = call[c].configs[k]]_vars
  BY <1>1
<1>. QED
  BY <1>2, Invariance, PTL DEF Spec, AckedIsStored

(* Writing its batch, a call that nobody raced and whose read has not      *)
(* failed leaves the other configs of its set alone.                       *)
LEMMA WriteSpares ==
    ASSUME Reparsed = {}, IInv, NEW c \in busy \ (raced \cup misread), c \in Client,
           NEW b \in BackendKey, Write(c, b),
           NEW k \in Key \ DOMAIN call[c].configs
    PROVE  Get(<<call[c].set, k>>)' = Get(<<call[c].set, k>>)
<1>1. /\ TypeInv /\ call' = call
      /\ backend' = [backend EXCEPT ![b] = NextEntry(c, b)] /\ b \in left[c]
  BY DEF IInv, Write, Ready
<1>2. CASE call[c].set = Root
  <2>1. b # k /\ k \in BackendKey
    BY <1>1, <1>2, LeftFacts DEF BackendKey
  <2>. QED
    BY <1>1, <1>2, <2>1 DEF Get, CalcKey, TypeInv, Shapes
<1>3. CASE call[c].set # Root
  <2>1. /\ b = call[c].set /\ b \in SetPath
        /\ backend'[b].json = Merged(found[c], call[c].configs)
    BY <1>1, <1>3, LeftFacts, WriteStores
  <2>2. found[c] = backend[b].json
    BY <1>3, <2>1 DEF IInv, FoundIsCurrent, Write, Ready
  <2>3. /\ found[c] \in Partial(Key, Value) /\ call[c].configs \in Partial(Key, Content)
    BY <1>1 DEF TypeInv, TypeOK
  <2>4. Get(<<b, k>>) = IF k \in DOMAIN found[c] THEN found[c][k] ELSE Empty
    BY <2>1, <2>2, GetFacts
  <2>5. Get(<<b, k>>)' = IF k \in DOMAIN backend'[b].json THEN backend'[b].json[k] ELSE Empty
    BY <1>3, <2>1 DEF Get, CalcKey
  <2>6. Get(<<b, k>>)' = Get(<<b, k>>)
    BY <2>1, <2>3, <2>4, <2>5, MergedFacts
  <2>. QED
    BY <1>1, <2>1, <2>6 DEF Get
<1>. QED
  BY <1>2, <1>3

(* The configs a call was not given stand, whatever else goes on.          *)
THEOREM SiblingsSurvive == ASSUME NamesDiffer, Reparsed = {} PROVE Spec => SiblingsSafe
<1>1. ASSUME IInv, [Next]_vars,
             NEW c \in busy \ (raced \cup misread), left'[c] # left[c], late' = late,
             NEW k \in Key \ DOMAIN call[c].configs
      PROVE  Get(<<call[c].set, k>>)' = Get(<<call[c].set, k>>)
  <2>. USE <1>1
  <2>1. TypeInv /\ c \in Client
    BY DEF IInv, TypeInv, TypeOK
  <2>2. ASSUME NEW d \in Client, NEW batch \in Calls[d], StartSet(d, batch)
        PROVE  FALSE
    BY <2>1, <2>2 DEF StartSet, TypeInv, Shapes
  <2>3. ASSUME NEW d \in Client, NEW b \in BackendKey, Write(d, b)
        PROVE  Get(<<call[c].set, k>>)' = Get(<<call[c].set, k>>)
    <3>1. d = c
      BY <2>1, <2>3 DEF Write, TypeInv, Shapes
    <3>. QED
      BY <2>1, <2>3, <3>1, WriteSpares
  <2>4. ASSUME UNCHANGED <<backend, call>>
        PROVE  Get(<<call[c].set, k>>)' = Get(<<call[c].set, k>>)
    BY <2>4 DEF Get
  <2>5. ASSUME NEW d \in Client, NEW b \in BackendKey,
               ReadDocument(d, b) \/ ReadFails(d, b) \/ WriteFails(d, b) \/ WriteTimesOut(d, b)
        PROVE  UNCHANGED <<backend, call>>
    BY <2>5 DEF ReadDocument, ReadFails, WriteFails, WriteTimesOut, Abandon
  <2>6. ASSUME NEW d \in Client, EndSet(d)
        PROVE  UNCHANGED <<backend, call>>
    BY <2>6 DEF EndSet
  <2>7. ASSUME NEW w \in late, WriteLate(w)
        PROVE  FALSE
    BY <2>7 DEF WriteLate
  <2>8. CASE UNCHANGED vars
    BY <2>8 DEF vars
  <2>. QED
    BY <2>2, <2>3, <2>4, <2>5, <2>6, <2>7, <2>8 DEF Next
<1>2. IInv /\ [Next]_vars =>
        [\A c \in busy \ (raced \cup misread) :
            left'[c] # left[c] /\ late' = late =>
                \A k \in Key \ DOMAIN call[c].configs :
                    Get(<<call[c].set, k>>)' = Get(<<call[c].set, k>>)]_vars
  BY <1>1
<1>. QED
  BY <1>2, Invariance, PTL DEF Spec, SiblingsSafe

-----------------------------------------------------------------------------
(* The refinement of ConfigStore.                                          *)

(* What of a batch is pending. *)
LEMMA PendingFacts ==
    ASSUME TypeInv, NEW c \in Client
    PROVE  /\ DOMAIN Pending(c) \subseteq Query
           /\ \A q \in DOMAIN Pending(c) :
                 /\ q = <<call[c].set, q[2]>> /\ q[2] \in DOMAIN call[c].configs
                 /\ Pending(c)[q] = call[c].configs[q[2]]
                 /\ Pending(c)[q] \in Content
           /\ c \in busy /\ call[c].set = Root =>
                 DOMAIN Pending(c) = {<<Root, k>> : k \in left[c]}
           /\ c \in busy /\ call[c].set # Root =>
                 DOMAIN Pending(c) = {<<call[c].set, k>> : k \in {j \in DOMAIN call[c].configs : left[c] # {}}}
           /\ left[c] = {} => Pending(c) = Abstract!NoBatch
           /\ Pending(c) \in Abstract!Batch
<1>. DEFINE D == {p \in Query : /\ c \in busy /\ p[1] = call[c].set
                                /\ p[2] \in DOMAIN call[c].configs
                                /\ CalcKey(p) \in left[c]}
<1>1. Pending(c) = [q \in D |-> call[c].configs[q[2]]]
  BY DEF Pending
<1>2. /\ call[c].set \in SetPath \cup {Root}
      /\ DOMAIN call[c].configs \subseteq Key
      /\ \A k \in DOMAIN call[c].configs : call[c].configs[k] \in Content
  BY PartialFacts DEF TypeInv, TypeOK
<1>3. \A q \in D : /\ q = <<call[c].set, q[2]>> /\ q[2] \in DOMAIN call[c].configs
                   /\ call[c].configs[q[2]] \in Content
  BY <1>2 DEF Query
<1>4. ASSUME c \in busy, call[c].set = Root
      PROVE  D = {<<Root, k>> : k \in left[c]}
  BY <1>2, <1>4, LeftFacts DEF Query, CalcKey
<1>5. ASSUME c \in busy, call[c].set # Root
      PROVE  D = {<<call[c].set, k>> : k \in {j \in DOMAIN call[c].configs : left[c] # {}}}
  <2>1. \A k \in DOMAIN call[c].configs : CalcKey(<<call[c].set, k>>) = call[c].set
    BY <1>5 DEF CalcKey
  <2>2. left[c] # {} <=> call[c].set \in left[c]
    BY <1>5, LeftFacts
  <2>. QED
    BY <1>2, <1>5, <2>1, <2>2 DEF Query
<1>6. Pending(c) \in [D -> Content] /\ D \subseteq Query
  BY <1>1, <1>3
<1>7. ASSUME left[c] = {} PROVE Pending(c) = Abstract!NoBatch
  <2>1. D = {}
    BY <1>7
  <2>. QED
    BY <1>1, <2>1 DEF Abstract!NoBatch
<1>. QED
  BY <1>1, <1>3, <1>4, <1>5, <1>6, <1>7 DEF Abstract!Batch

LEMMA PendingIsBatch ==
    ASSUME NEW c \in Client
    PROVE  TypeInv' => (Pending(c) \in Abstract!Batch)'
<1>1. TypeInv => Pending(c) \in Abstract!Batch
  BY PendingFacts
<1>. QED
  BY <1>1, PTL

(* Only configs behind the entry that is written change. *)
LEMMA GetElsewhere ==
    ASSUME TypeInv, NEW b \in BackendKey, NEW e, backend' = [backend EXCEPT ![b] = e],
           NEW q \in Query, CalcKey(q) # b
    PROVE  Get(q)' = Get(q)
<1>1. CalcKey(q) \in BackendKey
  BY DEF Query, CalcKey, BackendKey
<1>. QED
  BY <1>1 DEF Get, TypeInv, Shapes

(* Steps that move neither an entry nor a batch are no steps of the store. *)
LEMMA Stutters ==
    ASSUME UNCHANGED <<backend, call, left, busy, late>>
    PROVE  UNCHANGED Abstract!storeVars
BY DEF Abstract!storeVars, Get, Pending

LEMMA StartIsSubmit ==
    ASSUME TypeInv, TypeInv', NEW c \in Client, NEW batch \in Calls[c], StartSet(c, batch)
    PROVE  Abstract!StoreNext
<1>1. /\ c \notin busy /\ busy' = busy \cup {c}
      /\ UNCHANGED <<backend, late>>
      /\ \A d \in Client \ {c} : call'[d] = call[d] /\ left'[d] = left[d]
  BY DEF StartSet, TypeInv, Shapes
<1>2. \A d \in Client \ {c} : Pending(d)' = Pending(d)
  BY <1>1 DEF Pending
<1>3. Abstract!Submit(c, Pending(c)')
  BY <1>1, <1>2 DEF Abstract!Submit, Get
<1>4. (Pending(c) \in Abstract!Batch)'
  BY PendingIsBatch
<1>. QED
  BY <1>3, <1>4 DEF Abstract!StoreNext, Abstract!Batch

LEMMA EndIsResolve ==
    ASSUME TypeInv, NEW c \in Client, EndSet(c)
    PROVE  Abstract!StoreNext
<1>1. /\ c \in busy /\ left[c] = {} /\ busy' = busy \ {c}
      /\ UNCHANGED <<backend, call, left, late>>
  BY DEF EndSet
<1>2. Pending(c) = Abstract!NoBatch
  BY <1>1, PendingFacts
<1>3. \A d \in Client : Pending(d)' = Pending(d)
  <2>1. ASSUME NEW d \in Client PROVE Pending(d)' = Pending(d)
    BY <1>1 DEF Pending
  <2>. QED
    BY <2>1
<1>4. Abstract!Resolve(c)
  BY <1>1, <1>2, <1>3 DEF Abstract!Resolve, Get
<1>. QED
  BY <1>4 DEF Abstract!StoreNext

(* A write applies the configs of its entry, unless its document is stale. *)
LEMMA WriteIsApply ==
    ASSUME NamesDiffer, Reparsed = {}, IInv, NEW c \in Client, NEW b \in BackendKey, Write(c, b),
           call[c].set = Root \/ c \notin raced \cup misread
    PROVE  Abstract!StoreNext
<1>. DEFINE D == {q \in DOMAIN Pending(c) : CalcKey(q) = b}
<1>1. /\ TypeInv /\ c \in busy /\ b \in left[c]
      /\ left' = [left EXCEPT ![c] = @ \ {b}]
      /\ backend' = [backend EXCEPT ![b] = NextEntry(c, b)]
      /\ UNCHANGED <<call, busy, late>>
  BY DEF IInv, Write, Ready
<1>2. ASSUME NEW q \in Query
      PROVE  q \in DOMAIN Pending(c) <=> /\ q[1] = call[c].set /\ q[2] \in DOMAIN call[c].configs
                                         /\ CalcKey(q) \in left[c]
  BY <1>1 DEF Pending
<1>3. D # {} /\ D \subseteq DOMAIN Pending(c) /\ D \subseteq Query
  <2>1. CASE call[c].set = Root
    <3>1. b \in DOMAIN call[c].configs /\ b \in Key
      BY <1>1, <2>1, LeftFacts
    <3>2. <<Root, b>> \in Query /\ CalcKey(<<Root, b>>) = b
      BY <3>1 DEF Query, CalcKey
    <3>. QED
      BY <1>1, <1>2, <2>1, <3>1, <3>2, PendingFacts
  <2>2. CASE call[c].set # Root
    <3>1. b = call[c].set /\ b \in SetPath /\ DOMAIN call[c].configs # {}
      BY <1>1, <2>2, LeftFacts
    <3>2. PICK k \in DOMAIN call[c].configs : k \in Key
      BY <1>1, <3>1, PartialFacts DEF TypeInv, TypeOK
    <3>3. <<b, k>> \in Query /\ CalcKey(<<b, k>>) = b
      BY <2>2, <3>1, <3>2 DEF Query, CalcKey
    <3>. QED
      BY <1>1, <1>2, <3>1, <3>2, <3>3, PendingFacts
  <2>. QED
    BY <2>1, <2>2
<1>4. ASSUME NEW q \in Query
      PROVE  Get(q)' = IF q \in D THEN Pending(c)[q] ELSE Get(q)
  <2>1. PICK s \in SetPath \cup {Root}, k \in Key : q = <<s, k>>
    BY DEF Query
  <2>2. CASE q \in D
    <3>1. k \in DOMAIN call[c].configs /\ s = call[c].set /\ Pending(c)[q] = call[c].configs[k]
      BY <1>1, <2>1, <2>2, PendingFacts
    <3>2. b = CalcKey(q)
      BY <2>2
    <3>3. Get(<<s, k>>)' = call[c].configs[k]
      <4>1. CASE s = Root
        <5>1. b = k /\ call[c].set = Root
          BY <2>1, <3>1, <3>2, <4>1 DEF CalcKey
        <5>2. Get(<<Root, b>>)' = call[c].configs[b]
          BY <1>1, <5>1, WriteStores
        <5>. QED
          BY <4>1, <5>1, <5>2 DEF Get
      <4>2. CASE s # Root
        <5>1. b = s /\ call[c].set # Root
          BY <2>1, <3>1, <3>2, <4>2 DEF CalcKey
        <5>2. Get(<<b, k>>)' = call[c].configs[k]
          <6>1. \A j \in DOMAIN call[c].configs : Get(<<b, j>>)' = call[c].configs[j]
            BY <1>1, <5>1, WriteStores
          <6>. QED
            BY <3>1, <6>1 DEF Get
        <5>. QED
          BY <5>1, <5>2 DEF Get
      <4>. QED
        BY <4>1, <4>2
    <3>. QED
      BY <2>1, <2>2, <3>1, <3>3
  <2>3. CASE q \notin D /\ CalcKey(q) # b
    BY <1>1, <2>3, GetElsewhere
  <2>4. CASE q \notin D /\ CalcKey(q) = b
    <3>1. s = call[c].set
      <4>1. CASE call[c].set = Root
        BY <1>1, <2>1, <2>4, <4>1, LeftFacts DEF NamesDiffer, CalcKey
      <4>2. CASE call[c].set # Root
        BY <1>1, <2>1, <2>4, <4>2, LeftFacts DEF NamesDiffer, CalcKey
      <4>. QED
        BY <4>1, <4>2
    <3>2. k \notin DOMAIN call[c].configs
      BY <1>1, <1>2, <2>1, <2>4, <3>1
    <3>3. call[c].set # Root
      BY <1>1, <2>1, <2>4, <3>1, <3>2, LeftFacts DEF CalcKey
    <3>4. Get(<<call[c].set, k>>)' = Get(<<call[c].set, k>>)
      BY <1>1, <3>2, <3>3, WriteSpares
    <3>5. Get(<<s, k>>)' = Get(<<s, k>>)
      BY <1>1, <3>1, <3>4 DEF Get
    <3>. QED
      BY <2>1, <2>4, <3>5
  <2>. QED
    BY <2>2, <2>3, <2>4
<1>5. Pending(c)' = Abstract!Without(Pending(c), D)
  <2>1. left'[c] = left[c] \ {b}
    BY <1>1 DEF TypeInv, Shapes
  <2>. QED
    BY <1>1, <2>1 DEF Pending, Abstract!Without
<1>6. \A d \in Client \ {c} : Pending(d)' = Pending(d)
  <2>1. ASSUME NEW d \in Client \ {c} PROVE Pending(d)' = Pending(d)
    <3>1. left'[d] = left[d]
      BY <1>1 DEF TypeInv, Shapes
    <3>. QED
      BY <1>1, <3>1 DEF Pending
  <2>. QED
    BY <2>1
<1>. HIDE DEF D
<1>7. [q \in Query |-> Get(q)]'
          = Abstract!Override([q \in Query |-> Get(q)], Abstract!Only(Pending(c), D))
  <2>1. \A q \in Query : Get(q)' = IF q \in D THEN Pending(c)[q] ELSE Get(q)
    BY <1>4
  <2>. QED
    BY <1>3, <2>1 DEF Abstract!Override, Abstract!Only
<1>8. Abstract!Apply(c, D)
  BY <1>1, <1>3, <1>5, <1>6, <1>7 DEF Abstract!Apply
<1>. QED
  BY <1>3, <1>8 DEF Abstract!StoreNext

(* A set that is given up is rejected; what it leaves behind of the root   *)
(* set are orphans.                                                        *)
LEMMA AbandonIsReject ==
    ASSUME NamesDiffer, TypeInv, NEW c \in busy, NEW others \in SUBSET left[c], Abandon(c, others)
    PROVE  Abstract!StoreNext
<1>. DEFINE D == {q \in DOMAIN Pending(c) : q[1] = Root /\ q[2] \in others}
            Orphans == {<<<<Root, w[1]>>, w[2].text>> : w \in {x \in late : x[1] \in Key}}
<1>1. /\ c \in Client /\ busy' = busy \ {c}
      /\ UNCHANGED <<backend, call, found>>
      /\ left' = [left EXCEPT ![c] = {}]
      /\ late' = late \cup {<<b, NextEntry(c, b)>> : b \in others}
  BY DEF Abandon, TypeInv, TypeOK
<1>2. Pending(c)' = Abstract!NoBatch
  <2>1. left'[c] = {}
    BY <1>1 DEF TypeInv, Shapes
  <2>. QED
    BY <2>1 DEF Pending, Abstract!NoBatch
<1>3. \A d \in Client \ {c} : Pending(d)' = Pending(d)
  <2>1. ASSUME NEW d \in Client \ {c} PROVE Pending(d)' = Pending(d)
    <3>1. left'[d] = left[d]
      BY <1>1 DEF TypeInv, Shapes
    <3>. QED
      BY <1>1, <3>1 DEF Pending
  <2>. QED
    BY <2>1
<1>4. Orphans' = Orphans \cup {<<q, Pending(c)[q]>> : q \in D}
  <2>1. CASE call[c].set = Root
    <3>1. \A b \in others :
             /\ b \in Key /\ <<Root, b>> \in D
             /\ NextEntry(c, b).text = Pending(c)[<<Root, b>>]
      <4>1. ASSUME NEW b \in others
            PROVE  b \in Key /\ b \in DOMAIN call[c].configs /\ call[c].configs[b] \in Content
        BY <1>1, <2>1, LeftFacts, PartialFacts DEF TypeInv, TypeOK
      <4>2. DOMAIN Pending(c) = {<<Root, k>> : k \in left[c]}
        BY <1>1, <2>1, PendingFacts
      <4>3. ASSUME NEW b \in others
            PROVE  <<Root, b>> \in D /\ NextEntry(c, b).text = Pending(c)[<<Root, b>>]
        <5>1. <<Root, b>> \in DOMAIN Pending(c)
          BY <4>2
        <5>2. Pending(c)[<<Root, b>>] = call[c].configs[b]
          BY <1>1, <5>1, PendingFacts
        <5>3. NextEntry(c, b).text = call[c].configs[b]
          BY <2>1, <4>1, TextFacts DEF NextEntry
        <5>. QED
          BY <5>1, <5>2, <5>3
      <4>. QED
        BY <4>1, <4>3
    <3>2. \A q \in D : q = <<Root, q[2]>> /\ q[2] \in others
      BY <1>1, <2>1, PendingFacts
    <3>3. Orphans' = Orphans \cup {<<<<Root, b>>, NextEntry(c, b).text>> : b \in others}
      <4>1. {y \in late' : y[1] \in Key}
                = {y \in late : y[1] \in Key} \cup {<<b, NextEntry(c, b)>> : b \in others}
        <5>1. \A b \in others : <<b, NextEntry(c, b)>>[1] \in Key
          BY <3>1
        <5>2. late' = late \cup {<<b, NextEntry(c, b)>> : b \in others}
          BY <1>1
        <5>3. \A y \in {<<b, NextEntry(c, b)>> : b \in others} : y[1] \in Key
          BY <5>1
        <5>. QED
          BY <5>2, <5>3
      <4>2. {<<<<Root, y[1]>>, y[2].text>> : y \in {<<b, NextEntry(c, b)>> : b \in others}}
                = {<<<<Root, b>>, NextEntry(c, b).text>> : b \in others}
        <5>1. \A y \in {<<b, NextEntry(c, b)>> : b \in others} :
                 \E b \in others : y[1] = b /\ y[2].text = NextEntry(c, b).text
          OBVIOUS
        <5>2. \A b \in others : \E y \in {<<d, NextEntry(c, d)>> : d \in others} :
                 y[1] = b /\ y[2].text = NextEntry(c, b).text
          <6>1. ASSUME NEW b \in others
                PROVE  \E y \in {<<d, NextEntry(c, d)>> : d \in others} :
                          y[1] = b /\ y[2].text = NextEntry(c, b).text
            <7>. WITNESS <<b, NextEntry(c, b)>> \in {<<d, NextEntry(c, d)>> : d \in others}
            <7>. QED
              OBVIOUS
          <6>. QED
            BY <6>1
        <5>. QED
          BY <5>1, <5>2
      <4>3. Orphans' = {<<<<Root, w[1]>>, w[2].text>> : w \in {x \in late' : x[1] \in Key}}
        OBVIOUS
      <4>. QED
        BY <4>1, <4>2, <4>3
    <3>4. {<<<<Root, b>>, NextEntry(c, b).text>> : b \in others} = {<<q, Pending(c)[q]>> : q \in D}
      <4>. HIDE DEF D
      <4>. QED
        BY <3>1, <3>2
    <3>. QED
      BY <3>3, <3>4
  <2>2. CASE call[c].set # Root
    <3>1. D = {}
      <4>1. \A q \in DOMAIN Pending(c) : q[1] = call[c].set
        <5>1. ASSUME NEW q \in DOMAIN Pending(c) PROVE q[1] = call[c].set
          <6>1. q = <<call[c].set, q[2]>>
            BY <1>1, PendingFacts
          <6>. QED
            BY <6>1
        <5>. QED
          BY <5>1
      <4>. QED
        BY <2>2, <4>1
    <3>2. \A b \in others : b \notin Key
      BY <1>1, <2>2, LeftFacts DEF NamesDiffer
    <3>3. Orphans' = Orphans
      BY <1>1, <3>2
    <3>. QED
      BY <3>1, <3>3
  <2>. QED
    BY <2>1, <2>2
<1>5. PICK E : E = D
  OBVIOUS
<1>6. E \in SUBSET DOMAIN Pending(c)
  BY <1>5
<1>7. Orphans' = Orphans \cup {<<q, Pending(c)[q]>> : q \in E}
  BY <1>4, <1>5
<1>8. Abstract!Reject(c, E)
  BY <1>1, <1>2, <1>3, <1>6, <1>7 DEF Abstract!Reject, Get
<1>. QED
  BY <1>1, <1>6, <1>8 DEF Abstract!StoreNext

(* A late write of a root config lands. *)
LEMMA LateIsLand ==
    ASSUME TypeInv, NEW w \in late, WriteLate(w), w[1] \notin SetPath
    PROVE  Abstract!StoreNext
<1>. DEFINE Orphans == {<<<<Root, x[1]>>, x[2].text>> : x \in {y \in late : y[1] \in Key}}
            o == <<<<Root, w[1]>>, w[2].text>>
<1>1. /\ w[1] \in Key /\ w[1] \in BackendKey
      /\ backend' = [backend EXCEPT ![w[1]] = w[2]]
      /\ late' = late \ {w}
      /\ UNCHANGED <<call, left, busy>>
  BY DEF WriteLate, TypeInv, TypeOK, BackendKey
<1>2. o \in Orphans
  BY <1>1
<1>3. Orphans' = Orphans \/ Orphans' = Orphans \ {o}
  BY <1>1
<1>4. ASSUME NEW q \in Query
      PROVE  Get(q)' = IF q = <<Root, w[1]>> THEN w[2].text ELSE Get(q)
  <2>1. PICK s \in SetPath \cup {Root}, k \in Key : q = <<s, k>>
    BY DEF Query
  <2>2. CASE q = <<Root, w[1]>>
    <3>1. backend'[w[1]] = w[2]
      BY <1>1 DEF TypeInv, Shapes
    <3>. QED
      BY <2>2, <3>1 DEF Get, CalcKey
  <2>3. CASE q # <<Root, w[1]>>
    <3>1. CalcKey(q) # w[1]
      BY <2>1, <2>3 DEF CalcKey
    <3>. QED
      BY <1>1, <2>3, <3>1, GetElsewhere
  <2>. QED
    BY <2>2, <2>3
<1>5. \A d \in Client : Pending(d)' = Pending(d)
  <2>1. ASSUME NEW d \in Client PROVE Pending(d)' = Pending(d)
    BY <1>1 DEF Pending
  <2>. QED
    BY <2>1
<1>6. Abstract!Written({o}) = {<<Root, w[1]>>}
  BY DEF Abstract!Written
<1>7. (CHOOSE x \in {o} : x[1] = <<Root, w[1]>>) = o
  OBVIOUS
<1>8. [q \in Query |-> Get(q)]' = Abstract!Landed([q \in Query |-> Get(q)], {o})
  BY <1>4, <1>6, <1>7 DEF Abstract!Landed
<1>9. \E landed \in SUBSET {o} : Orphans' = Orphans \ landed
  <2>1. CASE Orphans' = Orphans
    <3>1. Orphans' = Orphans \ {} /\ {} \in SUBSET {o}
      BY <2>1
    <3>. QED
      BY <3>1
  <2>2. CASE Orphans' = Orphans \ {o}
    <3>1. {o} \in SUBSET {o}
      OBVIOUS
    <3>. QED
      BY <2>2, <3>1
  <2>. QED
    BY <1>3, <2>1, <2>2
<1>10. Abstract!Land({o})
  BY <1>1, <1>2, <1>5, <1>8, <1>9 DEF Abstract!Land
<1>. QED
  BY <1>2, <1>10 DEF Abstract!StoreNext

(* Programs with a key-value store, unless one writes a document that has  *)
(* changed since, use a ConfigStore.                                       *)
THEOREM KeyValueIsConfigStore ==
    ASSUME NamesDiffer, Reparsed = {} PROVE Spec => ImplementsConfigStore
<1>1. Init => Abstract!StoreInit
  <2>1. SUFFICES ASSUME Init PROVE Abstract!StoreInit
    OBVIOUS
  <2>2. TypeInv
    BY <2>1, TypeInit
  <2>3. \A q \in Query : Get(q) \in Content
    BY <2>2, GetType DEF TypeInv, TypeOK
  <2>4. \A c \in Client : Pending(c) = Abstract!NoBatch
    BY <2>1, <2>2, PendingFacts DEF Init
  <2>. QED
    BY <2>1, <2>3, <2>4 DEF Init, Abstract!StoreInit
<1>2. ASSUME IInv, IInv', [Next]_vars
      PROVE  StaleDocument \/ Abstract!StoreNext \/ UNCHANGED Abstract!storeVars
  <2>. USE <1>2
  <2>1. TypeInv /\ TypeInv'
    BY DEF IInv
  <2>2. ASSUME NEW c \in Client, NEW batch \in Calls[c], StartSet(c, batch)
        PROVE  Abstract!StoreNext
    BY <2>1, <2>2, StartIsSubmit
  <2>3. ASSUME NEW c \in Client, NEW b \in BackendKey, ReadDocument(c, b) \/ ReadFails(c, b)
        PROVE  UNCHANGED Abstract!storeVars
    BY <2>3, Stutters DEF ReadDocument, ReadFails
  <2>4. ASSUME NEW c \in Client, NEW b \in BackendKey, Write(c, b)
        PROVE  StaleDocument \/ Abstract!StoreNext
    <3>1. CASE call[c].set = Root \/ c \notin raced \cup misread
      BY <2>4, <3>1, WriteIsApply
    <3>2. CASE call[c].set # Root /\ c \in raced \cup misread
      <4>1. left'[c] # left[c]
        BY <2>1, <2>4 DEF Write, Ready, TypeInv, Shapes
      <4>. QED
        BY <3>2, <4>1 DEF StaleDocument
    <3>. QED
      BY <3>1, <3>2
  <2>5. ASSUME NEW c \in Client, NEW b \in BackendKey, WriteFails(c, b) \/ WriteTimesOut(c, b)
        PROVE  Abstract!StoreNext
    <3>1. \E others \in SUBSET left[c] : c \in busy /\ Abandon(c, others)
      BY <2>5 DEF WriteFails, WriteTimesOut, Ready
    <3>. QED
      BY <2>1, <3>1, AbandonIsReject
  <2>6. ASSUME NEW c \in Client, EndSet(c)
        PROVE  Abstract!StoreNext
    BY <2>1, <2>6, EndIsResolve
  <2>7. ASSUME NEW w \in late, WriteLate(w)
        PROVE  StaleDocument \/ Abstract!StoreNext
    <3>1. CASE w[1] \in SetPath
      BY <2>7, <3>1 DEF StaleDocument, WriteLate
    <3>2. CASE w[1] \notin SetPath
      BY <2>1, <2>7, <3>2, LateIsLand
    <3>. QED
      BY <3>1, <3>2
  <2>8. CASE UNCHANGED vars
    BY <2>8, Stutters DEF vars
  <2>. QED
    BY <2>2, <2>3, <2>4, <2>5, <2>6, <2>7, <2>8 DEF Next
<1>3. IInv /\ IInv' /\ [Next]_vars => [StaleDocument \/ Abstract!StoreNext]_Abstract!storeVars
  BY <1>2
<1>. QED
  BY <1>1, <1>3, Invariance, PTL DEF Spec, ImplementsConfigStore

=============================================================================
