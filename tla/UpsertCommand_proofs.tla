------------------------ MODULE UpsertCommand_proofs ------------------------
(***************************************************************************)
(* Proofs about UpsertCommand, and about EditSession on top of it, for any *)
(* number of programs, sets, keys, inputs, command lines, commands and     *)
(* backend errors.  What holds of a command whatever its input is proved   *)
(* for both at once: AnyStep is what a step of either may do.              *)
(***************************************************************************)
EXTENDS EditSession, TLAPS

(* A command that has returned is counted as failed: its editor did. *)
Abandon(c) ==
    /\ pc[c] = "done"
    /\ pc' = [pc EXCEPT ![c] = "failed"]
    /\ UNCHANGED <<backend, input, prev, commands, faults, asked, stale, misread>>

AnyStep ==
    \/ \E c \in Client :
        \/ \E in : IsInput(in) /\ Begin(c, in)
        \/ \E D \in SUBSET Key : ReadPrev(c, D) \/ ReadSwallowed(c, D)
        \/ ReadRejected(c)
        \/ SetNext(c)
        \/ \E D \in SUBSET Query : ApplyPart(c, D) \/ SetRejected(c, D)
        \/ Finish(c)
        \/ Abandon(c)
    \/ \E W \in SUBSET orphans : LandLate(W)

(* TypeOK, for any inputs. *)
TypeInv ==
    /\ store \in [Query -> Content]
    /\ busy \subseteq Client
    /\ pending \in [Client -> Batch]
    /\ orphans \subseteq Query \X Content
    /\ pc \in [Client -> {"idle", "read", "write", "done", "failed"}]
    /\ DOMAIN input = Client
    /\ \A c \in Client : IsInput(input[c])
    /\ prev \in [Client -> Answers]
    /\ \A c \in Client : DOMAIN prev[c] \subseteq DOMAIN input[c].schema
    /\ stale \in [Client -> SUBSET Query]
    /\ misread \in [Client -> SUBSET Key]
    /\ commands \in [Client -> 0..MaxCommands]
    /\ faults \in 0..MaxFaults
    /\ asked \subseteq Query \X Content

(* The store works on a batch exactly while a command awaits store.set. *)
Awaiting ==
    \A c \in Client :
        /\ c \in busy <=> pc[c] = "write"
        /\ pc[c] = "write" => ~input[c].dry
        /\ pc[c] \in {"write", "done"} => DOMAIN prev[c] = DOMAIN input[c].schema

(* Every write under way was asked for. *)
UnderWayAsked ==
    /\ orphans \subseteq asked
    /\ \A c \in Client :
        /\ \A q \in DOMAIN pending[c] : <<q, pending[c][q]>> \in asked
        /\ pc[c] \in {"read", "write"} => AsksFor(input[c]) \subseteq asked

(* What a command that writes nothing yet has read is what the store holds.*)
ReadMatches(c) ==
    pc[c] = "read" \/ (pc[c] = "done" /\ input[c].dry) =>
        \A k \in DOMAIN prev[c] :
            \/ prev[c][k] = store[<<input[c].set, k>>]
            \/ <<input[c].set, k>> \in stale[c]
            \/ k \in misread[c] /\ prev[c][k] = Empty

(* Once store.set is called, what is not pending is what was reported. *)
WriteMatches(c) ==
    pc[c] \in {"write", "done"} /\ ~input[c].dry =>
        \A k \in DOMAIN input[c].schema :
            LET q == <<input[c].set, k>>
                next == NextValue(input[c], k, prev[c][k])
            IN  /\ q \in DOMAIN pending[c] =>
                      pending[c][q] = next /\ prev[c][k] # next /\ pc[c] = "write"
                /\ q \notin DOMAIN pending[c] =>
                      \/ store[q] = next
                      \/ q \in stale[c]
                      \/ k \in misread[c] /\ next = Empty

IInv ==
    /\ TypeInv
    /\ Awaiting
    /\ UnderWayAsked
    /\ \A c \in Client : ReadMatches(c) /\ WriteMatches(c)

-----------------------------------------------------------------------------
(* What execute computes from its input.                                   *)

(* An input speaks of known keys, sets and values. *)
LEMMA InputFacts ==
    ASSUME NEW in, IsInput(in)
    PROVE  /\ DOMAIN in.schema \subseteq Key
           /\ in.set \in Set
           /\ DOMAIN Given(in) \subseteq Key
           /\ \A k \in DOMAIN Given(in) : Given(in)[k] \in Content
<1>1. IsInput(in)
  OBVIOUS
<1>2. DOMAIN Given(in) = TakenFromPipe(in) \cup DOMAIN in.configs
  BY DEF Given
<1>3. /\ TakenFromPipe(in) \subseteq DOMAIN in.pipe
      /\ TakenFromPipe(in) \subseteq Key
  BY <1>1 DEF TakenFromPipe, IsInput
<1>4. ASSUME NEW k \in DOMAIN Given(in)
      PROVE  Given(in)[k] \in Content
  <2>1. CASE k \in DOMAIN in.configs
    BY <1>1, <1>2, <2>1 DEF Given, IsInput
  <2>2. CASE k \notin DOMAIN in.configs
    BY <1>1, <1>2, <1>3, <2>2 DEF Given, IsInput, Piped
  <2>. QED
    BY <2>1, <2>2
<1>. QED
  BY <1>1, <1>2, <1>3, <1>4 DEF IsInput, IsSchema

LEMMA EmptyIsContent == Empty \in Content
BY DEF Content

LEMMA NoBatchIsBatch == NoBatch \in Batch
<1>1. NoBatch \in [{} -> Content]
  BY DEF NoBatch
<1>. QED
  BY <1>1 DEF Batch

LEMMA NextValueType ==
    ASSUME NEW in, IsInput(in), NEW k, NEW before \in Content
    PROVE  NextValue(in, k, before) \in Content
BY InputFacts, EmptyIsContent DEF NextValue

LEMMA AsksForType ==
    ASSUME NEW in, IsInput(in)
    PROVE  AsksFor(in) \subseteq Query \X Content
BY InputFacts, EmptyIsContent DEF AsksFor, Query

(* A key whose next value differs from what was read was asked for. *)
LEMMA ChangedIsAsked ==
    ASSUME NEW in, IsInput(in), ~in.dry,
           NEW k \in DOMAIN in.schema, NEW before,
           before # NextValue(in, k, before)
    PROVE  <<<<in.set, k>>, NextValue(in, k, before)>> \in AsksFor(in)
BY DEF NextValue, AsksFor

(* The batch setNextConfigs hands to the store. *)
LEMMA DifferenceFacts ==
    ASSUME NEW in, IsInput(in), NEW before \in Answers,
           DOMAIN before = DOMAIN in.schema
    PROVE  /\ Difference(in, before) \in Batch
           /\ \A k \in DOMAIN in.schema :
                 LET next == NextValue(in, k, before[k])
                 IN  /\ <<in.set, k>> \in DOMAIN Difference(in, before)
                          <=> before[k] # next
                     /\ before[k] # next => Difference(in, before)[<<in.set, k>>] = next
           /\ ~in.dry =>
                 \A q \in DOMAIN Difference(in, before) :
                    <<q, Difference(in, before)[q]>> \in AsksFor(in)
<1>. DEFINE changed == {k \in DOMAIN in.schema : before[k] # NextValue(in, k, before[k])}
            diff == Difference(in, before)
<1>1. diff = [q \in {in.set} \X changed |-> NextValue(in, q[2], before[q[2]])]
  BY DEF Difference
<1>2. \A k \in DOMAIN in.schema : before[k] \in Content
  BY DEF Answers
<1>3. \A q \in {in.set} \X changed :
          /\ q = <<in.set, q[2]>> /\ q[2] \in changed /\ q \in Query
          /\ diff[q] = NextValue(in, q[2], before[q[2]])
          /\ diff[q] \in Content
  BY <1>1, <1>2, InputFacts, NextValueType DEF Query
<1>4. diff \in Batch
  <2>1. diff \in [{in.set} \X changed -> Content]
    BY <1>1, <1>3
  <2>2. {in.set} \X changed \subseteq Query
    BY <1>3
  <2>. QED
    BY <2>1, <2>2 DEF Batch
<1>5. \A k \in DOMAIN in.schema : <<in.set, k>> \in {in.set} \X changed <=> k \in changed
  OBVIOUS
<1>6. ASSUME ~in.dry, NEW q \in DOMAIN diff
      PROVE  <<q, diff[q]>> \in AsksFor(in)
  BY <1>1, <1>3, <1>6, ChangedIsAsked
<1>. QED
  BY <1>1, <1>3, <1>4, <1>5, <1>6

(* A batch binds queries to values. *)
LEMMA BatchFacts ==
    ASSUME NEW batch \in Batch
    PROVE  /\ DOMAIN batch \subseteq Query
           /\ \A q \in DOMAIN batch : batch[q] \in Content
           /\ batch = [q \in DOMAIN batch |-> batch[q]]
BY DEF Batch

LEMMA WithoutIsBatch ==
    ASSUME NEW batch \in Batch, NEW D \in SUBSET Query
    PROVE  Without(batch, D) \in Batch
<1>1. Without(batch, D) \in [DOMAIN batch \ D -> Content]
  BY BatchFacts DEF Without
<1>2. DOMAIN batch \ D \subseteq Query
  BY BatchFacts
<1>. QED
  BY <1>1, <1>2 DEF Batch, Without

(* What applying part of a batch does to the store. *)
LEMMA OverrideFacts ==
    ASSUME NEW s \in [Query -> Content], NEW batch \in Batch,
           NEW D \in SUBSET DOMAIN batch
    PROVE  /\ Override(s, Only(batch, D)) \in [Query -> Content]
           /\ \A q \in Query :
                 Override(s, Only(batch, D))[q] = IF q \in D THEN batch[q] ELSE s[q]
BY BatchFacts DEF Override, Only

(* What a late request does to the store. *)
LEMMA LandedFacts ==
    ASSUME NEW s \in [Query -> Content], NEW W \in SUBSET (Query \X Content)
    PROVE  /\ Written(W) \subseteq Query
           /\ Landed(s, W) \in [Query -> Content]
           /\ \A q \in Query : /\ q \in Written(W) => <<q, Landed(s, W)[q]>> \in W
                               /\ q \notin Written(W) => Landed(s, W)[q] = s[q]
<1>1. Written(W) \subseteq Query
  BY DEF Written
<1>2. ASSUME NEW q \in Written(W)
      PROVE  <<q, (CHOOSE w \in W : w[1] = q)[2]>> \in W
  <2>1. \E w \in W : w[1] = q
    BY DEF Written
  <2>2. (CHOOSE w \in W : w[1] = q) \in W /\ (CHOOSE w \in W : w[1] = q)[1] = q
    BY <2>1
  <2>. QED
    BY <2>2
<1>3. \A q \in Query : /\ q \in Written(W) => <<q, Landed(s, W)[q]>> \in W
                       /\ q \notin Written(W) => Landed(s, W)[q] = s[q]
  BY <1>2 DEF Landed
<1>4. ASSUME NEW q \in Query
      PROVE  Landed(s, W)[q] \in Content
  <2>1. CASE q \in Written(W)
    <3>1. <<q, Landed(s, W)[q]>> \in Query \X Content
      BY <1>3, <2>1
    <3>. QED
      BY <3>1
  <2>2. CASE q \notin Written(W)
    BY <1>3, <2>2
  <2>. QED
    BY <2>1, <2>2
<1>5. Landed(s, W) = [q \in Query |-> Landed(s, W)[q]]
  BY DEF Landed
<1>6. Landed(s, W) \in [Query -> Content]
  BY <1>4, <1>5
<1>. QED
  BY <1>1, <1>3, <1>6

-----------------------------------------------------------------------------
(* Type correctness.                                                       *)

LEMMA NoBatchIsAnswers == NoBatch \in Answers /\ DOMAIN NoBatch = {}
<1>1. NoBatch \in [{} -> Content] /\ DOMAIN NoBatch = {}
  BY DEF NoBatch
<1>. QED
  BY <1>1 DEF Answers

LEMMA StaleAfterType ==
    ASSUME TypeInv, NEW D \in SUBSET Query, NEW writers
    PROVE  StaleAfter(D, writers) \in [Client -> SUBSET Query]
BY DEF TypeInv, StaleAfter

LEMMA TypeInit == Init => TypeInv
<1>1. SUFFICES ASSUME Init PROVE TypeInv
  OBVIOUS
<1>2. IsInput(CHOOSE in \in Input : TRUE)
  BY UpsertAssumption
<1>3. /\ 0 \in 0..MaxCommands
      /\ 0 \in 0..MaxFaults
  BY UpsertAssumption
<1>. QED
  BY <1>1, <1>2, <1>3, NoBatchIsBatch, NoBatchIsAnswers DEF Init, StoreInit, TypeInv

LEMMA TypeStep == TypeInv /\ [AnyStep]_vars => TypeInv'
<1>1. SUFFICES ASSUME TypeInv, [AnyStep]_vars PROVE TypeInv'
  OBVIOUS
<1>. USE <1>1
<1>2. ASSUME NEW c \in Client, NEW in, IsInput(in), Begin(c, in) PROVE TypeInv'
  <2>1. /\ commands[c] + 1 \in 0..MaxCommands
        /\ AsksFor(in) \subseteq Query \X Content
    BY <1>2, UpsertAssumption, AsksForType DEF Begin, TypeInv
  <2>2. asked' \subseteq Query \X Content
    BY <1>2, <2>1 DEF Begin, TypeInv
  <2>3. \A d \in Client : DOMAIN prev'[d] \subseteq DOMAIN input'[d].schema
    BY <1>2, NoBatchIsAnswers DEF Begin, TypeInv
  <2>. QED
    BY <1>2, <2>1, <2>2, <2>3, NoBatchIsAnswers DEF Begin, backend, TypeInv
<1>3. ASSUME NEW c \in Client, NEW D \in SUBSET Key, ReadPrev(c, D) PROVE TypeInv'
  <2>. DEFINE answer == [k \in D |-> store[<<input[c].set, k>>]]
  <2>1. \A k \in D : answer[k] \in Content
    BY InputFacts DEF TypeInv, Query
  <2>2. prev'[c] = [k \in DOMAIN prev[c] \cup D |-> IF k \in D THEN answer[k] ELSE prev[c][k]]
    BY <1>3 DEF ReadPrev, TypeInv
  <2>. HIDE DEF answer
  <2>3. prev'[c] \in Answers
    <3>1. DOMAIN prev[c] \subseteq Key /\ \A k \in DOMAIN prev[c] : prev[c][k] \in Content
      BY DEF TypeInv, Answers
    <3>2. prev'[c] \in [DOMAIN prev[c] \cup D -> Content]
      BY <2>1, <2>2, <3>1
    <3>. QED
      BY <3>1, <3>2 DEF Answers
  <2>5. DOMAIN prev'[c] \subseteq DOMAIN input[c].schema
    <3>1. DOMAIN prev'[c] = DOMAIN prev[c] \cup D
      BY <2>2
    <3>. QED
      BY <1>3, <3>1 DEF ReadPrev, Unread, TypeInv
  <2>. QED
    BY <1>3, <2>3, <2>5 DEF ReadPrev, backend, TypeInv
<1>4. ASSUME NEW c \in Client, NEW D \in SUBSET Key, ReadSwallowed(c, D) PROVE TypeInv'
  <2>. DEFINE answer == [k \in D |-> Empty]
  <2>1. \A k \in D : answer[k] \in Content
    BY EmptyIsContent
  <2>2. prev'[c] = [k \in DOMAIN prev[c] \cup D |-> IF k \in D THEN answer[k] ELSE prev[c][k]]
    BY <1>4 DEF ReadSwallowed, TypeInv
  <2>. HIDE DEF answer
  <2>3. prev'[c] \in Answers
    <3>1. DOMAIN prev[c] \subseteq Key /\ \A k \in DOMAIN prev[c] : prev[c][k] \in Content
      BY DEF TypeInv, Answers
    <3>2. prev'[c] \in [DOMAIN prev[c] \cup D -> Content]
      BY <2>1, <2>2, <3>1
    <3>. QED
      BY <3>1, <3>2 DEF Answers
  <2>5. DOMAIN prev'[c] \subseteq DOMAIN input[c].schema
    <3>1. DOMAIN prev'[c] = DOMAIN prev[c] \cup D
      BY <2>2
    <3>. QED
      BY <1>4, <3>1 DEF ReadSwallowed, Unread, TypeInv
  <2>4. faults' \in 0..MaxFaults
    BY <1>4, UpsertAssumption DEF ReadSwallowed, TypeInv
  <2>. QED
    BY <1>4, <2>3, <2>4, <2>5 DEF ReadSwallowed, backend, TypeInv
<1>5. ASSUME NEW c \in Client, ReadRejected(c) PROVE TypeInv'
  <2>1. faults' \in 0..MaxFaults
    BY <1>5, UpsertAssumption DEF ReadRejected, TypeInv
  <2>. QED
    BY <1>5, <2>1 DEF ReadRejected, backend, TypeInv
<1>6. ASSUME NEW c \in Client, SetNext(c) PROVE TypeInv'
  <2>1. IsInput(input[c]) /\ prev[c] \in Answers /\ DOMAIN prev[c] = DOMAIN input[c].schema
    BY <1>6 DEF SetNext, Unread, TypeInv
  <2>2. Difference(input[c], prev[c]) \in Batch
    BY <2>1, DifferenceFacts
  <2>. QED
    BY <1>6, <2>2 DEF SetNext, Submit, backend, TypeInv
<1>7. ASSUME NEW c \in Client, NEW D \in SUBSET Query, ApplyPart(c, D) PROVE TypeInv'
  <2>1. Without(pending[c], D) \in Batch
    BY WithoutIsBatch DEF TypeInv
  <2>2. store' \in [Query -> Content]
    BY <1>7, OverrideFacts DEF ApplyPart, Apply, TypeInv
  <2>. QED
    BY <1>7, <2>1, <2>2, StaleAfterType DEF ApplyPart, Apply, TypeInv
<1>8. ASSUME NEW c \in Client, NEW D \in SUBSET Query, SetRejected(c, D) PROVE TypeInv'
  <2>1. faults' \in 0..MaxFaults
    BY <1>8, UpsertAssumption DEF SetRejected, TypeInv
  <2>2. {<<q, pending[c][q]>> : q \in D} \subseteq Query \X Content
    BY <1>8, BatchFacts DEF SetRejected, Reject, TypeInv
  <2>. QED
    BY <1>8, <2>1, <2>2, NoBatchIsBatch DEF SetRejected, Reject, TypeInv
<1>9. ASSUME NEW c \in Client, Finish(c) PROVE TypeInv'
  BY <1>9 DEF Finish, Resolve, TypeInv
<1>10. ASSUME NEW W \in SUBSET orphans, LandLate(W) PROVE TypeInv'
  <2>1. W \subseteq Query \X Content
    BY DEF TypeInv
  <2>2. Written(W) \subseteq Query /\ store' \in [Query -> Content]
    BY <1>10, <2>1, LandedFacts DEF LandLate, Land, TypeInv
  <2>. QED
    BY <1>10, <2>2, StaleAfterType DEF LandLate, Land, TypeInv
<1>11. ASSUME NEW c \in Client, Abandon(c) PROVE TypeInv'
  BY <1>11 DEF Abandon, backend, TypeInv
<1>12. CASE UNCHANGED vars
  BY <1>12 DEF vars, TypeInv
<1>. QED
  BY <1>2, <1>3, <1>4, <1>5, <1>6, <1>7, <1>8, <1>9, <1>10, <1>11, <1>12 DEF AnyStep

LEMMA NextIsAnyStep == [Next]_vars => [AnyStep]_vars
BY UpsertAssumption DEF Next, AnyStep

(* Every variable keeps its type. *)
THEOREM TypeCorrect == Spec => []TypeOK
<1>. DEFINE Inv == TypeInv /\ input \in [Client -> Input]
<1>1. Init => Inv
  <2>1. (CHOOSE in \in Input : TRUE) \in Input
    BY UpsertAssumption
  <2>. QED
    BY <2>1, TypeInit DEF Init
<1>2. Inv /\ [Next]_vars => Inv'
  <2>1. input \in [Client -> Input] /\ [Next]_vars => (input \in [Client -> Input])'
    BY DEF Next, vars, Begin, ReadPrev, ReadSwallowed, ReadRejected, SetNext, ApplyPart,
           SetRejected, Finish, LandLate
  <2>. QED
    BY <2>1, TypeStep, NextIsAnyStep
<1>3. Inv => TypeOK
  BY DEF TypeInv, TypeOK
<1>. QED
  BY <1>1, <1>2, <1>3, PTL DEF Spec

-----------------------------------------------------------------------------
(* Who awaits the store.                                                   *)

LEMMA AwaitingStep == TypeInv /\ Awaiting /\ [AnyStep]_vars => Awaiting'
<1>1. SUFFICES ASSUME TypeInv, Awaiting, [AnyStep]_vars PROVE Awaiting'
  OBVIOUS
<1>. USE <1>1
<1>2. ASSUME NEW c \in Client, NEW in, IsInput(in), Begin(c, in) PROVE Awaiting'
  BY <1>2 DEF Begin, backend, Awaiting, TypeInv
<1>3. ASSUME NEW c \in Client, NEW D \in SUBSET Key, ReadPrev(c, D) PROVE Awaiting'
  BY <1>3 DEF ReadPrev, backend, Awaiting, TypeInv
<1>4. ASSUME NEW c \in Client, NEW D \in SUBSET Key, ReadSwallowed(c, D) PROVE Awaiting'
  BY <1>4 DEF ReadSwallowed, backend, Awaiting, TypeInv
<1>5. ASSUME NEW c \in Client, ReadRejected(c) PROVE Awaiting'
  BY <1>5 DEF ReadRejected, backend, Awaiting, TypeInv
<1>6. ASSUME NEW c \in Client, SetNext(c) PROVE Awaiting'
  <2>1. DOMAIN prev[c] = DOMAIN input[c].schema
    BY <1>6 DEF SetNext, Unread, TypeInv
  <2>. QED
    BY <1>6, <2>1 DEF SetNext, Submit, backend, Awaiting, TypeInv
<1>7. ASSUME NEW c \in Client, NEW D \in SUBSET Query, ApplyPart(c, D) PROVE Awaiting'
  BY <1>7 DEF ApplyPart, Apply, Awaiting
<1>8. ASSUME NEW c \in Client, NEW D \in SUBSET Query, SetRejected(c, D) PROVE Awaiting'
  BY <1>8 DEF SetRejected, Reject, Awaiting, TypeInv
<1>9. ASSUME NEW c \in Client, Finish(c) PROVE Awaiting'
  BY <1>9 DEF Finish, Resolve, Awaiting, TypeInv
<1>10. ASSUME NEW W \in SUBSET orphans, LandLate(W) PROVE Awaiting'
  BY <1>10 DEF LandLate, Land, Awaiting
<1>11. ASSUME NEW c \in Client, Abandon(c) PROVE Awaiting'
  BY <1>11 DEF Abandon, backend, Awaiting, TypeInv
<1>12. CASE UNCHANGED vars
  BY <1>12 DEF vars, Awaiting
<1>. QED
  BY <1>2, <1>3, <1>4, <1>5, <1>6, <1>7, <1>8, <1>9, <1>10, <1>11, <1>12 DEF AnyStep

-----------------------------------------------------------------------------
(* Only writes that were asked for are under way.                          *)

LEMMA AskedStep == TypeInv /\ Awaiting /\ UnderWayAsked /\ [AnyStep]_vars => UnderWayAsked'
<1>1. SUFFICES ASSUME TypeInv, Awaiting, UnderWayAsked, [AnyStep]_vars PROVE UnderWayAsked'
  OBVIOUS
<1>. USE <1>1
<1>2. ASSUME NEW c \in Client, NEW in, IsInput(in), Begin(c, in) PROVE UnderWayAsked'
  BY <1>2 DEF Begin, backend, UnderWayAsked, TypeInv
<1>3. ASSUME NEW c \in Client, NEW D \in SUBSET Key, ReadPrev(c, D) PROVE UnderWayAsked'
  BY <1>3 DEF ReadPrev, backend, UnderWayAsked
<1>4. ASSUME NEW c \in Client, NEW D \in SUBSET Key, ReadSwallowed(c, D) PROVE UnderWayAsked'
  BY <1>4 DEF ReadSwallowed, backend, UnderWayAsked
<1>5. ASSUME NEW c \in Client, ReadRejected(c) PROVE UnderWayAsked'
  BY <1>5 DEF ReadRejected, backend, UnderWayAsked, TypeInv
<1>6. ASSUME NEW c \in Client, SetNext(c) PROVE UnderWayAsked'
  <2>1. CASE input[c].dry
    BY <1>6, <2>1 DEF SetNext, backend, UnderWayAsked, TypeInv
  <2>2. CASE ~input[c].dry
    <3>1. DOMAIN prev[c] = DOMAIN input[c].schema
      BY <1>6 DEF SetNext, Unread, TypeInv
    <3>2. AsksFor(input[c]) \subseteq asked
      BY <1>6 DEF SetNext, UnderWayAsked
    <3>3. \A q \in DOMAIN Difference(input[c], prev[c]) :
             <<q, Difference(input[c], prev[c])[q]>> \in asked
      BY <2>2, <3>1, <3>2, DifferenceFacts DEF TypeInv
    <3>. QED
      BY <1>6, <2>2, <3>2, <3>3 DEF SetNext, Submit, UnderWayAsked, TypeInv
  <2>. QED
    BY <2>1, <2>2
<1>7. ASSUME NEW c \in Client, NEW D \in SUBSET Query, ApplyPart(c, D) PROVE UnderWayAsked'
  <2>1. \A q \in DOMAIN Without(pending[c], D) : <<q, Without(pending[c], D)[q]>> \in asked
    <3>2. /\ DOMAIN Without(pending[c], D) \subseteq DOMAIN pending[c]
          /\ \A q \in DOMAIN Without(pending[c], D) : Without(pending[c], D)[q] = pending[c][q]
      BY DEF Without
    <3>. QED
      BY <3>2 DEF UnderWayAsked
  <2>. QED
    BY <1>7, <2>1 DEF ApplyPart, Apply, UnderWayAsked, TypeInv
<1>8. ASSUME NEW c \in Client, NEW D \in SUBSET Query, SetRejected(c, D) PROVE UnderWayAsked'
  <2>1. {<<q, pending[c][q]>> : q \in D} \subseteq asked
    BY <1>8 DEF SetRejected, Reject, UnderWayAsked
  <2>2. DOMAIN NoBatch = {}
    BY NoBatchIsAnswers
  <2>. QED
    BY <1>8, <2>1, <2>2 DEF SetRejected, Reject, UnderWayAsked, TypeInv
<1>9. ASSUME NEW c \in Client, Finish(c) PROVE UnderWayAsked'
  BY <1>9 DEF Finish, Resolve, UnderWayAsked, TypeInv
<1>10. ASSUME NEW W \in SUBSET orphans, LandLate(W) PROVE UnderWayAsked'
  BY <1>10 DEF LandLate, Land, UnderWayAsked
<1>11. ASSUME NEW c \in Client, Abandon(c) PROVE UnderWayAsked'
  BY <1>11 DEF Abandon, backend, UnderWayAsked, TypeInv
<1>12. CASE UNCHANGED vars
  BY <1>12 DEF vars, UnderWayAsked
<1>. QED
  BY <1>2, <1>3, <1>4, <1>5, <1>6, <1>7, <1>8, <1>9, <1>10, <1>11, <1>12 DEF AnyStep

LEMMA StagesInit == Init => Awaiting /\ UnderWayAsked
BY NoBatchIsAnswers DEF Init, StoreInit, Awaiting, UnderWayAsked

(* A step changes the store only as asked. *)
LEMMA WritesAsked ==
    TypeInv /\ UnderWayAsked /\ [AnyStep]_vars =>
        \A q \in Query : store'[q] # store[q] => <<q, store'[q]>> \in asked
<1>1. SUFFICES ASSUME TypeInv, UnderWayAsked, [AnyStep]_vars,
                      NEW q \in Query, store'[q] # store[q]
               PROVE  <<q, store'[q]>> \in asked
  OBVIOUS
<1>. USE <1>1
<1>2. ASSUME NEW c \in Client, NEW D \in SUBSET Query, ApplyPart(c, D)
      PROVE  <<q, store'[q]>> \in asked
  <2>1. D \subseteq DOMAIN pending[c] /\ pending[c] \in Batch
    BY <1>2 DEF ApplyPart, Apply, TypeInv
  <2>2. store'[q] = IF q \in D THEN pending[c][q] ELSE store[q]
    BY <1>2, <2>1, OverrideFacts DEF ApplyPart, Apply, TypeInv
  <2>. QED
    BY <2>1, <2>2 DEF UnderWayAsked
<1>3. ASSUME NEW W \in SUBSET orphans, LandLate(W) PROVE <<q, store'[q]>> \in asked
  <2>1. W \subseteq Query \X Content
    BY DEF TypeInv
  <2>2. \/ <<q, store'[q]>> \in W
        \/ store'[q] = store[q]
    BY <1>3, <2>1, LandedFacts DEF LandLate, Land, TypeInv
  <2>. QED
    BY <2>2 DEF UnderWayAsked
<1>4. ASSUME NEW c \in Client, SetNext(c) PROVE FALSE
  BY <1>4 DEF SetNext, Submit, backend
<1>5. ASSUME NEW c \in Client, NEW in, IsInput(in), Begin(c, in) PROVE FALSE
  BY <1>5 DEF Begin, backend
<1>6. ASSUME NEW c \in Client, NEW D \in SUBSET Key, ReadPrev(c, D) \/ ReadSwallowed(c, D)
      PROVE  FALSE
  BY <1>6 DEF ReadPrev, ReadSwallowed, backend
<1>7. ASSUME NEW c \in Client, ReadRejected(c) \/ Finish(c) PROVE FALSE
  BY <1>7 DEF ReadRejected, Finish, Resolve, backend
<1>8. ASSUME NEW c \in Client, NEW D \in SUBSET Query, SetRejected(c, D) PROVE FALSE
  BY <1>8 DEF SetRejected, Reject
<1>9. ASSUME NEW c \in Client, Abandon(c) PROVE FALSE
  BY <1>9 DEF Abandon, backend
<1>10. CASE UNCHANGED vars
  BY <1>10 DEF vars
<1>. QED
  BY <1>2, <1>3, <1>4, <1>5, <1>6, <1>7, <1>8, <1>9, <1>10 DEF AnyStep

(* Whatever commands interleave, fail or land late, the store changes only *)
(* to what some accepted command was given (setNextConfigs).               *)
THEOREM WritesWereAsked == Spec => OnlyAskedWrites
<1>1. Init => TypeInv /\ Awaiting /\ UnderWayAsked
  BY TypeInit, StagesInit
<1>2. TypeInv /\ Awaiting /\ UnderWayAsked /\ [AnyStep]_vars
        => (TypeInv /\ Awaiting /\ UnderWayAsked)'
  BY TypeStep, AwaitingStep, AskedStep
<1>3. TypeInv /\ Awaiting /\ UnderWayAsked /\ [AnyStep]_vars
        => [\A q \in Query : store'[q] # store[q] => <<q, store'[q]>> \in asked]_store
  BY WritesAsked
<1>. QED
  BY <1>1, <1>2, <1>3, NextIsAnyStep, PTL DEF Spec, OnlyAskedWrites

-----------------------------------------------------------------------------
(* What a command knows of the store.                                      *)

(* A step of the store leaves c's knowledge true if it marks what c has    *)
(* seen of it as stale.                                                    *)
LEMMA OthersWrite ==
    ASSUME TypeInv, NEW c \in Client, ReadMatches(c), WriteMatches(c), Awaiting,
           NEW D \in SUBSET Query,
           \A q \in Query \ D : store'[q] = store[q],
           stale'[c] = stale[c] \cup (D \cap Seen(c)),
           pending'[c] = pending[c],
           UNCHANGED <<pc, input, prev, misread>>
    PROVE  ReadMatches(c)' /\ WriteMatches(c)'
<1>. DEFINE key(k) == <<input[c].set, k>>
<1>1. DOMAIN input[c].schema \subseteq Key /\ input[c].set \in Set
  BY InputFacts DEF TypeInv
<1>2. \A k \in DOMAIN prev[c] : key(k) \in Query /\ key(k) \in Seen(c)
  BY <1>1 DEF TypeInv, Query, Seen
<1>3. \A k \in DOMAIN prev[c] : store'[key(k)] = store[key(k)] \/ key(k) \in stale'[c]
  BY <1>2
<1>4. ReadMatches(c)'
  BY <1>3 DEF ReadMatches
<1>5. pc[c] \in {"write", "done"} => DOMAIN prev[c] = DOMAIN input[c].schema
  BY DEF Awaiting
<1>6. WriteMatches(c)'
  BY <1>3, <1>5 DEF WriteMatches
<1>. QED
  BY <1>4, <1>6

(* A step that does not touch what c knows. *)
LEMMA OthersMove ==
    ASSUME NEW c \in Client, ReadMatches(c), WriteMatches(c),
           UNCHANGED store, pc'[c] = pc[c], input'[c] = input[c], prev'[c] = prev[c],
           stale'[c] = stale[c], misread'[c] = misread[c], pending'[c] = pending[c]
    PROVE  ReadMatches(c)' /\ WriteMatches(c)'
BY DEF ReadMatches, WriteMatches

LEMMA MatchesInit == Init => \A c \in Client : ReadMatches(c) /\ WriteMatches(c)
BY DEF Init, ReadMatches, WriteMatches

LEMMA MatchesStep ==
    IInv /\ [AnyStep]_vars => \A c \in Client : ReadMatches(c)' /\ WriteMatches(c)'
<1>1. SUFFICES ASSUME IInv, [AnyStep]_vars, NEW c \in Client
               PROVE  ReadMatches(c)' /\ WriteMatches(c)'
  OBVIOUS
<1>. USE <1>1
<1>. TypeInv /\ Awaiting /\ ReadMatches(c) /\ WriteMatches(c)
  BY DEF IInv
<1>2. ASSUME NEW d \in Client, NEW in, IsInput(in), Begin(d, in)
      PROVE  ReadMatches(c)' /\ WriteMatches(c)'
  <2>1. CASE d = c
    <3>1. pc'[c] \in {"read", "failed"} /\ DOMAIN prev'[c] = {}
      BY <1>2, <2>1, NoBatchIsAnswers DEF Begin, TypeInv
    <3>. QED
      BY <3>1 DEF ReadMatches, WriteMatches
  <2>2. CASE d # c
    BY <1>2, <2>2, OthersMove DEF Begin, backend, TypeInv
  <2>. QED
    BY <2>1, <2>2
<1>3. ASSUME NEW d \in Client, NEW D \in SUBSET Key, ReadPrev(d, D)
      PROVE  ReadMatches(c)' /\ WriteMatches(c)'
  <2>1. CASE d = c
    <3>1. prev'[c] = [k \in DOMAIN prev[c] \cup D |->
                        IF k \in D THEN store[<<input[c].set, k>>] ELSE prev[c][k]]
      BY <1>3, <2>1 DEF ReadPrev, TypeInv
    <3>. QED
      BY <1>3, <2>1, <3>1 DEF ReadPrev, backend, ReadMatches, WriteMatches
  <2>2. CASE d # c
    BY <1>3, <2>2, OthersMove DEF ReadPrev, backend, TypeInv
  <2>. QED
    BY <2>1, <2>2
<1>4. ASSUME NEW d \in Client, NEW D \in SUBSET Key, ReadSwallowed(d, D)
      PROVE  ReadMatches(c)' /\ WriteMatches(c)'
  <2>1. CASE d = c
    <3>1. prev'[c] = [k \in DOMAIN prev[c] \cup D |-> IF k \in D THEN Empty ELSE prev[c][k]]
      BY <1>4, <2>1 DEF ReadSwallowed, TypeInv
    <3>2. misread'[c] = misread[c] \cup D
      BY <1>4, <2>1 DEF ReadSwallowed, TypeInv
    <3>. QED
      BY <1>4, <2>1, <3>1, <3>2 DEF ReadSwallowed, backend, ReadMatches, WriteMatches
  <2>2. CASE d # c
    BY <1>4, <2>2, OthersMove DEF ReadSwallowed, backend, TypeInv
  <2>. QED
    BY <2>1, <2>2
<1>5. ASSUME NEW d \in Client, ReadRejected(d)
      PROVE  ReadMatches(c)' /\ WriteMatches(c)'
  <2>1. CASE d = c
    BY <1>5, <2>1 DEF ReadRejected, ReadMatches, WriteMatches, TypeInv
  <2>2. CASE d # c
    BY <1>5, <2>2, OthersMove DEF ReadRejected, backend, TypeInv
  <2>. QED
    BY <2>1, <2>2
<1>6. ASSUME NEW d \in Client, SetNext(d)
      PROVE  ReadMatches(c)' /\ WriteMatches(c)'
  <2>1. CASE d = c /\ input[c].dry
    BY <1>6, <2>1 DEF SetNext, backend, ReadMatches, WriteMatches, TypeInv
  <2>2. CASE d = c /\ ~input[c].dry
    <3>1. /\ pc[c] = "read" /\ pc'[c] = "write"
          /\ pending'[c] = Difference(input[c], prev[c])
          /\ UNCHANGED <<store, input, prev, stale, misread>>
      BY <1>6, <2>2 DEF SetNext, Submit, TypeInv
    <3>2. DOMAIN prev[c] = DOMAIN input[c].schema
      BY <1>6, <2>2 DEF SetNext, Unread, TypeInv
    <3>3. IsInput(input[c]) /\ prev[c] \in Answers
      BY DEF TypeInv
    <3>4. ASSUME NEW k \in DOMAIN input[c].schema
          PROVE  LET q == <<input[c].set, k>>
                     next == NextValue(input[c], k, prev[c][k])
                 IN  /\ q \in DOMAIN pending'[c] =>
                           pending'[c][q] = next /\ prev[c][k] # next
                     /\ q \notin DOMAIN pending'[c] =>
                           \/ store[q] = next
                           \/ q \in stale[c]
                           \/ k \in misread[c] /\ next = Empty
      <4>. DEFINE q == <<input[c].set, k>>
                  next == NextValue(input[c], k, prev[c][k])
      <4>1. /\ q \in DOMAIN pending'[c] <=> prev[c][k] # next
            /\ prev[c][k] # next => pending'[c][q] = next
        BY <3>1, <3>2, <3>3, DifferenceFacts
      <4>2. \/ prev[c][k] = store[q]
            \/ q \in stale[c]
            \/ k \in misread[c] /\ prev[c][k] = Empty
        BY <3>1, <3>2 DEF ReadMatches
      <4>. QED
        BY <4>1, <4>2
    <3>. QED
      BY <3>1, <3>4 DEF ReadMatches, WriteMatches
  <2>3. CASE d # c
    BY <1>6, <2>3, OthersMove DEF SetNext, Submit, backend, TypeInv
  <2>. QED
    BY <2>1, <2>2, <2>3
<1>7. ASSUME NEW d \in Client, NEW D \in SUBSET Query, ApplyPart(d, D)
      PROVE  ReadMatches(c)' /\ WriteMatches(c)'
  <2>1. D \subseteq DOMAIN pending[d] /\ pending[d] \in Batch
    BY <1>7 DEF ApplyPart, Apply, TypeInv
  <2>2. \A q \in Query : store'[q] = IF q \in D THEN pending[d][q] ELSE store[q]
    BY <1>7, <2>1, OverrideFacts DEF ApplyPart, Apply, TypeInv
  <2>3. CASE d = c
    <3>1. /\ pending'[c] = Without(pending[c], D)
          /\ stale'[c] = stale[c] \ D
          /\ pc'[c] = "write" /\ pc[c] = "write"
          /\ UNCHANGED <<input, prev, misread>>
      BY <1>7, <2>3 DEF ApplyPart, Apply, StaleAfter, Awaiting, TypeInv
    <3>2. /\ DOMAIN pending'[c] = DOMAIN pending[c] \ D
          /\ \A q \in DOMAIN pending'[c] : pending'[c][q] = pending[c][q]
      BY <3>1 DEF Without
    <3>3. \A k \in DOMAIN input[c].schema : <<input[c].set, k>> \in Query
      BY InputFacts DEF TypeInv, Query
    <3>4. ASSUME ~input[c].dry, NEW k \in DOMAIN input[c].schema
          PROVE  LET q == <<input[c].set, k>>
                     next == NextValue(input[c], k, prev[c][k])
                 IN  /\ q \in DOMAIN pending'[c] =>
                           pending'[c][q] = next /\ prev[c][k] # next
                     /\ q \notin DOMAIN pending'[c] =>
                           \/ store'[q] = next
                           \/ q \in stale'[c]
                           \/ k \in misread[c] /\ next = Empty
      <4>. DEFINE q == <<input[c].set, k>>
                  next == NextValue(input[c], k, prev[c][k])
      <4>1. /\ q \in DOMAIN pending[c] => pending[c][q] = next /\ prev[c][k] # next
            /\ q \notin DOMAIN pending[c] =>
                  \/ store[q] = next
                  \/ q \in stale[c]
                  \/ k \in misread[c] /\ next = Empty
        BY <3>1, <3>4 DEF WriteMatches
      <4>2. store'[q] = IF q \in D THEN pending[c][q] ELSE store[q]
        BY <2>2, <2>3, <3>3
      <4>3. CASE q \in D
        BY <2>1, <2>3, <3>2, <4>1, <4>2, <4>3
      <4>4. CASE q \notin D
        BY <3>1, <3>2, <4>1, <4>2, <4>4
      <4>. QED
        BY <4>3, <4>4
    <3>. QED
      BY <3>1, <3>4 DEF ReadMatches, WriteMatches
  <2>4. CASE d # c
    <3>1. stale'[c] = stale[c] \cup (D \cap Seen(c))
      BY <1>7, <2>4 DEF ApplyPart, StaleAfter
    <3>2. pending'[c] = pending[c] /\ UNCHANGED <<pc, input, prev, misread>>
      BY <1>7, <2>4 DEF ApplyPart, Apply, TypeInv
    <3>. QED
      BY <2>2, <3>1, <3>2, OthersWrite
  <2>. QED
    BY <2>3, <2>4
<1>8. ASSUME NEW d \in Client, NEW D \in SUBSET Query, SetRejected(d, D)
      PROVE  ReadMatches(c)' /\ WriteMatches(c)'
  <2>1. CASE d = c
    BY <1>8, <2>1 DEF SetRejected, ReadMatches, WriteMatches, TypeInv
  <2>2. CASE d # c
    BY <1>8, <2>2, OthersMove DEF SetRejected, Reject, TypeInv
  <2>. QED
    BY <2>1, <2>2
<1>9. ASSUME NEW d \in Client, Finish(d)
      PROVE  ReadMatches(c)' /\ WriteMatches(c)'
  <2>1. CASE d = c
    <3>1. /\ pc[c] = "write" /\ pc'[c] = "done" /\ ~input[c].dry
          /\ pending[c] = NoBatch
          /\ UNCHANGED <<store, pending, input, prev, stale, misread>>
      BY <1>9, <2>1 DEF Finish, Resolve, Awaiting, TypeInv
    <3>. QED
      BY <3>1, NoBatchIsAnswers DEF ReadMatches, WriteMatches
  <2>2. CASE d # c
    BY <1>9, <2>2, OthersMove DEF Finish, Resolve, TypeInv
  <2>. QED
    BY <2>1, <2>2
<1>10. ASSUME NEW W \in SUBSET orphans, LandLate(W)
       PROVE  ReadMatches(c)' /\ WriteMatches(c)'
  <2>. DEFINE D == Written(W)
  <2>1. W \subseteq Query \X Content
    BY DEF TypeInv
  <2>2. D \in SUBSET Query /\ \A q \in Query \ D : store'[q] = store[q]
    <3>1. store \in [Query -> Content] /\ store' = Landed(store, W)
      BY <1>10 DEF LandLate, Land, TypeInv
    <3>. QED
      BY <2>1, <3>1, LandedFacts
  <2>3. /\ stale'[c] = stale[c] \cup (D \cap Seen(c))
        /\ pending'[c] = pending[c]
        /\ UNCHANGED <<pc, input, prev, misread>>
    BY <1>10 DEF LandLate, Land, StaleAfter
  <2>. QED
    BY <2>2, <2>3, OthersWrite
<1>11. ASSUME NEW d \in Client, Abandon(d)
       PROVE  ReadMatches(c)' /\ WriteMatches(c)'
  <2>1. CASE d = c
    BY <1>11, <2>1 DEF Abandon, ReadMatches, WriteMatches, TypeInv
  <2>2. CASE d # c
    BY <1>11, <2>2, OthersMove DEF Abandon, backend, TypeInv
  <2>. QED
    BY <2>1, <2>2
<1>12. CASE UNCHANGED vars
  BY <1>12, OthersMove DEF vars
<1>. QED
  BY <1>2, <1>3, <1>4, <1>5, <1>6, <1>7, <1>8, <1>9, <1>10, <1>11, <1>12 DEF AnyStep

LEMMA Invariance == Spec => []IInv
<1>1. Init => IInv
  BY TypeInit, StagesInit, MatchesInit DEF IInv
<1>2. IInv /\ [AnyStep]_vars => IInv'
  BY TypeStep, AwaitingStep, AskedStep, MatchesStep DEF IInv
<1>. QED
  BY <1>1, <1>2, NextIsAnyStep, PTL DEF Spec

LEMMA TrueReport == IInv => ReportMatchesStore
<1>. SUFFICES ASSUME IInv, NEW c \in Client, pc[c] = "done", ~input[c].dry,
                     NEW k \in DOMAIN input[c].schema
              PROVE  LET q == <<input[c].set, k>>
                         next == NextValue(input[c], k, prev[c][k])
                     IN  \/ store[q] = next
                         \/ q \in stale[c]
                         \/ k \in misread[c] /\ next = Empty
  BY DEF ReportMatchesStore
<1>. QED
  BY DEF IInv, WriteMatches

LEMMA ConfigsFirst == IInv => ConfigsBeatPipe
<1>. SUFFICES ASSUME IInv, NEW c \in Client, pc[c] = "done", ~input[c].dry,
                     NEW k \in DOMAIN input[c].schema \cap DOMAIN input[c].configs
              PROVE  LET q == <<input[c].set, k>>
                     IN  \/ store[q] = input[c].configs[k]
                         \/ q \in stale[c]
                         \/ k \in misread[c] /\ input[c].configs[k] = Empty
  BY DEF ConfigsBeatPipe
<1>1. NextValue(input[c], k, prev[c][k]) = input[c].configs[k]
  BY DEF NextValue, Given
<1>. QED
  BY <1>1 DEF IInv, WriteMatches

(* When a command has returned, the store holds what it reported, unless   *)
(* somebody else wrote since, or a failed read went unnoticed.             *)
THEOREM ReportsAreTrue == Spec => []ReportMatchesStore
BY TrueReport, Invariance, PTL

(* A config given explicitly beats the one piped for the same key.         *)
THEOREM ConfigsComeFirst == Spec => []ConfigsBeatPipe
BY ConfigsFirst, Invariance, PTL

(* A config is taken off a batch by being stored.                          *)
LEMMA StoredIsPending ==
    ASSUME TypeInv, Awaiting, [AnyStep]_vars, NEW c \in Client, NEW q \in Query,
           q \in DOMAIN pending[c] \ DOMAIN pending'[c], pc[c] = "write", store'[q] # store[q]
    PROVE  store'[q] = pending[c][q]
<1>1. ASSUME NEW d \in Client, NEW D \in SUBSET Query, ApplyPart(d, D)
      PROVE  store'[q] = pending[c][q]
  <2>1. D \subseteq DOMAIN pending[d] /\ pending[d] \in Batch
    BY <1>1 DEF ApplyPart, Apply, TypeInv
  <2>2. d = c /\ q \in D
    BY <1>1 DEF ApplyPart, Apply, Without, TypeInv
  <2>. QED
    BY <1>1, <2>1, <2>2, OverrideFacts DEF ApplyPart, Apply, TypeInv
<1>2. ASSUME NEW W \in SUBSET orphans, LandLate(W) PROVE FALSE
  BY <1>2 DEF LandLate, Land
<1>3. ASSUME NEW d \in Client, NEW in, Begin(d, in) PROVE FALSE
  BY <1>3 DEF Begin, backend
<1>4. ASSUME NEW d \in Client, NEW D \in SUBSET Key, ReadPrev(d, D) \/ ReadSwallowed(d, D)
      PROVE  FALSE
  BY <1>4 DEF ReadPrev, ReadSwallowed, backend
<1>5. ASSUME NEW d \in Client, ReadRejected(d) \/ SetNext(d) \/ Finish(d) \/ Abandon(d)
      PROVE  FALSE
  BY <1>5 DEF ReadRejected, SetNext, Submit, Finish, Resolve, Abandon, backend
<1>6. ASSUME NEW d \in Client, NEW D \in SUBSET Query, SetRejected(d, D) PROVE FALSE
  BY <1>6 DEF SetRejected, Reject
<1>7. CASE UNCHANGED vars
  BY <1>7 DEF vars
<1>. QED
  BY <1>1, <1>2, <1>3, <1>4, <1>5, <1>6, <1>7 DEF AnyStep

-----------------------------------------------------------------------------
(* Editing sessions: the inputs they give to an upsert.                    *)

LEMMA NothingIsText == Nothing \in Text /\ DOMAIN Nothing = {}
<1>1. Nothing \in [{} -> Content] /\ DOMAIN Nothing = {}
  BY DEF Nothing
<1>. QED
  BY <1>1 DEF Text, Answers

LEMMA TextFacts ==
    ASSUME NEW lines \in Text
    PROVE  DOMAIN lines \subseteq Key /\ \A k \in DOMAIN lines : lines[k] \in Content
BY DEF Text, Answers

LEMMA FlagsInput ==
    ASSUME NEW f, IsFlags(f), NEW dry \in BOOLEAN
    PROVE  IsInput(FromFlags(f, dry))
<1>1. [value |-> Empty, cfgu |-> NullCfgu, origin |-> "store"].cfgu \in Cfgu
  BY EmptyIsContent DEF NullCfgu, Cfgu
<1>2. NullCfgu \in Cfgu
  BY <1>1
<1>3. DOMAIN PipeOf(f) \subseteq Key
  BY TextFacts DEF PipeOf, IsFlags
<1>4. ASSUME NEW k \in DOMAIN PipeOf(f)
      PROVE  PipeOf(f)[k] \in Piped
  <2>1. CASE k \in DOMAIN f.files
    <3>1. f.files[k] \in Content
      BY <2>1, TextFacts DEF IsFlags
    <3>2. PipeOf(f)[k] = [value |-> f.files[k], cfgu |-> NullCfgu, origin |-> "store"]
      BY <1>4, <2>1 DEF PipeOf
    <3>. QED
      BY <1>2, <3>1, <3>2 DEF Piped, Origin
  <2>2. CASE k \notin DOMAIN f.files
    BY <1>4, <2>2 DEF PipeOf, IsFlags
  <2>. QED
    BY <2>1, <2>2
<1>5. DOMAIN f.literal \subseteq Key /\ \A k \in DOMAIN f.literal : f.literal[k] \in Content
  BY TextFacts DEF IsFlags
<1>6. f.prune \in BOOLEAN /\ IsSchema(f.schema) /\ f.set \in Set
  BY DEF IsFlags
<1>. QED
  BY <1>3, <1>4, <1>5, <1>6 DEF IsInput, FromFlags

(* The input of the upsert proper: the lines of the file and nothing else. *)
LEMMA EditorFacts ==
    ASSUME NEW f, IsFlags(f), NEW lines \in Text
    PROVE  LET in == FromEditor(f, lines)
           IN  /\ IsInput(in)
               /\ in.schema = f.schema /\ in.set = f.set /\ in.dry = f.preview
               /\ \A k, before :
                     NextValue(in, k, before) =
                        IF k \in DOMAIN lines /\ ~Computed(f, k) THEN lines[k]
                        ELSE IF f.prune THEN Empty ELSE before
<1>. DEFINE in == FromEditor(f, lines)
            base == FromFlags(f, f.preview)
            configs == EditorConfigs(f, lines)
<1>1. f.preview \in BOOLEAN
  BY DEF IsFlags
<1>2. IsInput(base)
  BY <1>1, FlagsInput
<1>3. /\ DOMAIN in = DOMAIN base
      /\ in.schema = f.schema /\ in.set = f.set /\ in.dry = f.preview /\ in.delete = f.prune
      /\ in.validate = TRUE
      /\ in.configs = configs /\ in.pipe = Nothing
  BY DEF FromEditor, FromFlags
<1>4. /\ DOMAIN configs = {k \in DOMAIN lines : ~Computed(f, k)}
      /\ \A k \in DOMAIN configs : configs[k] = lines[k]
  BY DEF EditorConfigs
<1>5. DOMAIN configs \subseteq Key /\ \A k \in DOMAIN configs : configs[k] \in Content
  BY <1>4, TextFacts
<1>. HIDE DEF in, base, configs
<1>6. IsInput(in)
  <2>1. base.delete \in BOOLEAN /\ f.prune \in BOOLEAN
    BY DEF IsFlags, base, FromFlags
  <2>2. IsSchema(f.schema) /\ f.set \in Set
    BY DEF IsFlags
  <2>3. DOMAIN in = {"schema", "set", "configs", "pipe", "delete", "dry", "validate"}
    BY <1>2, <1>3 DEF IsInput
  <2>. QED
    BY <1>1, <1>3, <1>5, <2>1, <2>2, <2>3, NothingIsText DEF IsInput
<1>7. TakenFromPipe(in) = {}
  BY <1>3, NothingIsText DEF TakenFromPipe
<1>8. DOMAIN Given(in) = DOMAIN configs /\ \A k \in DOMAIN configs : Given(in)[k] = configs[k]
  BY <1>3, <1>7 DEF Given
<1>9. \A k, before :
          NextValue(in, k, before) =
             IF k \in DOMAIN lines /\ ~Computed(f, k) THEN lines[k]
             ELSE IF f.prune THEN Empty ELSE before
  BY <1>3, <1>4, <1>8 DEF NextValue
<1>. QED
  BY <1>3, <1>6, <1>9 DEF in

-----------------------------------------------------------------------------
(* Editing sessions: the invariant.                                        *)

(* What is written is of the command's set and schema.                     *)
OwnSet(c) ==
    pc[c] = "write" => DOMAIN pending[c] \subseteq {input[c].set} \X DOMAIN input[c].schema

(* What c upserts goes back to its command line, and to its file.          *)
SessionOK(c) ==
    /\ stage[c] \in {"direct", "preview", "editing", "apply"}
    /\ stage[c] # "direct" => IsFlags(flags[c])
    /\ stage[c] \in {"preview", "editing"} => input[c] = FromFlags(flags[c], TRUE)
    /\ stage[c] = "editing" => pc[c] \in {"done", "failed"} /\ shown[c] = Report(c)
    /\ stage[c] = "apply" => text[c] \in Text /\ input[c] = FromEditor(flags[c], text[c])

(* A line stands for a value: it says the value, or what comes back of it. *)
SaidBy(line, value) == line = value \/ line = Retyped[value]

(* What the user has left alone still has a value the file showed, if      *)
(* nobody else has written it since and the preview could read it.         *)
Untouched(c) ==
    stage[c] = "apply" =>
        \A k \in DOMAIN flags[c].schema :
            \/ Asked(c, k) \/ Computed(flags[c], k)
            \/ <<flags[c].set, k>> \in moved[c]
            \/ k \in overlooked[c]
            \/ SaidBy(shown[c][k], store[<<flags[c].set, k>>])

SessionShapes ==
    /\ DOMAIN flags = Client /\ DOMAIN stage = Client
    /\ DOMAIN shown = Client /\ DOMAIN text = Client
    /\ DOMAIN moved = Client /\ DOMAIN overlooked = Client

EditInv ==
    /\ IInv
    /\ SessionShapes
    /\ \A c \in Client : OwnSet(c) /\ SessionOK(c) /\ Untouched(c)

LEMMA EditInvInit == EditInit => EditInv
<1>1. EditInit => IInv
  BY TypeInit, StagesInit, MatchesInit DEF EditInit, IInv
<1>2. EditInit => SessionShapes
  BY DEF EditInit, SessionShapes
<1>3. EditInit => \A c \in Client : OwnSet(c) /\ SessionOK(c) /\ Untouched(c)
  BY DEF EditInit, Init, OwnSet, SessionOK, Untouched
<1>. QED
  BY <1>1, <1>2, <1>3 DEF EditInv

(* A step of a session is one of its upserts, or leaves them alone.        *)
LEMMA EditNextIsAnyStep == EditInv /\ [EditNext]_sessionVars => [AnyStep]_vars
<1>. SUFFICES ASSUME EditInv, [EditNext]_sessionVars PROVE [AnyStep]_vars
  OBVIOUS
<1>1. ASSUME NEW c \in Client, NEW f \in Flags, Run(c, f) PROVE AnyStep
  <2>1. IsFlags(f)
    BY EditAssumption
  <2>2. (Edits(f) \/ f.preview) \in BOOLEAN
    OBVIOUS
  <2>3. IsInput(FromFlags(f, Edits(f) \/ f.preview))
    BY <2>1, <2>2, FlagsInput
  <2>. QED
    BY <1>1, <2>3 DEF Run, AnyStep
<1>2. ASSUME NEW c \in Client, OpenEditor(c) PROVE UNCHANGED vars
  BY <1>2 DEF OpenEditor
<1>3. ASSUME NEW c \in Client, NEW lines \in Text, CloseEditor(c, lines) PROVE AnyStep
  <2>1. IsFlags(flags[c])
    BY <1>3 DEF CloseEditor, EditInv, SessionOK
  <2>2. IsInput(FromEditor(flags[c], lines))
    BY <2>1, EditorFacts
  <2>. QED
    BY <1>3, <2>2 DEF CloseEditor, AnyStep
<1>4. ASSUME NEW c \in Client, EditorFails(c) PROVE AnyStep
  <2>1. Abandon(c)
    BY <1>4 DEF EditorFails, Abandon
  <2>. QED
    BY <2>1 DEF AnyStep
<1>5. ASSUME NEW c \in Client, Upserting(c) PROVE AnyStep
  BY <1>5 DEF Upserting, AnyStep
<1>6. ASSUME NEW c \in Client, NEW D \in SUBSET Query, Writes(c, D) PROVE AnyStep
  BY <1>6 DEF Writes, AnyStep
<1>7. ASSUME NEW W \in SUBSET orphans, WritesLate(W) PROVE AnyStep
  BY <1>7 DEF WritesLate, AnyStep
<1>8. CASE UNCHANGED sessionVars
  BY <1>8 DEF sessionVars
<1>. QED
  BY <1>1, <1>2, <1>3, <1>4, <1>5, <1>6, <1>7, <1>8, EditAssumption DEF EditNext

LEMMA ShapesStep == SessionShapes /\ [EditNext]_sessionVars => SessionShapes'
BY DEF SessionShapes, EditNext, sessionVars, session, Run, OpenEditor, CloseEditor,
       EditorFails, Upserting, Writes, WritesLate, MovedBy

LEMMA OwnSetStep ==
    ASSUME IInv, [AnyStep]_vars, NEW c \in Client, OwnSet(c)
    PROVE  OwnSet(c)'
<1>. TypeInv /\ Awaiting
  BY DEF IInv
<1>1. ASSUME NEW d \in Client, NEW in, Begin(d, in) PROVE OwnSet(c)'
  BY <1>1 DEF Begin, backend, OwnSet, TypeInv
<1>2. ASSUME NEW d \in Client, NEW D \in SUBSET Key, ReadPrev(d, D) \/ ReadSwallowed(d, D)
      PROVE  OwnSet(c)'
  BY <1>2 DEF ReadPrev, ReadSwallowed, backend, OwnSet
<1>3. ASSUME NEW d \in Client, ReadRejected(d) \/ Abandon(d) PROVE OwnSet(c)'
  BY <1>3 DEF ReadRejected, Abandon, backend, OwnSet, TypeInv
<1>4. ASSUME NEW d \in Client, SetNext(d) PROVE OwnSet(c)'
  <2>1. DOMAIN Difference(input[d], prev[d]) \subseteq {input[d].set} \X DOMAIN input[d].schema
    BY DEF Difference
  <2>. QED
    BY <1>4, <2>1 DEF SetNext, Submit, backend, OwnSet, TypeInv
<1>5. ASSUME NEW d \in Client, NEW D \in SUBSET Query, ApplyPart(d, D) PROVE OwnSet(c)'
  <2>1. DOMAIN Without(pending[d], D) \subseteq DOMAIN pending[d]
    BY DEF Without
  <2>. QED
    BY <1>5, <2>1 DEF ApplyPart, Apply, OwnSet, TypeInv
<1>6. ASSUME NEW d \in Client, NEW D \in SUBSET Query, SetRejected(d, D) PROVE OwnSet(c)'
  BY <1>6 DEF SetRejected, Reject, OwnSet, TypeInv
<1>7. ASSUME NEW d \in Client, Finish(d) PROVE OwnSet(c)'
  BY <1>7 DEF Finish, Resolve, OwnSet, TypeInv
<1>8. ASSUME NEW W \in SUBSET orphans, LandLate(W) PROVE OwnSet(c)'
  BY <1>8 DEF LandLate, Land, OwnSet
<1>9. CASE UNCHANGED vars
  BY <1>9 DEF vars, OwnSet
<1>. QED
  BY <1>1, <1>2, <1>3, <1>4, <1>5, <1>6, <1>7, <1>8, <1>9 DEF AnyStep

(* A step of an upsert that has begun.                                     *)
LEMMA UpsertingFacts ==
    ASSUME TypeInv, Awaiting, NEW d \in Client, Upserting(d)
    PROVE  /\ pc[d] \in {"read", "write"} /\ pc'[d] \in {"read", "write", "done", "failed"}
           /\ UNCHANGED <<store, input, session>>
           /\ \A c \in Client \ {d} : pc'[c] = pc[c] /\ prev'[c] = prev[c]
<1>1. ASSUME NEW D \in SUBSET Key, ReadPrev(d, D) \/ ReadSwallowed(d, D)
      PROVE  /\ pc[d] \in {"read", "write"} /\ pc'[d] \in {"read", "write", "done", "failed"}
             /\ UNCHANGED <<store, input>>
             /\ \A c \in Client \ {d} : pc'[c] = pc[c] /\ prev'[c] = prev[c]
  BY <1>1 DEF ReadPrev, ReadSwallowed, backend, TypeInv
<1>2. CASE ReadRejected(d)
  BY <1>2 DEF ReadRejected, backend, TypeInv, Upserting
<1>3. CASE SetNext(d)
  BY <1>3 DEF SetNext, Submit, backend, TypeInv, Upserting
<1>4. CASE Finish(d)
  BY <1>4 DEF Finish, Resolve, Awaiting, TypeInv, Upserting
<1>5. ASSUME NEW D \in SUBSET Query, SetRejected(d, D)
      PROVE  /\ pc[d] \in {"read", "write"} /\ pc'[d] \in {"read", "write", "done", "failed"}
             /\ UNCHANGED <<store, input>>
             /\ \A c \in Client \ {d} : pc'[c] = pc[c] /\ prev'[c] = prev[c]
  BY <1>5 DEF SetRejected, Reject, Awaiting, TypeInv
<1>. QED
  BY <1>1, <1>2, <1>3, <1>4, <1>5 DEF Upserting

(* A step that does not touch c's session.                                 *)
LEMMA SessionsApart ==
    ASSUME NEW c \in Client, SessionOK(c),
           stage'[c] = stage[c], flags'[c] = flags[c], text'[c] = text[c], shown'[c] = shown[c],
           input'[c] = input[c], stage[c] = "editing" => pc'[c] = pc[c] /\ prev'[c] = prev[c]
    PROVE  SessionOK(c)'
<1>1. stage[c] = "editing" => Report(c)' = Report(c)
  BY DEF Report
<1>. QED
  BY <1>1 DEF SessionOK

LEMMA SessionStep ==
    ASSUME EditInv, [EditNext]_sessionVars, NEW c \in Client
    PROVE  SessionOK(c)'
<1>. TypeInv /\ Awaiting /\ SessionShapes /\ SessionOK(c)
  BY DEF EditInv, IInv
<1>1. ASSUME NEW d \in Client, NEW f \in Flags, Run(d, f) PROVE SessionOK(c)'
  <2>1. CASE d = c
    <3>1. IsFlags(f)
      BY EditAssumption
    <3>2. /\ stage'[c] = IF Edits(f) THEN "preview" ELSE "direct"
          /\ flags'[c] = f
          /\ input'[c] = FromFlags(f, Edits(f) \/ f.preview)
      BY <1>1, <2>1 DEF Run, Begin, TypeInv, SessionShapes
    <3>3. Edits(f) => FromFlags(f, Edits(f) \/ f.preview) = FromFlags(f, TRUE)
      BY DEF FromFlags
    <3>. QED
      BY <3>1, <3>2, <3>3 DEF SessionOK
  <2>2. CASE d # c
    BY <1>1, <2>2, SessionsApart DEF Run, Begin, TypeInv, SessionShapes
  <2>. QED
    BY <2>1, <2>2
<1>2. ASSUME NEW d \in Client, OpenEditor(d) PROVE SessionOK(c)'
  <2>1. CASE d = c
    <3>1. /\ stage[c] = "preview" /\ stage'[c] = "editing" /\ pc[c] = "done" /\ pc'[c] = "done"
          /\ flags'[c] = flags[c] /\ input'[c] = input[c] /\ prev'[c] = prev[c]
          /\ shown'[c] = Report(c)
      BY <1>2, <2>1 DEF OpenEditor, SessionShapes, vars
    <3>2. Report(c)' = Report(c)
      BY <3>1 DEF Report
    <3>. QED
      BY <3>1, <3>2 DEF SessionOK
  <2>2. CASE d # c
    BY <1>2, <2>2, SessionsApart DEF OpenEditor, SessionShapes, vars
  <2>. QED
    BY <2>1, <2>2
<1>3. ASSUME NEW d \in Client, NEW lines \in Text, CloseEditor(d, lines) PROVE SessionOK(c)'
  <2>1. CASE d = c
    <3>1. /\ stage[c] = "editing" /\ stage'[c] = "apply"
          /\ flags'[c] = flags[c] /\ text'[c] = lines
          /\ input'[c] = FromEditor(flags[c], lines)
      BY <1>3, <2>1 DEF CloseEditor, Begin, TypeInv, SessionShapes
    <3>. QED
      BY <3>1 DEF SessionOK
  <2>2. CASE d # c
    BY <1>3, <2>2, SessionsApart DEF CloseEditor, Begin, TypeInv, SessionShapes
  <2>. QED
    BY <2>1, <2>2
<1>4. ASSUME NEW d \in Client, EditorFails(d) PROVE SessionOK(c)'
  <2>1. CASE d = c
    <3>1. /\ pc'[c] = "failed" /\ stage[c] = "editing"
          /\ UNCHANGED <<input, prev, flags, stage, shown, text>>
      BY <1>4, <2>1 DEF EditorFails, session, TypeInv
    <3>2. Report(c)' = Report(c)
      BY <3>1 DEF Report
    <3>. QED
      BY <3>1, <3>2 DEF SessionOK
  <2>2. CASE d # c
    BY <1>4, <2>2, SessionsApart DEF EditorFails, session, TypeInv
  <2>. QED
    BY <2>1, <2>2
<1>5. ASSUME NEW d \in Client, Upserting(d) PROVE SessionOK(c)'
  <2>1. stage[c] = "editing" => d # c
    BY <1>5, UpsertingFacts DEF SessionOK
  <2>. QED
    BY <1>5, <2>1, UpsertingFacts, SessionsApart DEF session
<1>6. ASSUME NEW d \in Client, NEW D \in SUBSET Query, Writes(d, D) PROVE SessionOK(c)'
  BY <1>6, SessionsApart DEF Writes, ApplyPart
<1>7. ASSUME NEW W \in SUBSET orphans, WritesLate(W) PROVE SessionOK(c)'
  BY <1>7, SessionsApart DEF WritesLate, LandLate
<1>8. CASE UNCHANGED sessionVars
  BY <1>8, SessionsApart DEF sessionVars, vars, session
<1>. QED
  BY <1>1, <1>2, <1>3, <1>4, <1>5, <1>6, <1>7, <1>8, EditAssumption DEF EditNext

(* Whatever others write is known to have moved.                           *)
LEMMA UntouchedFrame ==
    ASSUME NEW c \in Client, TypeInv, SessionOK(c), Untouched(c),
           stage'[c] = stage[c], flags'[c] = flags[c], text'[c] = text[c], shown'[c] = shown[c],
           moved[c] \subseteq moved'[c], overlooked'[c] = overlooked[c],
           \A q \in Query : store'[q] = store[q] \/ q \in moved'[c]
    PROVE  Untouched(c)'
<1>. SUFFICES ASSUME stage[c] = "apply", NEW k \in DOMAIN flags[c].schema,
                     ~Asked(c, k)', ~Computed(flags[c], k),
                     <<flags[c].set, k>> \notin moved'[c], k \notin overlooked[c]
              PROVE  SaidBy(shown[c][k], store'[<<flags[c].set, k>>])
  BY DEF Untouched, SaidBy
<1>1. ~Asked(c, k)
  BY DEF Asked
<1>2. IsFlags(flags[c])
  BY DEF SessionOK
<1>3. <<flags[c].set, k>> \in Query
  BY <1>2 DEF IsFlags, IsSchema, Query
<1>. QED
  BY <1>1, <1>3 DEF Untouched

(* When the editor closes, what it showed and nobody asks to change is     *)
(* what the preview read.                                                  *)
LEMMA ClosingUntouched ==
    ASSUME EditInv, NEW c \in Client, NEW lines \in Text, CloseEditor(c, lines)
    PROVE  Untouched(c)'
<1>1. /\ stage[c] = "editing" /\ pc[c] = "done" /\ stage'[c] = "apply"
      /\ flags'[c] = flags[c] /\ shown'[c] = shown[c] /\ store' = store
      /\ moved'[c] = stale[c] /\ overlooked'[c] = misread[c] /\ text'[c] = lines
  BY DEF CloseEditor, Begin, backend, EditInv, SessionShapes
<1>2. /\ IsFlags(flags[c]) /\ shown[c] = Report(c)
      /\ input[c] = FromFlags(flags[c], TRUE)
  BY <1>1 DEF EditInv, SessionOK
<1>3. input[c].dry /\ input[c].schema = flags[c].schema /\ input[c].set = flags[c].set
      /\ input[c].delete = flags[c].prune
  BY <1>2 DEF FromFlags
<1>4. DOMAIN prev[c] = DOMAIN flags[c].schema
  BY <1>1, <1>3 DEF EditInv, IInv, Awaiting
<1>. SUFFICES ASSUME NEW k \in DOMAIN flags[c].schema,
                     ~Asked(c, k)', ~Computed(flags[c], k),
                     <<flags[c].set, k>> \notin stale[c], k \notin misread[c]
              PROVE  SaidBy(shown[c][k], store[<<flags[c].set, k>>])
  BY <1>1 DEF Untouched, SaidBy
<1>5. k \notin DOMAIN Given(input[c]) /\ ~flags[c].prune
  BY <1>1, <1>2 DEF Asked
<1>6. shown[c][k] = Retyped[prev[c][k]]
  BY <1>2, <1>3, <1>5 DEF Report, NextValue
<1>7. ReadMatches(c)
  BY DEF EditInv, IInv
<1>. QED
  BY <1>1, <1>3, <1>4, <1>6, <1>7 DEF ReadMatches, SaidBy

(* What c writes of what the user left alone is what the file showed.      *)
LEMMA OwnWrites ==
    ASSUME EditInv, NEW c \in Client, stage[c] = "apply", pc[c] = "write",
           NEW k, <<flags[c].set, k>> \in DOMAIN pending[c],
           ~Asked(c, k)
    PROVE  /\ k \in DOMAIN flags[c].schema
           /\ ~Computed(flags[c], k)
           /\ pending[c][<<flags[c].set, k>>] = shown[c][k]
<1>1. IsFlags(flags[c]) /\ text[c] \in Text /\ input[c] = FromEditor(flags[c], text[c])
  BY DEF EditInv, SessionOK
<1>2. /\ input[c].schema = flags[c].schema /\ input[c].set = flags[c].set
      /\ \A before :
            NextValue(input[c], k, before) =
               IF k \in DOMAIN text[c] /\ ~Computed(flags[c], k) THEN text[c][k]
               ELSE IF flags[c].prune THEN Empty ELSE before
  BY <1>1, EditorFacts
<1>3. k \in DOMAIN flags[c].schema
  BY <1>2 DEF EditInv, OwnSet
<1>4. ~input[c].dry /\ WriteMatches(c)
  BY DEF EditInv, IInv, Awaiting
<1>5. /\ pending[c][<<flags[c].set, k>>] = NextValue(input[c], k, prev[c][k])
      /\ prev[c][k] # NextValue(input[c], k, prev[c][k])
  BY <1>2, <1>3, <1>4 DEF WriteMatches
<1>6. ~flags[c].prune /\ (k \in DOMAIN text[c] => text[c][k] = shown[c][k])
  BY DEF Asked
<1>. QED
  BY <1>2, <1>3, <1>5, <1>6

LEMMA UntouchedStep ==
    ASSUME EditInv, [EditNext]_sessionVars, NEW c \in Client
    PROVE  Untouched(c)'
<1>. TypeInv /\ Awaiting /\ SessionShapes /\ SessionOK(c) /\ Untouched(c)
  BY DEF EditInv, IInv
<1>1. ASSUME NEW d \in Client, NEW f \in Flags, Run(d, f) PROVE Untouched(c)'
  <2>1. CASE d = c
    <3>1. stage'[c] # "apply"
      BY <1>1, <2>1 DEF Run, SessionShapes
    <3>. QED
      BY <3>1 DEF Untouched
  <2>2. CASE d # c
    BY <1>1, <2>2, UntouchedFrame DEF Run, Begin, backend, SessionShapes
  <2>. QED
    BY <2>1, <2>2
<1>2. ASSUME NEW d \in Client, OpenEditor(d) PROVE Untouched(c)'
  <2>1. CASE d = c
    <3>1. stage'[c] # "apply"
      BY <1>2, <2>1 DEF OpenEditor, SessionShapes
    <3>. QED
      BY <3>1 DEF Untouched
  <2>2. CASE d # c
    BY <1>2, <2>2, UntouchedFrame DEF OpenEditor, vars, SessionShapes
  <2>. QED
    BY <2>1, <2>2
<1>3. ASSUME NEW d \in Client, NEW lines \in Text, CloseEditor(d, lines) PROVE Untouched(c)'
  <2>1. CASE d = c
    BY <1>3, <2>1, ClosingUntouched
  <2>2. CASE d # c
    BY <1>3, <2>2, UntouchedFrame DEF CloseEditor, Begin, backend, SessionShapes
  <2>. QED
    BY <2>1, <2>2
<1>4. ASSUME NEW d \in Client, EditorFails(d) PROVE Untouched(c)'
  BY <1>4, UntouchedFrame DEF EditorFails, session, backend
<1>5. ASSUME NEW d \in Client, Upserting(d) PROVE Untouched(c)'
  BY <1>5, UpsertingFacts, UntouchedFrame DEF session
<1>6. ASSUME NEW d \in Client, NEW D \in SUBSET Query, Writes(d, D) PROVE Untouched(c)'
  <2>1. D \subseteq DOMAIN pending[d] /\ pending[d] \in Batch
    BY <1>6 DEF Writes, ApplyPart, Apply, TypeInv
  <2>2. \A q \in Query : store'[q] = IF q \in D THEN pending[d][q] ELSE store[q]
    BY <1>6, <2>1, OverrideFacts DEF Writes, ApplyPart, Apply, TypeInv
  <2>3. CASE d = c
    <3>1. /\ pc[c] = "write" /\ moved'[c] = moved[c]
          /\ UNCHANGED <<flags, stage, shown, text, overlooked>>
      BY <1>6, <2>3 DEF Writes, MovedBy, ApplyPart, Apply, Awaiting
    <3>. SUFFICES ASSUME stage[c] = "apply", NEW k \in DOMAIN flags[c].schema,
                         ~Asked(c, k), ~Computed(flags[c], k),
                         <<flags[c].set, k>> \notin moved[c], k \notin overlooked[c]
                  PROVE  SaidBy(shown[c][k], store'[<<flags[c].set, k>>])
      BY <3>1 DEF Untouched, Asked, SaidBy
    <3>2. <<flags[c].set, k>> \in Query
      BY DEF SessionOK, IsFlags, IsSchema, Query
    <3>3. SaidBy(shown[c][k], store[<<flags[c].set, k>>])
      BY DEF Untouched
    <3>4. <<flags[c].set, k>> \in D => pending[c][<<flags[c].set, k>>] = shown[c][k]
      BY <2>1, <2>3, <3>1, OwnWrites
    <3>. QED
      BY <2>2, <2>3, <3>2, <3>3, <3>4 DEF SaidBy
  <2>4. CASE d # c
    <3>1. stage[c] = "apply" => moved'[c] = moved[c] \cup D
      BY <1>6, <2>4 DEF Writes, MovedBy
    <3>2. stage[c] # "apply" => Untouched(c)'
      BY <1>6 DEF Writes, Untouched
    <3>3. stage[c] = "apply" => Untouched(c)'
      BY <1>6, <2>2, <3>1, UntouchedFrame DEF Writes
    <3>. QED
      BY <3>2, <3>3
  <2>. QED
    BY <2>3, <2>4
<1>7. ASSUME NEW W \in SUBSET orphans, WritesLate(W) PROVE Untouched(c)'
  <2>1. W \subseteq Query \X Content
    BY DEF TypeInv
  <2>2. \A q \in Query \ Written(W) : store'[q] = store[q]
    <3>1. store \in [Query -> Content] /\ store' = Landed(store, W)
      BY <1>7 DEF WritesLate, LandLate, Land, TypeInv
    <3>. QED
      BY <2>1, <3>1, LandedFacts
  <2>3. stage[c] = "apply" => moved'[c] = moved[c] \cup Written(W)
    BY <1>7 DEF WritesLate
  <2>4. stage[c] # "apply" => Untouched(c)'
    BY <1>7 DEF WritesLate, Untouched
  <2>5. stage[c] = "apply" => Untouched(c)'
    BY <1>7, <2>2, <2>3, UntouchedFrame DEF WritesLate
  <2>. QED
    BY <2>4, <2>5
<1>8. CASE UNCHANGED sessionVars
  BY <1>8, UntouchedFrame DEF sessionVars, vars, session
<1>. QED
  BY <1>1, <1>2, <1>3, <1>4, <1>5, <1>6, <1>7, <1>8, EditAssumption DEF EditNext

LEMMA EditInvStep == EditInv /\ [EditNext]_sessionVars => EditInv'
<1>. SUFFICES ASSUME EditInv, [EditNext]_sessionVars PROVE EditInv'
  OBVIOUS
<1>1. IInv /\ [AnyStep]_vars
  BY EditNextIsAnyStep DEF EditInv
<1>2. IInv'
  BY <1>1, TypeStep, AwaitingStep, AskedStep, MatchesStep DEF IInv
<1>3. SessionShapes'
  BY ShapesStep DEF EditInv
<1>4. \A c \in Client : OwnSet(c)' /\ SessionOK(c)' /\ Untouched(c)'
  BY <1>1, OwnSetStep, SessionStep, UntouchedStep DEF EditInv
<1>. QED
  BY <1>2, <1>3, <1>4 DEF EditInv

(* In every reachable state of `configu upsert` the upsert in progress is  *)
(* the one the command line, and the file of the editor, ask for, and what *)
(* the user left alone has a value the file showed.                        *)
THEOREM SessionInvariant == EditSpec => []EditInv
BY EditInvInit, EditInvStep, PTL DEF EditSpec

(* Sessions, too, write only what they were asked to, and report the truth *)
(* (UpsertCommand.execute, called twice by cli upsert.ts).                 *)
THEOREM SessionsAreUpserts ==
    EditSpec => OnlyAskedWrites /\ []ReportMatchesStore /\ []ConfigsBeatPipe
<1>1. EditInv => ReportMatchesStore /\ ConfigsBeatPipe
  BY TrueReport, ConfigsFirst DEF EditInv
<1>2. EditInv /\ [EditNext]_sessionVars
        => [\A q \in Query : store'[q] # store[q] => <<q, store'[q]>> \in asked]_store
  BY EditNextIsAnyStep, WritesAsked DEF EditInv, IInv
<1>. QED
  BY <1>1, <1>2, SessionInvariant, PTL DEF EditSpec, OnlyAskedWrites

(* The file has the last word: when a session has returned, each key with  *)
(* a line in it has that value, unless somebody else wrote it since or a   *)
(* read failed unnoticed (handleEditorInput and the upsert that follows).  *)
THEOREM FilesAreApplied == EditSpec => []FileIsApplied
<1>1. EditInv => FileIsApplied
  <2>. SUFFICES ASSUME EditInv, NEW c \in Client,
                       stage[c] = "apply", pc[c] = "done", ~flags[c].preview,
                       NEW k \in DOMAIN text[c] \cap DOMAIN flags[c].schema,
                       ~Computed(flags[c], k)
                PROVE  LET q == <<flags[c].set, k>>
                       IN  \/ store[q] = text[c][k]
                           \/ q \in stale[c]
                           \/ k \in misread[c] /\ text[c][k] = Empty
    BY DEF FileIsApplied
  <2>1. IsFlags(flags[c]) /\ text[c] \in Text /\ input[c] = FromEditor(flags[c], text[c])
    BY DEF EditInv, SessionOK
  <2>2. /\ input[c].schema = flags[c].schema /\ input[c].set = flags[c].set
        /\ ~input[c].dry /\ NextValue(input[c], k, prev[c][k]) = text[c][k]
    BY <2>1, EditorFacts
  <2>3. WriteMatches(c)
    BY DEF EditInv, IInv
  <2>. QED
    BY <2>2, <2>3 DEF WriteMatches
<1>. QED
  BY <1>1, SessionInvariant, PTL

(* A session changes what the user left alone only as the file retypes it, *)
(* although every line of the file is upserted, edited or not, minutes     *)
(* after it was read (handleEditorInput).                                  *)
THEOREM QuietSessionsOnlyRetype == EditSpec => QuietSessionOnlyRetypes
<1>1. ASSUME EditInv, [EditNext]_sessionVars, NEW c \in Client, NEW q \in Stored(c)
      PROVE  \/ Asked(c, q[2]) \/ q \in moved[c] \/ q[2] \in overlooked[c]
             \/ store'[q] = Retyped[store[q]]
  <2>1. /\ q \in DOMAIN pending[c] /\ q \notin DOMAIN pending'[c]
        /\ stage[c] = "apply" /\ pc[c] = "write" /\ store'[q] # store[q]
    BY <1>1 DEF Stored
  <2>2. TypeInv /\ Awaiting /\ OwnSet(c) /\ SessionOK(c) /\ Untouched(c)
    BY <1>1 DEF EditInv, IInv
  <2>3. IsFlags(flags[c]) /\ text[c] \in Text /\ input[c] = FromEditor(flags[c], text[c])
    BY <2>1, <2>2 DEF SessionOK
  <2>4. input[c].set = flags[c].set /\ input[c].schema = flags[c].schema
    BY <2>3, EditorFacts
  <2>5. q = <<flags[c].set, q[2]>> /\ q[2] \in DOMAIN flags[c].schema /\ q \in Query
    <3>1. q \in {flags[c].set} \X DOMAIN flags[c].schema
      BY <2>1, <2>2, <2>4 DEF OwnSet
    <3>. QED
      BY <2>3, <3>1 DEF IsFlags, IsSchema, Query
  <2>6. store'[q] = pending[c][q]
    <3>1. [AnyStep]_vars
      BY <1>1, EditNextIsAnyStep
    <3>. QED
      BY <2>1, <2>2, <2>5, <3>1, StoredIsPending
  <2>7. ASSUME ~Asked(c, q[2]), q \notin moved[c], q[2] \notin overlooked[c]
        PROVE  store'[q] = Retyped[store[q]]
    <3>1. ~Computed(flags[c], q[2]) /\ pending[c][q] = shown[c][q[2]]
      BY <1>1, <2>1, <2>5, <2>7, OwnWrites
    <3>2. SaidBy(shown[c][q[2]], store[q])
      BY <2>1, <2>2, <2>5, <2>7, <3>1 DEF Untouched
    <3>. QED
      BY <2>1, <2>6, <3>1, <3>2 DEF SaidBy
  <2>. QED
    BY <2>7
<1>2. EditInv /\ [EditNext]_sessionVars
        => [\A c \in Client : \A q \in Stored(c) :
              \/ Asked(c, q[2]) \/ q \in moved[c] \/ q[2] \in overlooked[c]
              \/ store'[q] = Retyped[store[q]]]_store
  BY <1>1
<1>. QED
  BY <1>2, SessionInvariant, PTL DEF EditSpec, QuietSessionOnlyRetypes

=============================================================================
