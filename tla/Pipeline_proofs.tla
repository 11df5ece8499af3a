--------------------------- MODULE Pipeline_proofs ---------------------------
(***************************************************************************)
(* Proofs about Pipeline, for any number of pipelines, of evals in each,   *)
(* of keys, of other programs' writes, of failures and of kills.           *)
(***************************************************************************)
EXTENDS Pipeline, TLAPS

Content == Value \cup {Empty}

(* The stages before p, which are evals. *)
Earlier(p) == {<<p[1], i>> : i \in 1..(p[2] - 1)}

(* Every function has a value for every process. *)
Shapes ==
    /\ store \in [Query -> Content] /\ backup \in [Query -> Content]
    /\ DOMAIN pc = Stages /\ DOMAIN pipe = Stages /\ DOMAIN own = Stages
    /\ DOMAIN result = Stages /\ DOMAIN before = Stages /\ DOMAIN stdout = Stages
    /\ DOMAIN disturbed = Stages
    /\ DOMAIN option = Exports /\ spoilt \in BOOLEAN

(* Before an eval has evaluated; since a process has read its pipe.        *)
Unstarted(p) == pc[p] \in {"waiting", "piped"}

Ready(p) == pc[p] \in {"piped", "evaluated", "backingUp", "printing", "opening", "writing", "done"}

(* What an eval has found, merged and printed. *)
EvalOK(p) ==
    /\ pc[p] \notin {"opening", "writing"}
    /\ own[p] \in Output /\ result[p] \in Output
    /\ own[p] # Nothing => DOMAIN own[p] = Command(p).keys
    /\ \A k \in DOMAIN own[p] : own[p][k].hidden <=> k \in Command(p).hidden
    /\ pc[p] \in {"evaluated", "backingUp", "printing", "done"} =>
          DOMAIN result[p] = Command(p).keys \cup DOMAIN pipe[p]
    /\ pc[p] = "done" => stdout[p] = result[p]
    /\ pc[p] = "failed" => stdout[p] = Nul
    /\ pc[p] = "killed" => stdout[p] \in {Silence, Torn}

StageOK(p) ==
    /\ pipe[p] \in Output
    /\ Unstarted(p) => own[p] = Nothing /\ result[p] = Nothing
    /\ p \notin Exports => EvalOK(p)
    /\ p \in Exports => pc[p] \notin {"evaluated", "backingUp", "printing"}

(* A process that reads, or has exported, something has behind it evals    *)
(* that are done, or one that was killed.                                  *)
Chain(p) ==
    Ready(p) \/ (p \in Exports /\ result[p] # Nothing) =>
        \A i \in 1..(p[2] - 1) :
            \/ pc[<<p[1], i>>] = "done" /\ Evals[p[1]][i].keys \subseteq DOMAIN pipe[p]
            \/ \E j \in i..(p[2] - 1) : pc[<<p[1], j>>] = "killed"

(* Every entry is one that an eval has found itself. *)
FoundBy(entry, k, r) == k \in DOMAIN own[r] /\ entry = own[r][k]

Sourced(p) ==
    /\ \A k \in DOMAIN pipe[p] : \E r \in Earlier(p) : FoundBy(pipe[p][k], k, r)
    /\ p \notin Exports =>
          \A k \in DOMAIN result[p] : \E r \in Earlier(p) \cup {p} : FoundBy(result[p][k], k, r)

(* HiddenStaysHidden, of one export. *)
Visibly(p) ==
    \A n \in DOMAIN result[p] :
        \E k \in Key, r \in Earlier(p) :
            /\ option[p].name[k] = n
            /\ k \in Command(r).keys \ Command(r).hidden
            /\ k \in DOMAIN own[r] /\ own[r][k].value = result[p][n]

(* The backup is as this eval has read it, then as it has written it.      *)
BackupOK(p) ==
    /\ pc[p] \in {"backingUp", "printing", "done"} =>
          DOMAIN before[p] = Command(p).keys /\ BackedUp(result[p]) \subseteq Command(p).keys
    /\ pc[p] = "backingUp" =>
          \A k \in Command(p).keys :
              k \in disturbed[p] \/ before[p][k] = backup[<<Command(p).set, k>>]
    /\ pc[p] \in {"printing", "done"} =>
          \A k \in BackedUp(result[p]) :
              k \in disturbed[p] \/ backup[<<Command(p).set, k>>] = result[p][k].value

(* What an eval takes from the store, and what is backed up, was stored.   *)
Stored ==
    /\ \A q \in Query : <<q[2], store[q]>> \in stored
    /\ \A p \in Stages : \A k \in DOMAIN own[p] :
          own[p][k].origin = "store" => <<k, own[p][k].value>> \in stored
    /\ BackupWasStored

(* Who writes to the file has torn it. *)
FileOK ==
    /\ \A p \in Exports :
          /\ pc[p] \in {"opening", "writing"} => option[p].mode = "out"
          /\ pc[p] = "writing" => spoilt \/ file = Torn
          /\ \A q \in Exports : p # q /\ pc[p] = "writing" /\ pc[q] = "writing" => spoilt
    /\ OutFileIsWhole

(* What one process, in its place in the pipeline, has come to. *)
Sound(p) ==
    /\ StageOK(p) /\ Chain(p) /\ Sourced(p)
    /\ p \in Exports => Visibly(p)

IInv ==
    /\ Shapes
    /\ \A p \in Stages : Sound(p)
    /\ \A p \in Stages \ Exports : Command(p).backup => BackupOK(p)
    /\ Stored
    /\ FileOK

-----------------------------------------------------------------------------
(* The stages. *)

(* A stage is a place in the pipeline of a shell. *)
LEMMA StageForm ==
    ASSUME NEW p \in Stages
    PROVE  /\ p = <<p[1], p[2]>> /\ p[1] \in Shell
           /\ Len(Evals[p[1]]) \in Nat \ {0}
           /\ p[2] \in 1..(Len(Evals[p[1]]) + 1)
           /\ p \in Exports <=> p[2] = Len(Evals[p[1]]) + 1
  <1>1. PICK s \in Shell : p \in {<<s, i>> : i \in 1..(Len(Evals[s]) + 1)}  BY DEF Stages
  <1>2. PICK i \in 1..(Len(Evals[s]) + 1) : p = <<s, i>>  BY <1>1
  <1>3. p[1] = s /\ p[2] = i  BY <1>2
  <1>4. Len(Evals[s]) \in Nat \ {0}  BY PipelineAssumption
  <1> QED  BY <1>2, <1>3, <1>4 DEF Exports

(* What precedes an export is an eval. *)
LEMMA PlaceIsEval ==
    ASSUME NEW s \in Shell, NEW i \in Nat, 1 <= i, i <= Len(Evals[s])
    PROVE  /\ <<s, i>> \in Stages \ Exports
           /\ Command(<<s, i>>) = Evals[s][i]
           /\ IsEval(Command(<<s, i>>))
  <1>1. Len(Evals[s]) \in Nat /\ DOMAIN Evals[s] = 1..Len(Evals[s])  BY PipelineAssumption
  <1>2. i \in 1..(Len(Evals[s]) + 1) /\ i \in DOMAIN Evals[s]  BY <1>1
  <1>3. <<s, i>> \in Stages  BY <1>2 DEF Stages
  <1>4. <<s, i>> \notin Exports  BY <1>1 DEF Exports
  <1>5. IsEval(Evals[s][i])  BY <1>2, PipelineAssumption
  <1> QED  BY <1>3, <1>4, <1>5 DEF Command

LEMMA EvalForm ==
    ASSUME NEW p \in Stages \ Exports
    PROVE  IsEval(Command(p))
  <1>1. /\ p = <<p[1], p[2]>> /\ p[1] \in Shell /\ p[2] \in Nat
        /\ 1 <= p[2] /\ p[2] <= Len(Evals[p[1]])
    BY StageForm
  <1>2. IsEval(Command(<<p[1], p[2]>>))  BY <1>1, PlaceIsEval
  <1> QED  BY <1>1, <1>2

(* Those before a stage. *)
LEMMA EarlierAreEvals ==
    ASSUME NEW p \in Stages
    PROVE  /\ Earlier(p) \subseteq (Stages \ Exports) \ {p}
           /\ \A i \in 1..(p[2] - 1) :
                 /\ <<p[1], i>> \in Earlier(p)
                 /\ Command(<<p[1], i>>) = Evals[p[1]][i]
  <1> SUFFICES ASSUME NEW i \in 1..(p[2] - 1)
               PROVE  /\ <<p[1], i>> \in (Stages \ Exports) \ {p}
                      /\ Command(<<p[1], i>>) = Evals[p[1]][i]
    BY DEF Earlier
  <1>1. /\ p = <<p[1], p[2]>> /\ p[1] \in Shell /\ p[2] \in Nat
        /\ p[2] <= Len(Evals[p[1]]) + 1 /\ Len(Evals[p[1]]) \in Nat
    BY StageForm
  <1>2. i \in Nat /\ 1 <= i /\ i <= Len(Evals[p[1]]) /\ i < p[2]  BY <1>1
  <1>3. <<p[1], i>> # p  BY <1>1, <1>2
  <1> QED  BY <1>1, <1>2, <1>3, PlaceIsEval

(* The one it reads from. *)
LEMMA Predecessor ==
    ASSUME NEW p \in Stages, p[2] # 1,
           NEW r, r = <<p[1], p[2] - 1>>
    PROVE  /\ r \in Earlier(p) /\ r \in Stages \ Exports
           /\ r[1] = p[1] /\ r[2] = p[2] - 1 /\ p[2] > 1
           /\ Earlier(p) = Earlier(r) \cup {r}
           /\ 1..(p[2] - 1) = 1..(r[2] - 1) \cup {r[2]}
  <1>1. /\ p = <<p[1], p[2]>> /\ p[1] \in Shell /\ p[2] \in Nat /\ p[2] > 1
    BY StageForm
  <1>2. r[1] = p[1] /\ r[2] = p[2] - 1 /\ r[2] \in Nat  BY <1>1
  <1>3. 1..(p[2] - 1) = 1..(r[2] - 1) \cup {r[2]}  BY <1>1, <1>2
  <1>4. r \in Earlier(p)  BY <1>1 DEF Earlier
  <1>5. Earlier(p) = Earlier(r) \cup {r}  BY <1>2, <1>3 DEF Earlier
  <1> QED  BY <1>1, <1>2, <1>3, <1>4, <1>5, EarlierAreEvals

LEMMA FirstHasNone ==
    ASSUME NEW p \in Stages, p[2] = 1
    PROVE  Earlier(p) = {} /\ 1..(p[2] - 1) = {}
  BY DEF Earlier

(* Outputs. *)
LEMMA OutputForm ==
    ASSUME NEW output
    PROVE  output \in Output <=> /\ DOMAIN output \subseteq Key
                                 /\ output \in [DOMAIN output -> Entry]
  BY DEF Output

LEMMA NothingIsOutput ==
    Nothing \in Output /\ DOMAIN Nothing = {}
  BY OutputForm DEF Nothing

LEMMA OutputsAreNotNoise ==
    ASSUME NEW output \in Output
    PROVE  output \notin {Silence, Nul, Torn} /\ Parsed(output) = {output}
  BY PipelineAssumption DEF Parsed

-----------------------------------------------------------------------------
(* A step of one process leaves the others as they are. *)

Kept(r) ==
    /\ pc'[r] = pc[r] /\ pipe'[r] = pipe[r] /\ own'[r] = own[r] /\ result'[r] = result[r]
    /\ before'[r] = before[r] /\ stdout'[r] = stdout[r]

(* What a process has found itself it does not find anew. *)
Alone(p) ==
    /\ ~Over(p)
    /\ own'[p] = own[p] \/ own[p] = Nothing
    /\ \A r \in Stages \ {p} : Kept(r)
    /\ \A r \in Exports \ {p} : option'[r] = option[r]

LEMMA FoundStaysFound ==
    ASSUME NEW p \in Stages, Alone(p),
           NEW r \in Stages, NEW k, NEW entry, FoundBy(entry, k, r)
    PROVE  k \in DOMAIN own'[r] /\ own'[r][k] = entry /\ own'[r] = own[r]
  <1>1. own'[r] = own[r] \/ own[r] = Nothing  BY DEF Alone, Kept
  <1>2. own[r] # Nothing  BY NothingIsOutput DEF FoundBy
  <1> QED  BY <1>1, <1>2 DEF FoundBy

LEMMA OverStaysOver ==
    ASSUME NEW p \in Stages, Alone(p), NEW r \in Stages, Over(r)
    PROVE  pc'[r] = pc[r]
  BY DEF Alone, Kept

(* What the stages before p have come to is what they had come to. *)
LEMMA ChainKeeps ==
    ASSUME NEW p \in Stages, Alone(p), NEW r \in Stages,
           pipe'[r] = pipe[r],
           \A i \in 1..(r[2] - 1) :
               \/ pc[<<r[1], i>>] = "done" /\ Evals[r[1]][i].keys \subseteq DOMAIN pipe[r]
               \/ \E j \in i..(r[2] - 1) : pc[<<r[1], j>>] = "killed"
    PROVE  \A i \in 1..(r[2] - 1) :
               \/ pc'[<<r[1], i>>] = "done" /\ Evals[r[1]][i].keys \subseteq DOMAIN pipe'[r]
               \/ \E j \in i..(r[2] - 1) : pc'[<<r[1], j>>] = "killed"
  <1> SUFFICES ASSUME NEW i \in 1..(r[2] - 1)
               PROVE  \/ pc'[<<r[1], i>>] = "done" /\ Evals[r[1]][i].keys \subseteq DOMAIN pipe'[r]
                      \/ \E j \in i..(r[2] - 1) : pc'[<<r[1], j>>] = "killed"
    OBVIOUS
  <1>0. r[2] \in Nat  BY StageForm
  <1>1. CASE pc[<<r[1], i>>] = "done" /\ Evals[r[1]][i].keys \subseteq DOMAIN pipe[r]
    <2>1. <<r[1], i>> \in Stages  BY EarlierAreEvals
    <2>2. pc'[<<r[1], i>>] = "done"  BY <1>1, <2>1, OverStaysOver DEF Over
    <2> QED  BY <1>1, <2>2
  <1>2. CASE \E j \in i..(r[2] - 1) : pc[<<r[1], j>>] = "killed"
    <2>1. PICK j \in i..(r[2] - 1) : pc[<<r[1], j>>] = "killed"  BY <1>2
    <2>2. j \in 1..(r[2] - 1)  BY <1>0
    <2>3. <<r[1], j>> \in Stages  BY <2>2, EarlierAreEvals
    <2>4. pc'[<<r[1], j>>] = "killed"  BY <2>1, <2>3, OverStaysOver DEF Over
    <2> QED  BY <2>4
  <1> QED  BY <1>1, <1>2

(* A process that reads, merges and exports nothing new is as sound as it  *)
(* was.                                                                    *)
LEMMA Keeps ==
    ASSUME NEW p \in Stages, Alone(p), NEW r \in Stages,
           pipe'[r] = pipe[r], result'[r] = result[r],
           Ready(r)' => Ready(r)
    PROVE  /\ Chain(r) => Chain(r)'
           /\ Sourced(r) => Sourced(r)'
           /\ r \in Exports /\ (option'[r] = option[r] \/ result[r] = Nothing) /\ Visibly(r)
                 => Visibly(r)'
  <1>1. Chain(r) => Chain(r)'
    <2> SUFFICES ASSUME Chain(r), Ready(r)' \/ (r \in Exports /\ result'[r] # Nothing)
                 PROVE  \A i \in 1..(r[2] - 1) :
                            \/ pc'[<<r[1], i>>] = "done" /\ Evals[r[1]][i].keys \subseteq DOMAIN pipe'[r]
                            \/ \E j \in i..(r[2] - 1) : pc'[<<r[1], j>>] = "killed"
      BY DEF Chain, Nothing
    <2>1. \A i \in 1..(r[2] - 1) :
             \/ pc[<<r[1], i>>] = "done" /\ Evals[r[1]][i].keys \subseteq DOMAIN pipe[r]
             \/ \E j \in i..(r[2] - 1) : pc[<<r[1], j>>] = "killed"
      BY DEF Chain
    <2> QED  BY <2>1, ChainKeeps
  <1>2. Sourced(r) => Sourced(r)'
    <2> SUFFICES ASSUME Sourced(r) PROVE Sourced(r)'  OBVIOUS
    <2>1. ASSUME NEW k \in DOMAIN pipe'[r]
          PROVE  \E q \in Earlier(r) : FoundBy(pipe[r][k], k, q)'
      <3>1. PICK q \in Earlier(r) : FoundBy(pipe[r][k], k, q)  BY DEF Sourced
      <3>2. q \in Stages  BY EarlierAreEvals
      <3> QED  BY <3>1, <3>2, FoundStaysFound DEF FoundBy
    <2>2. ASSUME r \notin Exports, NEW k \in DOMAIN result'[r]
          PROVE  \E q \in Earlier(r) \cup {r} : FoundBy(result[r][k], k, q)'
      <3>1. PICK q \in Earlier(r) \cup {r} : FoundBy(result[r][k], k, q)  BY <2>2 DEF Sourced
      <3>2. q \in Stages  BY EarlierAreEvals
      <3> QED  BY <3>1, <3>2, FoundStaysFound DEF FoundBy
    <2> QED  BY <2>1, <2>2 DEF Sourced
  <1>3. r \in Exports /\ (option'[r] = option[r] \/ result[r] = Nothing) /\ Visibly(r) => Visibly(r)'
    <2> SUFFICES ASSUME option'[r] = option[r] \/ result[r] = Nothing, Visibly(r),
                        NEW n \in DOMAIN result'[r]
                 PROVE  \E k \in Key, q \in Earlier(r) :
                           /\ option'[r].name[k] = n
                           /\ k \in Command(q).keys \ Command(q).hidden
                           /\ k \in DOMAIN own'[q] /\ own'[q][k].value = result'[r][n]
      BY DEF Visibly
    <2>1. option'[r] = option[r]  BY NothingIsOutput
    <2>2. PICK k \in Key, q \in Earlier(r) :
             /\ option[r].name[k] = n
             /\ k \in Command(q).keys \ Command(q).hidden
             /\ k \in DOMAIN own[q] /\ own[q][k].value = result[r][n]
      BY DEF Visibly
    <2>3. FoundBy(own[q][k], k, q) /\ q \in Stages  BY <2>2, EarlierAreEvals DEF FoundBy
    <2>4. k \in DOMAIN own'[q] /\ own'[q][k] = own[q][k]  BY <2>3, FoundStaysFound
    <2> QED  BY <2>1, <2>2, <2>4
  <1> QED  BY <1>1, <1>2, <1>3

(* The others are as they were. *)
LEMMA OthersKeep ==
    ASSUME NEW p \in Stages, Alone(p), NEW r \in Stages, r # p
    PROVE  /\ StageOK(r) => StageOK(r)'
           /\ Chain(r) => Chain(r)'
           /\ Sourced(r) => Sourced(r)'
           /\ r \in Exports /\ Visibly(r) => Visibly(r)'
  <1>1. Kept(r)  BY DEF Alone
  <1>2. Ready(r)' => Ready(r)  BY <1>1 DEF Ready, Kept
  <1>3. StageOK(r) => StageOK(r)'
    BY <1>1 DEF Kept, StageOK, EvalOK, Unstarted, Command, Nothing, Output, Entry
  <1>4. r \in Exports => option'[r] = option[r]  BY DEF Alone
  <1> QED  BY <1>1, <1>2, <1>3, <1>4, Keeps DEF Kept

(* Of a process that reads, merges and exports nothing new only what it is *)
(* doing must be looked at.                                                *)
LEMMA QuietlySound ==
    ASSUME NEW p \in Stages, Alone(p), Sound(p), StageOK(p)',
           pipe'[p] = pipe[p], result'[p] = result[p],
           Ready(p)' => Ready(p),
           p \in Exports => option'[p] = option[p] \/ result[p] = Nothing
    PROVE  Sound(p)'
  BY Keeps DEF Sound

(* The soundness of all from that of the one that has taken the step. *)
LEMMA AllSound ==
    ASSUME NEW p \in Stages, Alone(p), Sound(p)', \A r \in Stages : Sound(r)
    PROVE  \A r \in Stages : Sound(r)'
  <1> SUFFICES ASSUME NEW r \in Stages, r # p PROVE Sound(r)'  OBVIOUS
  <1> QED  BY OthersKeep DEF Sound

-----------------------------------------------------------------------------
(* The steps. *)

(* What a process reads is what its predecessor, done, has found. *)
LEMMA ReadPreviousSound ==
    ASSUME Shapes, \A r \in Stages : Sound(r), NEW p \in Stages, ReadPrevious(p)
    PROVE  Alone(p) /\ Sound(p)'
  <1>0. /\ pc[p] = "waiting" /\ own' = own /\ result' = result /\ before' = before /\ option' = option
        /\ Sound(p) /\ own[p] = Nothing /\ result[p] = Nothing
    BY DEF ReadPrevious, exporting, Sound, StageOK, Unstarted
  <1>1. CASE Parsed(InputOf(p)) = {} /\ Fail(p) /\ UNCHANGED pipe
    <2>1. Alone(p)  BY <1>0, <1>1 DEF Alone, Kept, Fail, Goto, Over, Shapes
    <2>2. pc'[p] = "failed" /\ stdout'[p] = Nul  BY <1>1 DEF Fail, Goto, Shapes
    <2>3. StageOK(p)'
      BY <1>0, <1>1, <2>2 DEF Sound, StageOK, EvalOK, Unstarted, Command, Nothing, Output, Entry
    <2>4. ~Ready(p)'  BY <2>2 DEF Ready
    <2> QED  BY <1>0, <1>1, <2>1, <2>3, <2>4, QuietlySound
  <1>2. CASE /\ \E output \in Parsed(InputOf(p)) : pipe' = [pipe EXCEPT ![p] = output]
             /\ Goto(p, "piped")
             /\ UNCHANGED stdout
    <2>1. Alone(p)  BY <1>0, <1>2 DEF Alone, Kept, Goto, Over, Shapes
    <2>2. PICK output \in Parsed(InputOf(p)) : pipe' = [pipe EXCEPT ![p] = output]  BY <1>2
    <2>3. pipe'[p] = output /\ pc'[p] = "piped"  BY <1>2, <2>2 DEF Goto, Shapes
    <2>4. /\ output \in Output
          /\ \A i \in 1..(p[2] - 1) :
                \/ pc[<<p[1], i>>] = "done" /\ Evals[p[1]][i].keys \subseteq DOMAIN output
                \/ \E j \in i..(p[2] - 1) : pc[<<p[1], j>>] = "killed"
          /\ \A k \in DOMAIN output : \E r \in Earlier(p) : FoundBy(output[k], k, r)
      <3>1. CASE p[2] = 1
        <4>1. output = Nothing  BY <3>1 DEF InputOf, Parsed
        <4> QED  BY <3>1, <4>1, FirstHasNone, NothingIsOutput
      <3>2. CASE p[2] # 1
        <4> DEFINE r == <<p[1], p[2] - 1>>
        <4>1. /\ r \in Earlier(p) /\ r \in Stages \ Exports
              /\ r[1] = p[1] /\ r[2] = p[2] - 1 /\ p[2] > 1
              /\ Earlier(p) = Earlier(r) \cup {r}
              /\ 1..(p[2] - 1) = 1..(r[2] - 1) \cup {r[2]}
          BY <3>2, Predecessor
        <4>2. Over(r) /\ output \in Parsed(stdout[r])
          BY <3>2, <4>1, <2>2 DEF ReadPrevious, InputEnds, InputOf
        <4>3. Sound(r)  BY <4>1
        <4>4. Command(r) = Evals[p[1]][r[2]]  BY <4>1 DEF Command
        <4>5. r[2] \in Nat /\ p[2] \in Nat /\ r = <<p[1], r[2]>>  BY <4>1, StageForm
        <4> HIDE DEF r
        <4>6. CASE pc[r] = "done"
          <5>1. result[r] \in Output /\ stdout[r] = result[r]
                /\ DOMAIN result[r] = Command(r).keys \cup DOMAIN pipe[r]
            BY <4>1, <4>3, <4>6 DEF Sound, StageOK, EvalOK
          <5>2. output = result[r]  BY <5>1, <4>2, OutputsAreNotNoise
          <5>3. Ready(r)  BY <4>6 DEF Ready
          <5>4. \A i \in 1..(r[2] - 1) :
                   \/ pc[<<r[1], i>>] = "done" /\ Evals[r[1]][i].keys \subseteq DOMAIN pipe[r]
                   \/ \E j \in i..(r[2] - 1) : pc[<<r[1], j>>] = "killed"
            BY <4>3, <5>3 DEF Sound, Chain
          <5>5. ASSUME NEW i \in 1..(p[2] - 1)
                PROVE  \/ pc[<<p[1], i>>] = "done" /\ Evals[p[1]][i].keys \subseteq DOMAIN output
                       \/ \E j \in i..(p[2] - 1) : pc[<<p[1], j>>] = "killed"
            <6>1. CASE i = r[2]  BY <6>1, <5>1, <5>2, <4>4, <4>5, <4>6
            <6>2. CASE i \in 1..(r[2] - 1)
              <7>1. CASE pc[<<r[1], i>>] = "done" /\ Evals[r[1]][i].keys \subseteq DOMAIN pipe[r]
                BY <7>1, <4>1, <5>1, <5>2
              <7>2. CASE \E j \in i..(r[2] - 1) : pc[<<r[1], j>>] = "killed"
                <8>1. PICK j \in i..(r[2] - 1) : pc[<<r[1], j>>] = "killed"  BY <7>2
                <8>2. j \in i..(p[2] - 1)  BY <4>1, <4>5
                <8> QED  BY <8>1, <8>2, <4>1
              <7> QED  BY <5>4, <6>2, <7>1, <7>2
            <6> QED  BY <4>1, <6>1, <6>2
          <5>6. \A k \in DOMAIN output : \E q \in Earlier(p) : FoundBy(output[k], k, q)
            BY <5>2, <4>1, <4>3 DEF Sound, Sourced
          <5> QED  BY <5>1, <5>2, <5>5, <5>6
        <4>7. CASE pc[r] = "failed"
          <5>1. stdout[r] = Nul  BY <4>1, <4>3, <4>7 DEF Sound, StageOK, EvalOK
          <5> QED  BY <5>1, <4>2, PipelineAssumption DEF Parsed
        <4>8. CASE pc[r] = "killed"
          <5>1. stdout[r] \in {Silence, Torn}  BY <4>1, <4>3, <4>8 DEF Sound, StageOK, EvalOK
          <5>2. output = Nothing  BY <5>1, <4>2, PipelineAssumption DEF Parsed
          <5>3. ASSUME NEW i \in 1..(p[2] - 1)
                PROVE  \E j \in i..(p[2] - 1) : pc[<<p[1], j>>] = "killed"
            <6>1. r[2] \in i..(p[2] - 1)  BY <4>1, <4>5
            <6> QED  BY <6>1, <4>5, <4>8
          <5> QED  BY <5>2, <5>3, NothingIsOutput
        <4> QED  BY <4>2, <4>6, <4>7, <4>8 DEF Over
      <3> QED  BY <3>1, <3>2
    <2>5. StageOK(p)'
      BY <1>0, <1>2, <2>3, <2>4 DEF Sound, StageOK, EvalOK, Unstarted, Command, Nothing, Output, Entry
    <2>6. Chain(p)'
      <3>1. \A i \in 1..(p[2] - 1) :
               \/ pc'[<<p[1], i>>] = "done" /\ Evals[p[1]][i].keys \subseteq DOMAIN output
               \/ \E j \in i..(p[2] - 1) : pc'[<<p[1], j>>] = "killed"
        <4>1. p[2] \in Nat  BY StageForm
        <4>2. ASSUME NEW i \in 1..(p[2] - 1) PROVE pc'[<<p[1], i>>] = pc[<<p[1], i>>]
          BY <2>1, EarlierAreEvals DEF Alone, Kept
        <4>3. ASSUME NEW i \in 1..(p[2] - 1), NEW j \in i..(p[2] - 1)
              PROVE  pc'[<<p[1], j>>] = pc[<<p[1], j>>]
          BY <4>1, <4>2
        <4> QED  BY <4>2, <4>3, <2>4
      <3> QED  BY <3>1, <2>3 DEF Chain
    <2>7. Sourced(p)'
      <3>1. \A k \in DOMAIN pipe'[p] : \E r \in Earlier(p) : FoundBy(pipe[p][k], k, r)'
        BY <1>0, <2>3, <2>4 DEF FoundBy
      <3>2. DOMAIN result'[p] = {}  BY <1>0, NothingIsOutput
      <3> QED  BY <3>1, <3>2 DEF Sourced
    <2>8. Visibly(p)'
      <3>1. DOMAIN result'[p] = {}  BY <1>0, NothingIsOutput
      <3> QED  BY <3>1 DEF Visibly
    <2> QED  BY <2>1, <2>5, <2>6, <2>7, <2>8 DEF Sound
  <1> QED  BY <1>1, <1>2 DEF ReadPrevious

(* What an eval finds, and what it makes of it and of the pipe. *)
LEMMA OwnForm ==
    ASSUME Shapes, NEW p \in Stages \ Exports
    PROVE  /\ DOMAIN Own(Command(p)) = Command(p).keys
           /\ Own(Command(p)) \in Output /\ Own(Command(p)) # Nothing
           /\ \A k \in Command(p).keys :
                 /\ Own(Command(p))[k].hidden <=> k \in Command(p).hidden
                 /\ Own(Command(p))[k].origin = "store" =>
                       Own(Command(p))[k].value = store[<<Command(p).set, k>>]
  <1> DEFINE e == Command(p)
  <1>1. /\ e.set \in Set /\ e.keys \subseteq Key /\ e.keys # {}
        /\ \A k \in e.keys : e.defaults[k] \in Content
    BY EvalForm DEF IsEval, Content
  <1> HIDE DEF e
  <1>2. ASSUME NEW k \in e.keys
        PROVE  /\ Own(e)[k] \in Entry
               /\ Own(e)[k].hidden <=> k \in e.hidden
               /\ Own(e)[k].origin = "store" => Own(e)[k].value = store[<<e.set, k>>]
    <2>1. store[<<e.set, k>>] \in Content  BY <1>1 DEF Shapes, Query
    <2>2. (k \in e.hidden) \in BOOLEAN  OBVIOUS
    <2> QED  BY <2>1, <2>2, <1>1 DEF Own, Entry, Content
  <1>3. DOMAIN Own(e) = e.keys  BY DEF Own
  <1>4. Own(e) \in [e.keys -> Entry]  BY <1>2 DEF Own
  <1>5. Own(e) \in Output  BY <1>1, <1>4 DEF Output
  <1>6. Own(e) # Nothing  BY <1>1, <1>3, NothingIsOutput
  <1> QED  BY <1>2, <1>3, <1>5, <1>6 DEF e

LEMMA MergedForm ==
    ASSUME NEW res \in Output, NEW piped \in Output
    PROVE  /\ Merged(res, piped) \in Output
           /\ DOMAIN Merged(res, piped) = DOMAIN res \cup DOMAIN piped
           /\ \A k \in DOMAIN Merged(res, piped) :
                 \/ k \in DOMAIN res /\ Merged(res, piped)[k] = res[k]
                 \/ k \in DOMAIN piped /\ Merged(res, piped)[k] = piped[k]
  <1>1. /\ DOMAIN res \subseteq Key /\ DOMAIN piped \subseteq Key
        /\ res \in [DOMAIN res -> Entry] /\ piped \in [DOMAIN piped -> Entry]
    BY OutputForm
  <1>2. DOMAIN Merged(res, piped) = DOMAIN res \cup DOMAIN piped  BY DEF Merged
  <1>3. ASSUME NEW k \in DOMAIN res \cup DOMAIN piped
        PROVE  \/ k \in DOMAIN res /\ Merged(res, piped)[k] = res[k]
               \/ k \in DOMAIN piped /\ Merged(res, piped)[k] = piped[k]
    BY DEF Merged
  <1>4. \A k \in DOMAIN res \cup DOMAIN piped : Merged(res, piped)[k] \in Entry  BY <1>1, <1>3
  <1>5. Merged(res, piped) \in [DOMAIN res \cup DOMAIN piped -> Entry]  BY <1>4 DEF Merged
  <1> QED  BY <1>1, <1>2, <1>3, <1>5, OutputForm

LEMMA EvaluateSound ==
    ASSUME Shapes, \A r \in Stages : Sound(r), NEW p \in Stages, Evaluate(p)
    PROVE  Alone(p) /\ Sound(p)'
  <1> DEFINE found == Own(Command(p))
             res == Merged(found, pipe[p])
  <1>0. /\ p \in Stages \ Exports /\ pc[p] = "piped"
        /\ pipe' = pipe /\ before' = before /\ option' = option
        /\ own' = [own EXCEPT ![p] = found]
    BY DEF Evaluate, exporting
  <1>1. Sound(p) /\ own[p] = Nothing /\ result[p] = Nothing /\ pipe[p] \in Output
    BY <1>0 DEF Sound, StageOK, Unstarted
  <1>2. /\ DOMAIN found = Command(p).keys /\ found \in Output
        /\ \A k \in Command(p).keys : found[k].hidden <=> k \in Command(p).hidden
    BY <1>0, OwnForm
  <1>3. own'[p] = found /\ \A r \in Stages \ {p} : own'[r] = own[r]  BY <1>0 DEF Shapes
  <1>4. CASE Valid(Command(p), res)
    <2>1. /\ result' = [result EXCEPT ![p] = res] /\ stdout' = stdout
          /\ Goto(p, IF Command(p).backup THEN "evaluated" ELSE "printing")
      BY <1>4 DEF Evaluate
    <2>2. result'[p] = res /\ pc'[p] \in {"evaluated", "printing"}  BY <2>1 DEF Goto, Shapes
    <2>3. Alone(p)  BY <1>0, <1>1, <1>3, <2>1 DEF Alone, Kept, Goto, Over, Shapes
    <2> HIDE DEF found
    <2>4. /\ res \in Output
          /\ DOMAIN res = Command(p).keys \cup DOMAIN pipe[p]
          /\ \A k \in DOMAIN res :
                \/ k \in DOMAIN found /\ res[k] = found[k]
                \/ k \in DOMAIN pipe[p] /\ res[k] = pipe[p][k]
      <3>1. /\ res \in Output
            /\ DOMAIN res = DOMAIN found \cup DOMAIN pipe[p]
            /\ \A k \in DOMAIN res :
                  \/ k \in DOMAIN found /\ res[k] = found[k]
                  \/ k \in DOMAIN pipe[p] /\ res[k] = pipe[p][k]
        BY <1>1, <1>2, MergedForm
      <3> HIDE DEF res
      <3> QED  BY <1>2, <3>1
    <2> HIDE DEF res
    <2>5. StageOK(p)'
      BY <1>0, <1>1, <1>2, <1>3, <2>2, <2>4 DEF StageOK, EvalOK, Unstarted, Command, Nothing, Output, Entry
    <2>6. Chain(p)'
      <3>1. \A i \in 1..(p[2] - 1) :
               \/ pc[<<p[1], i>>] = "done" /\ Evals[p[1]][i].keys \subseteq DOMAIN pipe[p]
               \/ \E j \in i..(p[2] - 1) : pc[<<p[1], j>>] = "killed"
        BY <1>0, <1>1 DEF Sound, Chain, Ready
      <3>2. pipe'[p] = pipe[p]  BY <1>0
      <3> QED  BY <2>3, <3>1, <3>2, ChainKeeps DEF Chain
    <2>7. Sourced(p)'
      <3>1. ASSUME NEW k \in DOMAIN pipe[p]
            PROVE  \E r \in Earlier(p) : FoundBy(pipe[p][k], k, r)'
        <4>1. PICK r \in Earlier(p) : FoundBy(pipe[p][k], k, r)  BY <1>1 DEF Sound, Sourced
        <4>2. own'[r] = own[r]  BY <1>3, EarlierAreEvals
        <4>3. pipe'[p] = pipe[p]  BY <1>0
        <4> QED  BY <4>1, <4>2, <4>3 DEF FoundBy
      <3>2. ASSUME NEW k \in DOMAIN res
            PROVE  \E r \in Earlier(p) \cup {p} : FoundBy(result[p][k], k, r)'
        <4>1. CASE k \in DOMAIN found /\ res[k] = found[k]  BY <4>1, <1>3, <2>2 DEF FoundBy
        <4>2. CASE k \in DOMAIN pipe[p] /\ res[k] = pipe[p][k]
          <5>1. PICK r \in Earlier(p) : FoundBy(pipe[p][k], k, r)'  BY <3>1, <4>2
          <5>2. FoundBy(result[p][k], k, r)'  BY <5>1, <1>0, <2>2, <4>2 DEF FoundBy
          <5> QED  BY <5>2
        <4> QED  BY <2>4, <4>1, <4>2
      <3>3. pipe'[p] = pipe[p]  BY <1>0
      <3> QED  BY <3>1, <3>2, <3>3, <2>2 DEF Sourced
    <2> QED  BY <1>0, <2>3, <2>5, <2>6, <2>7 DEF Sound
  <1>5. CASE ~Valid(Command(p), res)
    <2>1. Fail(p) /\ result' = result  BY <1>5 DEF Evaluate
    <2>2. pc'[p] = "failed" /\ stdout'[p] = Nul  BY <2>1 DEF Fail, Goto, Shapes
    <2>3. Alone(p)  BY <1>0, <1>1, <1>3, <2>1 DEF Alone, Kept, Fail, Goto, Over, Shapes
    <2> HIDE DEF found, res
    <2>4. StageOK(p)'
      BY <1>0, <1>1, <1>2, <1>3, <2>1, <2>2, NothingIsOutput
      DEF StageOK, EvalOK, Unstarted, Command, Nothing, Output, Entry
    <2>5. ~Ready(p)'  BY <2>2 DEF Ready
    <2> QED  BY <1>0, <1>1, <2>1, <2>3, <2>4, <2>5, QuietlySound
  <1> QED  BY <1>4, <1>5

(* A process that fails, or is killed, before it is over. *)
LEMMA EndsSound ==
    ASSUME Shapes, NEW p \in Stages, Sound(p), ~Over(p),
           NEW place \in {"failed", "killed"}, Goto(p, place),
           NEW text, stdout' = [stdout EXCEPT ![p] = text],
           place = "failed" => text = Nul,
           place = "killed" => text \in {Silence, Torn},
           pipe' = pipe, own' = own, result' = result, before' = before, option' = option
    PROVE  Alone(p) /\ Sound(p)'
  <1>1. Alone(p)  BY DEF Alone, Kept, Goto, Shapes
  <1>2. pc'[p] = place /\ stdout'[p] = text  BY DEF Goto, Shapes
  <1>3. StageOK(p)'
    BY <1>2 DEF Sound, StageOK, EvalOK, Unstarted, Command, Nothing, Output, Entry
  <1>4. ~Ready(p)'  BY <1>2 DEF Ready
  <1> QED  BY <1>1, <1>3, <1>4, QuietlySound

LEMMA ReadBackupSound ==
    ASSUME Shapes, \A r \in Stages : Sound(r), NEW p \in Stages, ReadBackup(p)
    PROVE  Alone(p) /\ Sound(p)'
  <1>0. /\ pc[p] = "evaluated" /\ Sound(p)
        /\ pipe' = pipe /\ own' = own /\ result' = result /\ option' = option
    BY DEF ReadBackup, exporting
  <1>1. CASE Declared(p)
    <2>1. /\ before' = [before EXCEPT ![p] = Previous(p)] /\ Goto(p, "backingUp")
          /\ stdout' = stdout
      BY <1>1 DEF ReadBackup
    <2>2. Alone(p)  BY <1>0, <2>1 DEF Alone, Kept, Goto, Over, Shapes
    <2>3. pc'[p] = "backingUp"  BY <2>1 DEF Goto, Shapes
    <2>4. StageOK(p)'
      BY <1>0, <2>1, <2>3 DEF Sound, StageOK, EvalOK, Unstarted, Command, Nothing, Output, Entry
    <2>5. Ready(p)  BY <1>0 DEF Ready
    <2> QED  BY <1>0, <2>2, <2>4, <2>5, QuietlySound
  <1>2. CASE ~Declared(p)
    <2>1. before' = before /\ Fail(p)  BY <1>2 DEF ReadBackup
    <2>2. ~Over(p)  BY <1>0 DEF Over
    <2> QED  BY <1>0, <2>1, <2>2, EndsSound DEF Fail
  <1> QED  BY <1>1, <1>2

(* A process that goes on, and prints or writes what it has. *)
LEMMA GoesOnSound ==
    ASSUME Shapes, NEW p \in Stages, Sound(p),
           NEW place, Goto(p, place),
           \/ pc[p] = "backingUp" /\ place = "printing" /\ stdout' = stdout
           \/ pc[p] = "printing" /\ place = "done" /\ stdout' = [stdout EXCEPT ![p] = result[p]]
           \/ pc[p] = "opening" /\ place = "writing" /\ stdout' = stdout
           \/ pc[p] = "writing" /\ place = "done" /\ stdout' = stdout,
           pipe' = pipe, own' = own, result' = result, before' = before, option' = option
    PROVE  Alone(p) /\ Sound(p)'
  <1>1. Alone(p)  BY DEF Alone, Kept, Goto, Over, Shapes
  <1>2. pc'[p] = place  BY DEF Goto, Shapes
  <1>3. pc[p] = "printing" => stdout'[p] = result[p]  BY DEF Shapes
  <1>4. pc[p] \in {"opening", "writing"} => p \in Exports  BY DEF Sound, StageOK, EvalOK
  <1>5. pc[p] \in {"backingUp", "printing"} => p \notin Exports  BY DEF Sound, StageOK
  <1>6. StageOK(p)'
    BY <1>2, <1>3, <1>4, <1>5
    DEF Sound, StageOK, EvalOK, Unstarted, Command, Nothing, Output, Entry
  <1>7. Ready(p)  BY DEF Ready
  <1> QED  BY <1>1, <1>6, <1>7, QuietlySound

(* The export: what it says under a name an eval has found, and has not    *)
(* hidden.                                                                 *)
LEMMA ExportSound ==
    ASSUME Shapes, \A r \in Stages : Sound(r), NEW p \in Stages, Export(p)
    PROVE  Alone(p) /\ Sound(p)'
  <1>0. /\ p \in Exports /\ pc[p] = "piped" /\ Sound(p) /\ result[p] = Nothing /\ pipe[p] \in Output
        /\ pipe' = pipe /\ own' = own /\ before' = before
    BY DEF Export, Sound, StageOK, Unstarted
  <1>1. PICK x \in Options[p[1]] :
           /\ option' = [option EXCEPT ![p] = x]
           /\ \/ /\ pipe[p] = Nothing \/ x.mode = "explain"
                 /\ stdout' = [stdout EXCEPT ![p] = IF pipe[p] = Nothing THEN Silence ELSE Report]
                 /\ Goto(p, "done")
                 /\ UNCHANGED result
              \/ /\ pipe[p] # Nothing /\ x.mode # "explain"
                 /\ FilterThrows(x, pipe[p]) \/ MapThrows(x, pipe[p])
                 /\ Fail(p)
                 /\ UNCHANGED result
              \/ /\ pipe[p] # Nothing /\ x.mode # "explain"
                 /\ ~FilterThrows(x, pipe[p]) /\ ~MapThrows(x, pipe[p])
                 /\ \E text \in Texts(x, pipe[p]) :
                       /\ result' = [result EXCEPT ![p] = text]
                       /\ stdout' = [stdout EXCEPT ![p] =
                             CASE x.mode = "print" -> text
                               [] x.mode = "run" -> ChildEnvironment(text)
                               [] x.mode = "out" -> Silence]
                 /\ Goto(p, IF x.mode = "out" THEN "opening" ELSE "done")
    BY DEF Export
  <1>2. /\ option'[p] = x /\ \A r \in Exports \ {p} : option'[r] = option[r]
    BY <1>0, <1>1 DEF Shapes
  <1>3. Ready(p)  BY <1>0 DEF Ready
  <1>4. CASE /\ stdout' = [stdout EXCEPT ![p] = IF pipe[p] = Nothing THEN Silence ELSE Report]
             /\ Goto(p, "done")
             /\ UNCHANGED result
    <2>1. Alone(p)  BY <1>0, <1>2, <1>4 DEF Alone, Kept, Goto, Over, Shapes
    <2>2. pc'[p] = "done"  BY <1>4 DEF Goto, Shapes
    <2>3. StageOK(p)'
      BY <1>0, <1>4, <2>2 DEF StageOK, Unstarted, Nothing, Output, Entry
    <2> QED  BY <1>0, <1>3, <1>4, <2>1, <2>3, QuietlySound
  <1>5. CASE Fail(p) /\ UNCHANGED result
    <2>1. Alone(p)  BY <1>0, <1>2, <1>5 DEF Alone, Kept, Fail, Goto, Over, Shapes
    <2>2. pc'[p] = "failed"  BY <1>5 DEF Fail, Goto, Shapes
    <2>3. StageOK(p)'
      BY <1>0, <1>5, <2>2 DEF StageOK, Unstarted, Nothing, Output, Entry
    <2> QED  BY <1>0, <1>3, <1>5, <2>1, <2>3, QuietlySound
  <1>6. CASE /\ \E text \in Texts(x, pipe[p]) :
                   /\ result' = [result EXCEPT ![p] = text]
                   /\ stdout' = [stdout EXCEPT ![p] =
                         CASE x.mode = "print" -> text
                           [] x.mode = "run" -> ChildEnvironment(text)
                           [] x.mode = "out" -> Silence]
             /\ Goto(p, IF x.mode = "out" THEN "opening" ELSE "done")
    <2>1. PICK text \in Texts(x, pipe[p]) :
             /\ result' = [result EXCEPT ![p] = text]
             /\ \E said : stdout' = [stdout EXCEPT ![p] = said]
      BY <1>6
    <2>2. Alone(p)  BY <1>0, <1>2, <1>6, <2>1 DEF Alone, Kept, Goto, Over, Shapes
    <2>3. pc'[p] \in {"opening", "done"} /\ result'[p] = text /\ pipe'[p] = pipe[p]
      BY <1>0, <1>6, <2>1 DEF Goto, Shapes
    <2>4. StageOK(p)'
      BY <1>0, <2>3 DEF StageOK, Unstarted, Nothing, Output, Entry
    <2>5. Chain(p)'
      <3>1. \A i \in 1..(p[2] - 1) :
               \/ pc[<<p[1], i>>] = "done" /\ Evals[p[1]][i].keys \subseteq DOMAIN pipe[p]
               \/ \E j \in i..(p[2] - 1) : pc[<<p[1], j>>] = "killed"
        BY <1>0, <1>3 DEF Sound, Chain
      <3> QED  BY <2>2, <2>3, <3>1, ChainKeeps DEF Chain
    <2>6. Sourced(p)'
      BY <1>0 DEF Sound, Sourced, FoundBy
    <2>7. ASSUME NEW n \in DOMAIN text
          PROVE  \E k \in Key, r \in Earlier(p) :
                    /\ x.name[k] = n
                    /\ k \in Command(r).keys \ Command(r).hidden
                    /\ k \in DOMAIN own[r] /\ own[r][k].value = text[n]
      <3>1. PICK k \in Picked(x, pipe[p]) : x.name[k] = n /\ text[n] = pipe[p][k].value
        BY DEF Texts
      <3>2. k \in DOMAIN pipe[p] /\ ~pipe[p][k].hidden /\ k \in Key
        BY <1>0, OutputForm DEF Picked, Visible
      <3>3. PICK r \in Earlier(p) : k \in DOMAIN own[r] /\ pipe[p][k] = own[r][k]
        BY <1>0, <3>2 DEF Sound, Sourced, FoundBy
      <3>4. r \in Stages \ Exports /\ Sound(r)  BY EarlierAreEvals
      <3>5. own[r] # Nothing  BY <3>3, NothingIsOutput
      <3>6. k \in Command(r).keys \ Command(r).hidden
        BY <3>2, <3>3, <3>4, <3>5 DEF Sound, StageOK, EvalOK
      <3> QED  BY <3>1, <3>2, <3>3, <3>6
    <2>8. Visibly(p)'
      BY <1>0, <1>2, <2>3, <2>7 DEF Visibly, Command
    <2> QED  BY <2>2, <2>4, <2>5, <2>6, <2>8 DEF Sound
  <1> QED  BY <1>1, <1>4, <1>5, <1>6

(* One process takes every step but that of another program. *)
LEMMA StepSound ==
    ASSUME Shapes, \A r \in Stages : Sound(r), NEW p \in Stages,
           Step(p) \/ RequestFails(p) \/ OutFails(p) \/ Kill(p)
    PROVE  Alone(p) /\ Sound(p)'
  <1>0. Sound(p)  OBVIOUS
  <1>1. CASE ReadPrevious(p)  BY <1>1, ReadPreviousSound
  <1>2. CASE Evaluate(p)  BY <1>2, EvaluateSound
  <1>3. CASE ReadBackup(p)  BY <1>3, ReadBackupSound
  <1>4. CASE WriteBackup(p)  BY <1>0, <1>4, GoesOnSound DEF WriteBackup, exporting
  <1>5. CASE PrintResult(p)  BY <1>0, <1>5, GoesOnSound DEF PrintResult, exporting
  <1>6. CASE Export(p)  BY <1>6, ExportSound
  <1>7. CASE OpenOut(p)  BY <1>0, <1>7, GoesOnSound DEF OpenOut
  <1>8. CASE WriteOut(p)  BY <1>0, <1>8, GoesOnSound DEF WriteOut
  <1>9. CASE RequestFails(p)
    <2>1. ~Over(p)  BY <1>9 DEF RequestFails, Over
    <2> QED  BY <1>0, <1>9, <2>1, EndsSound DEF RequestFails, Fail, exporting
  <1>10. CASE OutFails(p)
    <2>1. ~Over(p)  BY <1>10 DEF OutFails, Over
    <2> QED  BY <1>0, <1>10, <2>1, EndsSound DEF OutFails, Fail
  <1>11. CASE Kill(p)
    <2>1. PICK text \in {Silence, Torn} : stdout' = [stdout EXCEPT ![p] = text]  BY <1>11 DEF Kill
    <2>2. /\ ~Over(p) /\ Goto(p, "killed")
          /\ pipe' = pipe /\ own' = own /\ result' = result /\ before' = before /\ option' = option
      BY <1>11 DEF Kill
    <2> QED  BY <1>0, <2>1, <2>2, EndsSound
  <1> QED  BY <1>1, <1>2, <1>3, <1>4, <1>5, <1>6, <1>7, <1>8, <1>9, <1>10, <1>11 DEF Step

-----------------------------------------------------------------------------
(* The backup. *)

LEMMA BackupKept ==
    ASSUME NEW r \in Stages, BackupOK(r), backup' = backup, disturbed'[r] = disturbed[r],
           \/ pc'[r] = pc[r]
           \/ pc[r] = "printing" /\ pc'[r] = "done"
           \/ pc'[r] \notin {"backingUp", "printing", "done"},
           \/ result'[r] = result[r] /\ before'[r] = before[r]
           \/ pc'[r] \notin {"backingUp", "printing", "done"}
    PROVE  BackupOK(r)'
  <1>1. CASE pc'[r] \notin {"backingUp", "printing", "done"}  BY <1>1 DEF BackupOK
  <1>2. CASE /\ pc'[r] = pc[r] \/ (pc[r] = "printing" /\ pc'[r] = "done")
             /\ result'[r] = result[r] /\ before'[r] = before[r]
    BY <1>2 DEF BackupOK, BackedUp, Command
  <1> QED  BY <1>1, <1>2

(* An eval finds its backup as it has read it, but for what others write.  *)
LEMMA ReadBackupKeeps ==
    ASSUME Shapes, NEW p \in Stages, Sound(p), ReadBackup(p)
    PROVE  BackupOK(p)'
  <1>0. backup' = backup /\ disturbed' = disturbed /\ result' = result  BY DEF ReadBackup
  <1>1. CASE Declared(p)
    <2>1. before'[p] = Previous(p) /\ pc'[p] = "backingUp"
      BY <1>1 DEF ReadBackup, Goto, Shapes
    <2>2. DOMAIN before'[p] = Command(p).keys  BY <2>1 DEF Previous
    <2>3. BackedUp(result[p]) \subseteq Command(p).keys  BY <1>1 DEF Declared
    <2>4. \A k \in Command(p).keys : before'[p][k] = backup[<<Command(p).set, k>>]
      BY <2>1 DEF Previous
    <2> QED  BY <1>0, <2>1, <2>2, <2>3, <2>4 DEF BackupOK, BackedUp, Command
  <1>2. CASE ~Declared(p)
    <2>1. pc'[p] = "failed"  BY <1>2 DEF ReadBackup, Fail, Goto, Shapes
    <2> QED  BY <2>1 DEF BackupOK
  <1> QED  BY <1>1, <1>2

(* What an eval backs up is what it has found, and what it changes of      *)
(* another's backup is marked there.                                       *)
LEMMA WriteBackupForm ==
    ASSUME Shapes, NEW p \in Stages, Sound(p), WriteBackup(p)
    PROVE  /\ p \in Stages \ Exports
           /\ Differing(p) \subseteq BackedUp(result[p]) /\ BackedUp(result[p]) \subseteq Key
           /\ \A k \in BackedUp(result[p]) : result[p][k].value \in Content
           /\ \A s \in Set, k \in Key :
                 backup'[<<s, k>>] =
                    IF s = Command(p).set /\ k \in Differing(p) THEN result[p][k].value
                    ELSE backup[<<s, k>>]
           /\ \A r \in Stages \ Exports :
                 disturbed'[r] =
                    IF r # p /\ Command(r).set = Command(p).set
                    THEN disturbed[r] \cup (Differing(p) \cap DOMAIN before[r])
                    ELSE disturbed[r]
  <1> DEFINE e == Command(p)
             K == Differing(p)
  <1>1. /\ pc[p] = "backingUp"
        /\ backup' = [q \in Query |-> IF q \in {e.set} \X K THEN result[p][q[2]].value ELSE backup[q]]
        /\ disturbed' = [r \in Stages |->
                 IF r \in Exports \/ r = p \/ Command(r).set # e.set THEN disturbed[r]
                 ELSE disturbed[r] \cup (K \cap DOMAIN before[r])]
    BY DEF WriteBackup
  <1> HIDE DEF e, K
  <1>2. p \notin Exports /\ result[p] \in Output  BY <1>1 DEF Sound, StageOK, EvalOK
  <1>3. K \subseteq BackedUp(result[p])  BY DEF K, Differing
  <1>4. /\ BackedUp(result[p]) \subseteq Key
        /\ \A k \in BackedUp(result[p]) : result[p][k].value \in Content
    <2>1. /\ DOMAIN result[p] \subseteq Key /\ result[p] \in [DOMAIN result[p] -> Entry]
      BY <1>2, OutputForm
    <2> QED  BY <2>1 DEF BackedUp, Entry, Content
  <1>5. ASSUME NEW s \in Set, NEW k \in Key
        PROVE  backup'[<<s, k>>] = IF s = e.set /\ k \in K THEN result[p][k].value
                                   ELSE backup[<<s, k>>]
    <2>1. <<s, k>> \in Query  BY DEF Query
    <2>2. <<s, k>> \in {e.set} \X K <=> s = e.set /\ k \in K  OBVIOUS
    <2> QED  BY <1>1, <2>1, <2>2
  <1>6. ASSUME NEW r \in Stages \ Exports
        PROVE  disturbed'[r] = IF r # p /\ Command(r).set = e.set
                               THEN disturbed[r] \cup (K \cap DOMAIN before[r])
                               ELSE disturbed[r]
    BY <1>1
  <1> QED  BY <1>2, <1>3, <1>4, <1>5, <1>6 DEF e, K

LEMMA WriteBackupKeeps ==
    ASSUME Shapes, NEW p \in Stages, Sound(p), Alone(p), WriteBackup(p),
           NEW r \in Stages \ Exports, BackupOK(r)
    PROVE  BackupOK(r)'
  <1>0. /\ pc[p] = "backingUp" /\ pc'[p] = "printing" /\ result' = result /\ before' = before
    BY DEF WriteBackup, Goto, Shapes
  <1>1. Command(r).set \in Set /\ Command(r).keys \subseteq Key  BY EvalForm DEF IsEval
  <1>2. \A k \in Key :
           backup'[<<Command(r).set, k>>] =
              IF Command(r).set = Command(p).set /\ k \in Differing(p) THEN result[p][k].value
              ELSE backup[<<Command(r).set, k>>]
    BY <1>1, WriteBackupForm
  <1>3. disturbed'[r] =
           IF r # p /\ Command(r).set = Command(p).set
           THEN disturbed[r] \cup (Differing(p) \cap DOMAIN before[r])
           ELSE disturbed[r]
    BY WriteBackupForm
  <1>4. BackedUp(result[r])' = BackedUp(result[r])  BY <1>0 DEF BackedUp
  <1>5. CASE r = p
    <2>1. DOMAIN before[p] = Command(p).keys /\ BackedUp(result[p]) \subseteq Command(p).keys
      BY <1>0, <1>5 DEF BackupOK
    <2>2. ASSUME NEW k \in BackedUp(result[p])
          PROVE  k \in disturbed'[p] \/ backup'[<<Command(p).set, k>>] = result[p][k].value
      <3>1. k \in Command(p).keys /\ k \in Key  BY <1>1, <1>5, <2>1
      <3>2. k \in disturbed[p] \/ before[p][k] = backup[<<Command(p).set, k>>]
        BY <1>0, <1>5, <3>1 DEF BackupOK
      <3>3. k \notin Differing(p) => before[p][k] = result[p][k].value  BY DEF Differing
      <3> QED  BY <1>2, <1>3, <1>5, <3>1, <3>2, <3>3
    <2> QED  BY <1>0, <1>4, <1>5, <2>1, <2>2 DEF BackupOK, Command
  <1>6. CASE r # p
    <2>1. pc'[r] = pc[r]  BY <1>6 DEF Alone, Kept
    <2>2. ASSUME NEW k \in Key, k \in DOMAIN before[r]
          PROVE  \/ k \in disturbed'[r]
                 \/ /\ backup'[<<Command(r).set, k>>] = backup[<<Command(r).set, k>>]
                    /\ disturbed[r] \subseteq disturbed'[r]
      BY <1>2, <1>3, <1>6, <2>2
    <2>3. disturbed[r] \subseteq disturbed'[r]  BY <1>3
    <2>4. pc[r] \in {"backingUp", "printing", "done"} =>
             /\ DOMAIN before[r] = Command(r).keys /\ BackedUp(result[r]) \subseteq Command(r).keys
      BY DEF BackupOK
    <2>5. pc[r] = "backingUp" =>
             \A k \in Command(r).keys :
                k \in disturbed'[r] \/ before[r][k] = backup'[<<Command(r).set, k>>]
      BY <1>1, <2>2, <2>3, <2>4 DEF BackupOK
    <2>6. pc[r] \in {"printing", "done"} =>
             \A k \in BackedUp(result[r]) :
                k \in disturbed'[r] \/ backup'[<<Command(r).set, k>>] = result[r][k].value
      <3> SUFFICES ASSUME pc[r] \in {"printing", "done"}, NEW k \in BackedUp(result[r])
                   PROVE  k \in disturbed'[r] \/ backup'[<<Command(r).set, k>>] = result[r][k].value
        OBVIOUS
      <3>1. k \in DOMAIN before[r] /\ k \in Key  BY <1>1, <2>4
      <3>2. k \in disturbed[r] \/ backup[<<Command(r).set, k>>] = result[r][k].value
        BY DEF BackupOK
      <3> QED  BY <2>2, <2>3, <3>1, <3>2
    <2> QED  BY <1>0, <1>4, <2>1, <2>4, <2>5, <2>6 DEF BackupOK, Command
  <1> QED  BY <1>5, <1>6

LEMMA StepBackup ==
    ASSUME Shapes, NEW p \in Stages, Sound(p), Alone(p),
           Step(p) \/ RequestFails(p) \/ OutFails(p) \/ Kill(p),
           NEW r \in Stages \ Exports, Command(r).backup, BackupOK(r)
    PROVE  BackupOK(r)'
  <1>1. CASE WriteBackup(p)  BY <1>1, WriteBackupKeeps
  <1>2. CASE ~WriteBackup(p)
    <2>1. backup' = backup /\ disturbed' = disturbed
      BY <1>2 DEF Step, ReadPrevious, Evaluate, ReadBackup, PrintResult, Export, OpenOut, WriteOut,
                  RequestFails, OutFails, Kill
    <2>2. CASE r # p  BY <2>1, <2>2, BackupKept DEF Alone, Kept
    <2>3. CASE r = p
      <3>1. CASE ReadBackup(p)  BY <2>3, <3>1, ReadBackupKeeps
      <3>2. CASE PrintResult(p)
        <4>1. pc[p] = "printing" /\ pc'[p] = "done" /\ result' = result /\ before' = before
          BY <3>2 DEF PrintResult, Goto, Shapes
        <4> QED  BY <2>1, <2>3, <4>1, BackupKept
      <3>3. CASE ReadPrevious(p) \/ Evaluate(p) \/ RequestFails(p) \/ OutFails(p) \/ Kill(p)
        <4>1. pc'[p] \in {"piped", "failed", "killed", "evaluated"}
          BY <2>3, <3>3 DEF ReadPrevious, Evaluate, RequestFails, OutFails, Kill, Fail, Goto, Shapes
        <4> QED  BY <2>1, <2>3, <4>1, BackupKept
      <3>4. ~Export(p) /\ ~OpenOut(p) /\ ~WriteOut(p)
        BY <2>3 DEF Export, OpenOut, WriteOut, Sound, StageOK, EvalOK
      <3> QED  BY <1>2, <3>1, <3>2, <3>3, <3>4 DEF Step
    <2> QED  BY <2>2, <2>3
  <1> QED  BY <1>1, <1>2

-----------------------------------------------------------------------------
(* What was stored. *)

(* What an eval backs up it has in the end from an eval that read it.      *)
LEMMA BackedUpIsStored ==
    ASSUME Stored, NEW p \in Stages \ Exports, Sound(p),
           NEW k \in BackedUp(result[p])
    PROVE  <<k, result[p][k].value>> \in stored
  <1>1. k \in DOMAIN result[p] /\ result[p][k].origin = "store"  BY DEF BackedUp
  <1>2. PICK r \in Earlier(p) \cup {p} : k \in DOMAIN own[r] /\ result[p][k] = own[r][k]
    BY <1>1 DEF Sound, Sourced, FoundBy
  <1>3. r \in Stages  BY EarlierAreEvals
  <1> QED  BY <1>1, <1>2, <1>3 DEF Stored

LEMMA StepStored ==
    ASSUME Shapes, NEW p \in Stages, Sound(p), Alone(p),
           Step(p) \/ RequestFails(p) \/ OutFails(p) \/ Kill(p),
           Stored
    PROVE  Stored'
  <1>1. store' = store /\ stored' = stored
    BY DEF Step, ReadPrevious, Evaluate, ReadBackup, WriteBackup, PrintResult, Export, OpenOut,
           WriteOut, RequestFails, OutFails, Kill
  <1>2. \A q \in Query : <<q[2], store'[q]>> \in stored'  BY <1>1 DEF Stored
  <1>3. ASSUME NEW r \in Stages, NEW k \in DOMAIN own'[r], own'[r][k].origin = "store"
        PROVE  <<k, own'[r][k].value>> \in stored'
    <2>1. CASE r = p /\ Evaluate(p)
      <3>1. p \in Stages \ Exports /\ own'[p] = Own(Command(p))  BY <2>1 DEF Evaluate, Shapes
      <3>2. k \in Command(p).keys /\ own'[p][k].value = store[<<Command(p).set, k>>]
        BY <1>3, <2>1, <3>1, OwnForm
      <3>3. <<Command(p).set, k>> \in Query  BY <3>1, <3>2, EvalForm DEF IsEval, Query
      <3>4. <<k, store[<<Command(p).set, k>>]>> \in stored  BY <3>3 DEF Stored
      <3> QED  BY <1>1, <2>1, <3>2, <3>4
    <2>2. CASE ~(r = p /\ Evaluate(p))
      <3>1. own'[r] = own[r]
        BY <2>2 DEF Alone, Kept, Step, ReadPrevious, ReadBackup, WriteBackup, PrintResult, Export,
                    OpenOut, WriteOut, RequestFails, OutFails, Kill
      <3> QED  BY <1>1, <1>3, <3>1 DEF Stored
    <2> QED  BY <2>1, <2>2
  <1>4. ASSUME NEW q \in Query, backup'[q] # Empty
        PROVE  <<q[2], backup'[q]>> \in stored'
    <2>1. <<q[2], backup[q]>> \in stored \/ backup[q] = Empty  BY DEF Stored, BackupWasStored
    <2>2. CASE WriteBackup(p)
      <3>1. PICK s \in Set, k \in Key : q = <<s, k>>  BY DEF Query
      <3>2. backup'[q] = IF s = Command(p).set /\ k \in Differing(p) THEN result[p][k].value
                         ELSE backup[q]
        BY <2>2, <3>1, WriteBackupForm
      <3>3. k \in Differing(p) => <<k, result[p][k].value>> \in stored
        BY <2>2, WriteBackupForm, BackedUpIsStored
      <3> QED  BY <1>1, <1>4, <2>1, <3>1, <3>2, <3>3
    <2>3. CASE ~WriteBackup(p)
      <3>1. backup' = backup
        BY <2>3 DEF Step, ReadPrevious, Evaluate, ReadBackup, PrintResult, Export, OpenOut, WriteOut,
                    RequestFails, OutFails, Kill
      <3> QED  BY <1>1, <1>4, <2>1, <3>1
    <2> QED  BY <2>2, <2>3
  <1> QED  BY <1>2, <1>3, <1>4 DEF Stored, BackupWasStored

-----------------------------------------------------------------------------
(* The file of --out. *)

(* A process that neither is writing nor will be, nor is over, changes     *)
(* nothing about the file.                                                 *)
LEMMA FileKept ==
    ASSUME NEW p \in Stages, Alone(p), FileOK,
           pc[p] # "writing", pc'[p] # "writing",
           file' = file, spoilt' = spoilt,
           p \in Exports /\ pc'[p] = "opening" => option'[p].mode = "out"
    PROVE  FileOK'
  <1>1. ASSUME NEW r \in Exports
        PROVE  \/ pc'[r] = pc[r] /\ option'[r] = option[r] /\ result'[r] = result[r] /\ r # p
               \/ r = p /\ ~Over(p) /\ pc[p] # "writing" /\ pc'[p] # "writing"
    BY DEF Alone, Kept, Exports
  <1>2. ASSUME NEW r \in Exports
        PROVE  /\ pc'[r] \in {"opening", "writing"} => option'[r].mode = "out"
               /\ pc'[r] = "writing" => spoilt' \/ file' = Torn
               /\ \A q \in Exports : r # q /\ pc'[r] = "writing" /\ pc'[q] = "writing" => spoilt'
    BY <1>1 DEF FileOK
  <1>3. OutFileIsWhole'
    <2>1. CASE spoilt \/ file = Old  BY <2>1 DEF OutFileIsWhole
    <2>2. CASE \E r \in Exports : pc[r] = "writing"
      <3>1. \E r \in Exports : pc'[r] = "writing"  BY <1>1, <2>2
      <3> QED  BY <3>1 DEF OutFileIsWhole
    <2>3. CASE \E r \in Exports : pc[r] = "done" /\ option[r].mode = "out" /\ file = result[r]
      <3>1. PICK r \in Exports : pc[r] = "done" /\ option[r].mode = "out" /\ file = result[r]
        BY <2>3
      <3>2. pc'[r] = "done" /\ option'[r].mode = "out" /\ file' = result'[r]
        BY <1>1, <3>1 DEF Over
      <3> QED  BY <3>2 DEF OutFileIsWhole
    <2> QED  BY <2>1, <2>2, <2>3 DEF FileOK, OutFileIsWhole
  <1> QED  BY <1>2, <1>3 DEF FileOK

(* Whoever is cut short while writing has spoilt it. *)
LEMMA FileSpoilt ==
    ASSUME NEW p \in Stages, Alone(p), FileOK, spoilt' = TRUE,
           pc'[p] \notin {"opening", "writing"}
    PROVE  FileOK'
  <1>1. ASSUME NEW r \in Exports, pc'[r] \in {"opening", "writing"}
        PROVE  pc'[r] = pc[r] /\ option'[r] = option[r]
    BY <1>1 DEF Alone, Kept, Exports
  <1> QED  BY <1>1 DEF FileOK, OutFileIsWhole

LEMMA OpenOutFile ==
    ASSUME Shapes, NEW p \in Stages, Alone(p), Sound(p), FileOK, OpenOut(p)
    PROVE  FileOK'
  <1>1. /\ pc[p] = "opening" /\ pc'[p] = "writing" /\ file' = Torn /\ option' = option
        /\ spoilt' = \E q \in Exports : pc[q] = "writing"
    BY DEF OpenOut, Goto, Shapes
  <1>2. p \in Exports  BY <1>1 DEF Sound, StageOK, EvalOK
  <1>3. ASSUME NEW r \in Exports, r # p PROVE pc'[r] = pc[r]  BY <1>3 DEF Alone, Kept, Exports
  <1>4. ASSUME NEW r \in Exports, pc'[r] \in {"opening", "writing"} PROVE option'[r].mode = "out"
    BY <1>1, <1>2, <1>3, <1>4 DEF FileOK
  <1>5. ASSUME NEW r \in Exports, NEW q \in Exports, r # q, pc'[r] = "writing", pc'[q] = "writing"
        PROVE  spoilt'
    <2>1. pc[r] = "writing" \/ pc[q] = "writing"  BY <1>3, <1>5
    <2> QED  BY <1>1, <2>1
  <1>6. OutFileIsWhole'  BY <1>1, <1>2 DEF OutFileIsWhole
  <1> QED  BY <1>1, <1>4, <1>5, <1>6 DEF FileOK

LEMMA WriteOutFile ==
    ASSUME Shapes, NEW p \in Stages, Alone(p), Sound(p), FileOK, WriteOut(p)
    PROVE  FileOK'
  <1>1. /\ pc[p] = "writing" /\ pc'[p] = "done" /\ result' = result /\ option' = option
        /\ spoilt' = spoilt
        /\ file' \in {result[p]} \cup (IF file = Torn THEN {} ELSE {Torn})
    BY DEF WriteOut, Goto, Shapes
  <1>2. p \in Exports  BY <1>1 DEF Sound, StageOK, EvalOK
  <1>3. ASSUME NEW r \in Exports, r # p PROVE pc'[r] = pc[r]  BY <1>3 DEF Alone, Kept, Exports
  <1>4. CASE spoilt  BY <1>1, <1>3, <1>4 DEF FileOK, OutFileIsWhole
  <1>5. CASE ~spoilt
    <2>1. file = Torn /\ option[p].mode = "out"  BY <1>1, <1>2, <1>5 DEF FileOK
    <2>2. file' = result'[p]  BY <1>1, <2>1
    <2>3. \A r \in Exports : pc'[r] # "writing"  BY <1>1, <1>2, <1>3, <1>5 DEF FileOK
    <2>4. \A r \in Exports : pc'[r] = "opening" => option'[r].mode = "out"
      BY <1>1, <1>3 DEF FileOK
    <2>5. OutFileIsWhole'  BY <1>1, <1>2, <2>1, <2>2 DEF OutFileIsWhole
    <2> QED  BY <2>3, <2>4, <2>5 DEF FileOK
  <1> QED  BY <1>4, <1>5

LEMMA StepFile ==
    ASSUME Shapes, NEW p \in Stages, Alone(p), Sound(p), FileOK,
           Step(p) \/ RequestFails(p) \/ OutFails(p) \/ Kill(p)
    PROVE  FileOK'
  <1>1. CASE OpenOut(p)  BY <1>1, OpenOutFile
  <1>2. CASE WriteOut(p)  BY <1>2, WriteOutFile
  <1>3. CASE OutFails(p) \/ Kill(p)
    <2>1. /\ pc'[p] \in {"failed", "killed"} /\ file' = file
          /\ spoilt' = (spoilt \/ pc[p] = "writing")
      BY <1>3 DEF OutFails, Kill, Fail, Goto, Shapes
    <2>2. CASE pc[p] = "writing"  BY <2>1, <2>2, FileSpoilt
    <2>3. CASE pc[p] # "writing"
      <3>1. spoilt' = spoilt  BY <2>1, <2>3 DEF Shapes
      <3> QED  BY <2>1, <2>3, <3>1, FileKept
    <2> QED  BY <2>2, <2>3
  <1>4. CASE Export(p)
    <2>1. PICK x \in Options[p[1]] :
             /\ option' = [option EXCEPT ![p] = x]
             /\ Goto(p, "done") \/ Fail(p) \/ Goto(p, IF x.mode = "out" THEN "opening" ELSE "done")
      BY <1>4 DEF Export
    <2>2. p \in Exports /\ pc[p] = "piped" /\ file' = file /\ spoilt' = spoilt  BY <1>4 DEF Export
    <2>3. option'[p] = x  BY <2>1, <2>2 DEF Shapes
    <2>4. pc'[p] \in {"done", "failed"} \/ (pc'[p] = "opening" /\ x.mode = "out")
      BY <2>1 DEF Fail, Goto, Shapes
    <2> QED  BY <2>2, <2>3, <2>4, FileKept
  <1>5. CASE ReadPrevious(p) \/ Evaluate(p) \/ ReadBackup(p) \/ WriteBackup(p) \/ PrintResult(p)
             \/ RequestFails(p)
    <2>1. file' = file /\ spoilt' = spoilt
      BY <1>5 DEF ReadPrevious, Evaluate, ReadBackup, WriteBackup, PrintResult, RequestFails, exporting
    <2>2. pc[p] # "writing" /\ pc'[p] \notin {"opening", "writing"}
      BY <1>5 DEF ReadPrevious, Evaluate, ReadBackup, WriteBackup, PrintResult, RequestFails, Fail,
                  Goto, Shapes
    <2> QED  BY <2>1, <2>2, FileKept
  <1> QED  BY <1>1, <1>2, <1>3, <1>4, <1>5 DEF Step

-----------------------------------------------------------------------------
(* The invariant. *)

LEMMA InitHolds ==
    Init => IInv
  <1> SUFFICES ASSUME Init PROVE IInv  OBVIOUS
  <1> USE DEF Init
  <1>1. Shapes
    <2>1. \A p \in Exports : p \in Stages  BY DEF Exports
    <2> QED  BY <2>1 DEF Shapes, Content
  <1>2. ASSUME NEW p \in Stages PROVE Sound(p)
    <2>1. /\ pc[p] = "waiting" /\ pipe[p] = Nothing /\ own[p] = Nothing /\ result[p] = Nothing
      OBVIOUS
    <2>2. StageOK(p)  BY <2>1, NothingIsOutput DEF StageOK, EvalOK, Unstarted
    <2>3. Chain(p)  BY <2>1 DEF Chain, Ready
    <2>4. Sourced(p)  BY <2>1, NothingIsOutput DEF Sourced
    <2>5. Visibly(p)  BY <2>1, NothingIsOutput DEF Visibly
    <2> QED  BY <2>2, <2>3, <2>4, <2>5 DEF Sound
  <1>3. ASSUME NEW p \in Stages \ Exports PROVE BackupOK(p)  BY DEF BackupOK
  <1>4. Stored
    <2>1. \A q \in Query : <<q[2], store[q]>> \in stored  OBVIOUS
    <2>2. \A p \in Stages : DOMAIN own[p] = {}  BY NothingIsOutput
    <2> QED  BY <2>1, <2>2 DEF Stored, BackupWasStored
  <1>5. FileOK
    <2>1. \A p \in Exports : pc[p] = "waiting"  BY DEF Exports
    <2> QED  BY <2>1 DEF FileOK, OutFileIsWhole
  <1> QED  BY <1>1, <1>2, <1>3, <1>4, <1>5 DEF IInv

LEMMA StepShapes ==
    ASSUME Shapes, NEW p \in Stages, Sound(p),
           Step(p) \/ RequestFails(p) \/ OutFails(p) \/ Kill(p)
    PROVE  Shapes'
  <1>1. /\ DOMAIN pc' = Stages /\ DOMAIN stdout' = Stages
    BY DEF Shapes, Step, ReadPrevious, Evaluate, ReadBackup, WriteBackup, PrintResult, Export,
           OpenOut, WriteOut, RequestFails, OutFails, Kill, Fail, Goto
  <1>2. /\ DOMAIN pipe' = Stages /\ DOMAIN own' = Stages /\ DOMAIN result' = Stages
        /\ DOMAIN before' = Stages /\ DOMAIN disturbed' = Stages
    BY DEF Shapes, Step, ReadPrevious, Evaluate, ReadBackup, WriteBackup, PrintResult, Export,
           OpenOut, WriteOut, RequestFails, OutFails, Kill
  <1>3. store' = store
    BY DEF Step, ReadPrevious, Evaluate, ReadBackup, WriteBackup, PrintResult, Export,
           OpenOut, WriteOut, RequestFails, OutFails, Kill
  <1>4. DOMAIN option' = Exports /\ spoilt' \in BOOLEAN
    BY DEF Shapes, Step, ReadPrevious, Evaluate, ReadBackup, WriteBackup, PrintResult, Export,
           OpenOut, WriteOut, RequestFails, OutFails, Kill, exporting
  <1>5. backup' \in [Query -> Content]
    <2>1. CASE WriteBackup(p)
      <3>1. backup' = [q \in Query |-> IF q \in {Command(p).set} \X Differing(p)
                                       THEN result[p][q[2]].value ELSE backup[q]]
        BY <2>1 DEF WriteBackup
      <3>2. \A k \in Differing(p) : result[p][k].value \in Content  BY <2>1, WriteBackupForm
      <3>3. \A q \in Query : backup'[q] \in Content  BY <3>1, <3>2 DEF Shapes
      <3> QED  BY <3>1, <3>3
    <2>2. CASE ~WriteBackup(p)
      <3>1. backup' = backup
        BY <2>2 DEF Step, ReadPrevious, Evaluate, ReadBackup, PrintResult, Export, OpenOut, WriteOut,
                    RequestFails, OutFails, Kill
      <3> QED  BY <3>1 DEF Shapes
    <2> QED  BY <2>1, <2>2
  <1> QED  BY <1>1, <1>2, <1>3, <1>4, <1>5 DEF Shapes

LEMMA ExternalWriteHolds ==
    ASSUME IInv, NEW q \in Query, NEW v \in Content, ExternalWrite(q, v)
    PROVE  IInv'
  <1>1. /\ store' = [store EXCEPT ![q] = v] /\ stored' = stored \cup {<<q[2], v>>}
        /\ backup' = backup /\ pc' = pc /\ pipe' = pipe /\ own' = own /\ result' = result
        /\ before' = before /\ stdout' = stdout /\ disturbed' = disturbed
        /\ option' = option /\ file' = file /\ spoilt' = spoilt
    BY DEF ExternalWrite, exporting
  <1>2. Shapes'  BY <1>1 DEF IInv, Shapes
  <1>3. ASSUME NEW p \in Stages PROVE Sound(p)'
    <2>1. StageOK(p)' /\ Chain(p)'
      BY <1>1 DEF IInv, Sound, StageOK, EvalOK, Unstarted, Chain, Ready, Command, Nothing, Output, Entry
    <2>2. Sourced(p)'  BY <1>1 DEF IInv, Sound, Sourced, FoundBy
    <2>3. p \in Exports => Visibly(p)'  BY <1>1 DEF IInv, Sound, Visibly, Command
    <2> QED  BY <2>1, <2>2, <2>3 DEF Sound
  <1>4. ASSUME NEW p \in Stages \ Exports, Command(p).backup PROVE BackupOK(p)'
    BY <1>1, <1>4, BackupKept DEF IInv
  <1>5. Stored'
    <2>1. \A r \in Query : <<r[2], store'[r]>> \in stored'  BY <1>1 DEF IInv, Stored, Shapes
    <2> QED  BY <1>1, <2>1 DEF IInv, Stored, BackupWasStored
  <1>6. FileOK'  BY <1>1 DEF IInv, FileOK, OutFileIsWhole
  <1> QED  BY <1>2, <1>3, <1>4, <1>5, <1>6 DEF IInv, Command

LEMMA NextHolds ==
    IInv /\ [Next]_vars => IInv'
  <1> SUFFICES ASSUME IInv, [Next]_vars PROVE IInv'  OBVIOUS
  <1>1. ASSUME NEW p \in Stages, Step(p) \/ RequestFails(p) \/ OutFails(p) \/ Kill(p)
        PROVE  IInv'
    <2>0. Shapes /\ Sound(p) /\ (\A r \in Stages : Sound(r)) /\ Stored /\ FileOK  BY DEF IInv
    <2>1. Alone(p) /\ Sound(p)'  BY <1>1, <2>0, StepSound
    <2>2. \A r \in Stages : Sound(r)'  BY <2>0, <2>1, AllSound
    <2>3. Shapes'  BY <1>1, <2>0, StepShapes
    <2>4. \A r \in Stages \ Exports : Command(r).backup => BackupOK(r)'
      BY <1>1, <2>0, <2>1, StepBackup DEF IInv
    <2>5. Stored'  BY <1>1, <2>0, <2>1, StepStored
    <2>6. FileOK'  BY <1>1, <2>0, <2>1, StepFile
    <2> QED  BY <2>2, <2>3, <2>4, <2>5, <2>6 DEF IInv, Command
  <1>2. ASSUME NEW q \in Query, NEW v \in Value \cup {Empty}, ExternalWrite(q, v)
        PROVE  IInv'
    BY <1>2, ExternalWriteHolds DEF Content
  <1>3. CASE UNCHANGED vars
    <2>1. /\ store' = store /\ stored' = stored
          /\ backup' = backup /\ pc' = pc /\ pipe' = pipe /\ own' = own /\ result' = result
          /\ before' = before /\ stdout' = stdout /\ disturbed' = disturbed
          /\ option' = option /\ file' = file /\ spoilt' = spoilt
      BY <1>3 DEF vars, exporting
    <2>2. Shapes' /\ Stored' /\ FileOK'
      BY <2>1 DEF IInv, Shapes, Stored, BackupWasStored, FileOK, OutFileIsWhole
    <2>3. ASSUME NEW p \in Stages PROVE Sound(p)'
      <3>1. StageOK(p)' /\ Chain(p)'
        BY <2>1 DEF IInv, Sound, StageOK, EvalOK, Unstarted, Chain, Ready, Command, Nothing, Output,
                    Entry
      <3>2. Sourced(p)'  BY <2>1 DEF IInv, Sound, Sourced, FoundBy
      <3>3. p \in Exports => Visibly(p)'  BY <2>1 DEF IInv, Sound, Visibly, Command
      <3> QED  BY <3>1, <3>2, <3>3 DEF Sound
    <2>4. ASSUME NEW p \in Stages \ Exports, Command(p).backup PROVE BackupOK(p)'
      BY <2>1, <2>4, BackupKept DEF IInv
    <2> QED  BY <2>2, <2>3, <2>4 DEF IInv, Command
  <1> QED  BY <1>1, <1>2, <1>3 DEF Next

(* In every reachable state what a process has in hand comes from the      *)
(* process before it, its store or its schema, back to the start of the    *)
(* shell pipeline, and backup and file hold what some process wrote.       *)
THEOREM Invariant ==
    Spec => []IInv
  BY InitHolds, NextHolds, PTL DEF Spec

-----------------------------------------------------------------------------
(* The properties. *)

(* However long the pipelines, whatever fails and whoever is killed: an    *)
(* export says something only if every eval before it ended well and its   *)
(* keys are piped, back to the last process that was killed.               *)
THEOREM FailureStops ==
    Spec => []FailureStopsPipeline
  <1>1. IInv => FailureStopsPipeline
    <2> SUFFICES ASSUME IInv, NEW p \in Exports, result[p] # Nothing,
                        NEW i \in 1..(p[2] - 1)
                 PROVE  \/ pc[<<p[1], i>>] = "done" /\ Evals[p[1]][i].keys \subseteq DOMAIN pipe[p]
                        \/ \E j \in i..(p[2] - 1) : pc[<<p[1], j>>] = "killed"
      BY DEF FailureStopsPipeline
    <2>1. p \in Stages  BY DEF Exports
    <2>2. Chain(p)  BY <2>1 DEF IInv, Sound
    <2> QED  BY <2>2 DEF Chain
  <1> QED  BY <1>1, Invariant, PTL

(* What an export says under a name comes from an eval that does not hide  *)
(* the key, and is what that eval found itself: no other schema on the way *)
(* unhides a config.                                                       *)
THEOREM HiddenStays ==
    Spec => []HiddenStaysHidden
  <1>1. IInv => HiddenStaysHidden
    <2> SUFFICES ASSUME IInv, NEW p \in Exports, NEW n \in DOMAIN result[p]
                 PROVE  \E k \in Key, i \in 1..(p[2] - 1) :
                           /\ option[p].name[k] = n
                           /\ k \in Evals[p[1]][i].keys \ Evals[p[1]][i].hidden
                           /\ k \in DOMAIN own[<<p[1], i>>]
                           /\ own[<<p[1], i>>][k].value = result[p][n]
      BY DEF HiddenStaysHidden
    <2>1. p \in Stages  BY DEF Exports
    <2>2. PICK k \in Key, r \in Earlier(p) :
             /\ option[p].name[k] = n
             /\ k \in Command(r).keys \ Command(r).hidden
             /\ k \in DOMAIN own[r] /\ own[r][k].value = result[p][n]
      BY <2>1 DEF IInv, Sound, Visibly
    <2>3. PICK i \in 1..(p[2] - 1) : r = <<p[1], i>>  BY DEF Earlier
    <2>4. Command(r) = Evals[p[1]][i]  BY <2>1, <2>3, EarlierAreEvals
    <2> QED  BY <2>2, <2>3, <2>4
  <1> QED  BY <1>1, Invariant, PTL

(* A stage that is done has its store's configs in the backup, whatever    *)
(* other pipelines do, but for those another has written since.            *)
THEOREM OutputsAreBackedUp ==
    Spec => []OutputIsBackedUp
  <1>1. IInv => OutputIsBackedUp
    <2> SUFFICES ASSUME IInv, NEW p \in Stages \ Exports, pc[p] = "done", Command(p).backup,
                        NEW k \in DOMAIN stdout[p], stdout[p][k].origin = "store"
                 PROVE  k \in disturbed[p] \/ backup[<<Command(p).set, k>>] = stdout[p][k].value
      BY DEF OutputIsBackedUp
    <2>1. stdout[p] = result[p]  BY DEF IInv, Sound, StageOK, EvalOK
    <2>2. k \in BackedUp(result[p])  BY <2>1 DEF BackedUp
    <2>3. BackupOK(p)  BY DEF IInv
    <2> QED  BY <2>1, <2>2, <2>3 DEF BackupOK
  <1> QED  BY <1>1, Invariant, PTL

(* No pipeline, however many write it, puts into the backup what the store *)
(* has never held under that key.                                          *)
THEOREM BackupsWereStored ==
    Spec => []BackupWasStored
  <1>1. IInv => BackupWasStored  BY DEF IInv, Stored
  <1> QED  BY <1>1, Invariant, PTL

(* The file of --out is whole unless a write to it was cut short or two    *)
(* exports wrote it at once.                                               *)
THEOREM OutFileStaysWhole ==
    Spec => []OutFileIsWhole
  <1>1. IInv => OutFileIsWhole  BY DEF IInv, FileOK
  <1> QED  BY <1>1, Invariant, PTL

=============================================================================
