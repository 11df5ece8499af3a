---------------------------- MODULE UpsertCommand ----------------------------
(***************************************************************************)
(* Programs running UpsertCommands against one ConfigStore (sdk            *)
(* UpsertCommand.ts).  A command validates its input, reads the previous   *)
(* values of its set, and hands the difference to store.set; nothing       *)
(* guards the window between the read and the write.  The store is the     *)
(* abstract ConfigStore: it answers a read in parts and applies a batch in *)
(* parts, in any order, and may reject a set halfway.                      *)
(***************************************************************************)
EXTENDS Configs

CONSTANTS
    Client,         \* programs
    Set,            \* the set paths they use
    Input,          \* the inputs a command may be given
    MaxCommands,    \* commands per client
    MaxFaults       \* backend errors in a behaviour

Query == Set \X Key

VARIABLES
    store, busy, pending, orphans,   \* the ConfigStore
    pc,         \* pc[c]: where c's command is
    input,      \* input[c]: the UpsertCommandInput
    prev,       \* prev[c][k]: value read for k, for the keys answered so far
    commands,   \* commands[c]: how many c has started
    faults,     \* backend errors so far
    asked,      \* history: every write some command was told to make
    stale,      \* stale[c]: history: what others wrote after c last saw it
    misread     \* misread[c]: history: keys whose read failed unnoticed

INSTANCE ConfigStore

backend == <<store, busy, pending, orphans>>

vars == <<store, busy, pending, orphans, pc, input, prev, commands, faults,
          asked, stale, misread>>

(* A piped config as upsert looks at it. *)
Piped == [value : Content, cfgu : Cfgu, origin : Origin]

IsInput(in) ==
    /\ DOMAIN in = {"schema", "set", "configs", "pipe", "delete", "dry", "validate"}
    /\ IsSchema(in.schema)
    /\ in.set \in Set
    /\ DOMAIN in.configs \subseteq Key
    /\ \A k \in DOMAIN in.configs : in.configs[k] \in Content
    /\ DOMAIN in.pipe \subseteq Key
    /\ \A k \in DOMAIN in.pipe : in.pipe[k] \in Piped
    /\ in.delete \in BOOLEAN /\ in.dry \in BOOLEAN /\ in.validate \in BOOLEAN

ASSUME UpsertAssumption ==
    /\ Input # {}
    /\ \A in \in Input : IsInput(in)
    /\ MaxCommands \in Nat /\ MaxFaults \in Nat

-----------------------------------------------------------------------------
(* What execute computes from its input.                                   *)

(* pipeConfigs: the const and lazy tests look at the Cfgu that was piped. *)
TakenFromPipe(in) ==
    {k \in DOMAIN in.pipe \cap DOMAIN in.schema :
        /\ ~IsConst(in.pipe[k].cfgu)
        /\ ~in.pipe[k].cfgu.lazy
        /\ in.pipe[k].origin = "store"}

(* Mutant: the pipe overrides the configs given. *)
GivenPipeFirst(in) ==
    [k \in TakenFromPipe(in) \cup DOMAIN in.configs |->
        IF k \in TakenFromPipe(in) THEN in.pipe[k].value ELSE in.configs[k]]

(* nextConfigs: the pipe, overridden by the configs given. *)
Given(in) ==
    [k \in TakenFromPipe(in) \cup DOMAIN in.configs |->
        IF k \in DOMAIN in.configs THEN in.configs[k] ELSE in.pipe[k].value]

(* validateNextConfigs for one key; the context holds that key alone. *)
Acceptable(in, k) ==
    /\ k \in DOMAIN in.schema
    /\ Given(in)[k] # Empty =>
          /\ ~in.schema[k].lazy
          /\ ~IsConst(in.schema[k])
          /\ Passes(in.schema[k], Given(in)[k], [j \in {k} |-> Given(in)[k]])

Validated(in) == in.validate => \A k \in DOMAIN Given(in) : Acceptable(in, k)

(* next, for the previous value of the key. *)
NextValue(in, k, before) ==
    IF k \in DOMAIN Given(in) THEN Given(in)[k]
    ELSE IF in.delete THEN Empty ELSE before

(* Mutant: every key is handed to the store, changed or not. *)
WholeSchema(in, before) ==
    [q \in {in.set} \X DOMAIN in.schema |-> NextValue(in, q[2], before[q[2]])]

(* setNextConfigs: the batch of the configs that differ. *)
Difference(in, before) ==
    LET changed == {k \in DOMAIN in.schema : before[k] # NextValue(in, k, before[k])}
    IN  [q \in {in.set} \X changed |-> NextValue(in, q[2], before[q[2]])]

(* The writes an input asks for, whatever the store holds. *)
AsksFor(in) ==
    IF in.dry THEN {}
    ELSE {<<<<in.set, k>>, Given(in)[k]>> : k \in DOMAIN Given(in) \cap DOMAIN in.schema}
         \cup {<<<<in.set, k>>, Empty>> :
                  k \in {j \in DOMAIN in.schema : in.delete /\ j \notin DOMAIN Given(in)}}

-----------------------------------------------------------------------------

(* What c has read; a later write of somebody else makes it stale, until  *)
(* c itself writes.                                                        *)
Seen(c) == {input[c].set} \X DOMAIN prev[c]

StaleAfter(D, writers) ==
    [c \in Client |->
        IF c \in writers THEN stale[c] \ D ELSE stale[c] \cup (D \cap Seen(c))]

Init ==
    /\ StoreInit
    /\ pc = [c \in Client |-> "idle"]
    /\ input = [c \in Client |-> CHOOSE in \in Input : TRUE]
    /\ prev = [c \in Client |-> NoBatch]
    /\ commands = [c \in Client |-> 0]
    /\ faults = 0
    /\ asked = {}
    /\ stale = [c \in Client |-> {}]
    /\ misread = [c \in Client |-> {}]

(* run(): store.init, then the input is prepared and validated. *)
Begin(c, in) ==
    /\ pc[c] \in {"idle", "done", "failed"}
    /\ commands[c] < MaxCommands
    /\ commands' = [commands EXCEPT ![c] = @ + 1]
    /\ input' = [input EXCEPT ![c] = in]
    /\ pc' = [pc EXCEPT ![c] = IF Validated(in) THEN "read" ELSE "failed"]
    /\ asked' = IF Validated(in) THEN asked \cup AsksFor(in) ELSE asked
    /\ prev' = [prev EXCEPT ![c] = NoBatch]
    /\ stale' = [stale EXCEPT ![c] = {}]
    /\ misread' = [misread EXCEPT ![c] = {}]
    /\ UNCHANGED <<backend, faults>>

(* Mutant: the configs given are queried as well. *)
UnreadOrGiven(c) ==
    (DOMAIN input[c].schema \cup DOMAIN input[c].configs) \ DOMAIN prev[c]

Unread(c) == DOMAIN input[c].schema \ DOMAIN prev[c]

(* getPrevConfigs: the store answers for the keys in D. *)
ReadPrev(c, D) ==
    /\ pc[c] = "read"
    /\ D # {} /\ D \subseteq Unread(c)
    /\ prev' = [prev EXCEPT ![c] = [k \in DOMAIN prev[c] \cup D |->
                    IF k \in D THEN store[<<input[c].set, k>>] ELSE prev[c][k]]]
    /\ UNCHANGED <<backend, pc, input, commands, faults, asked, stale, misread>>

(* A key-value backend fails for D and the store answers "no value". *)
ReadSwallowed(c, D) ==
    /\ pc[c] = "read"
    /\ faults < MaxFaults
    /\ D # {} /\ D \subseteq Unread(c)
    /\ prev' = [prev EXCEPT ![c] = [k \in DOMAIN prev[c] \cup D |->
                    IF k \in D THEN Empty ELSE prev[c][k]]]
    /\ misread' = [misread EXCEPT ![c] = @ \cup D]
    /\ faults' = faults + 1
    /\ UNCHANGED <<backend, pc, input, commands, asked, stale>>

(* store.get is rejected. *)
ReadRejected(c) ==
    /\ pc[c] = "read"
    /\ faults < MaxFaults
    /\ Unread(c) # {}
    /\ pc' = [pc EXCEPT ![c] = "failed"]
    /\ faults' = faults + 1
    /\ UNCHANGED <<backend, input, prev, commands, asked, stale, misread>>

(* The result is built; unless the command is dry, store.set is called. *)
SetNext(c) ==
    /\ pc[c] = "read"
    /\ Unread(c) = {}
    /\ IF input[c].dry
       THEN pc' = [pc EXCEPT ![c] = "done"] /\ UNCHANGED backend
       ELSE pc' = [pc EXCEPT ![c] = "write"] /\ Submit(c, Difference(input[c], prev[c]))
    /\ UNCHANGED <<input, prev, commands, faults, asked, stale, misread>>

(* The store at work on c's batch. *)
ApplyPart(c, D) ==
    /\ Apply(c, D)
    /\ stale' = StaleAfter(D, {c})
    /\ UNCHANGED <<pc, input, prev, commands, faults, asked, misread>>

(* Mutant: store.set is not awaited. *)
FinishEarly(c) ==
    /\ pc[c] = "write"
    /\ Reject(c, DOMAIN pending[c])
    /\ pc' = [pc EXCEPT ![c] = "done"]
    /\ UNCHANGED <<input, prev, commands, faults, asked, stale, misread>>

(* store.set resolves and the command returns its result. *)
Finish(c) ==
    /\ Resolve(c)
    /\ pc' = [pc EXCEPT ![c] = "done"]
    /\ UNCHANGED <<input, prev, commands, faults, asked, stale, misread>>

(* store.set is rejected with the writes of D still under way. *)
SetRejected(c, D) ==
    /\ faults < MaxFaults
    /\ faults' = faults + 1
    /\ Reject(c, D)
    /\ pc' = [pc EXCEPT ![c] = "failed"]
    /\ UNCHANGED <<input, prev, commands, asked, stale, misread>>

LandLate(W) ==
    /\ Land(W)
    /\ stale' = StaleAfter(Written(W), {})
    /\ UNCHANGED <<pc, input, prev, commands, faults, asked, misread>>

Next ==
    \/ \E c \in Client :
        \/ \E in \in Input : Begin(c, in)
        \/ \E D \in SUBSET Key : ReadPrev(c, D) \/ ReadSwallowed(c, D)
        \/ ReadRejected(c)
        \/ SetNext(c)
        \/ \E D \in SUBSET Query : ApplyPart(c, D) \/ SetRejected(c, D)
        \/ Finish(c)
    \/ \E W \in SUBSET orphans : LandLate(W)

Spec == Init /\ [][Next]_vars

-----------------------------------------------------------------------------

(* Answers of the store for some of the keys. *)
Answers == UNION {[D -> Content] : D \in SUBSET Key}

(* Type correctness of every variable; a command holds answers only for    *)
(* keys of its schema.                                                     *)
TypeOK ==
    /\ store \in [Query -> Content]
    /\ busy \subseteq Client
    /\ pending \in [Client -> Batch]
    /\ orphans \subseteq Query \X Content
    /\ pc \in [Client -> {"idle", "read", "write", "done", "failed"}]
    /\ input \in [Client -> Input]
    /\ prev \in [Client -> Answers]
    /\ \A c \in Client : DOMAIN prev[c] \subseteq DOMAIN input[c].schema
    /\ stale \in [Client -> SUBSET Query]
    /\ misread \in [Client -> SUBSET Key]
    /\ commands \in [Client -> 0..MaxCommands]
    /\ faults \in 0..MaxFaults
    /\ asked \subseteq Query \X Content

(* Nothing unasked changes: whatever commands interleave, fail or land     *)
(* late, a config changes only to a value that some accepted command that  *)
(* is not dry was given for it, or to nothing under --prune.  A key the    *)
(* commands were not given keeps even a value stored in their read-write   *)
(* window (the filter prev !== next of setNextConfigs).                    *)
OnlyAskedWrites ==
    [][\A q \in Query : store'[q] # store[q] => <<q, store'[q]>> \in asked]_store

(* The report is true: when a command has returned, each config of its set *)
(* has the value reported as next, unless somebody else wrote that config  *)
(* after this command last saw it, or its read failed unnoticed and there  *)
(* was nothing to write.                                                   *)
ReportMatchesStore ==
    \A c \in Client :
        pc[c] = "done" /\ ~input[c].dry =>
            \A k \in DOMAIN input[c].schema :
                LET q == <<input[c].set, k>>
                    next == NextValue(input[c], k, prev[c][k])
                IN  \/ store[q] = next
                    \/ q \in stale[c]
                    \/ k \in misread[c] /\ next = Empty

(* Precedence of upsert.ts ("--from-file < --from-literal"): once a        *)
(* command has returned, the store holds the config it was given for a     *)
(* key, never what was piped for that key, with the exceptions above.      *)
ConfigsBeatPipe ==
    \A c \in Client :
        pc[c] = "done" /\ ~input[c].dry =>
            \A k \in DOMAIN input[c].schema \cap DOMAIN input[c].configs :
                LET q == <<input[c].set, k>>
                IN  \/ store[q] = input[c].configs[k]
                    \/ q \in stale[c]
                    \/ k \in misread[c] /\ input[c].configs[k] = Empty

=============================================================================
