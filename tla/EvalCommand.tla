----------------------------- MODULE EvalCommand -----------------------------
(***************************************************************************)
(* A pipeline of EvalCommands over one ConfigStore, each receiving the     *)
(* output of the previous one as `pipe`, and the ExportCommand that ends   *)
(* it (cli: eval | eval | export; proxy: the body of POST /export).        *)
(*                                                                         *)
(* store.get is asynchronous and a backend answers for one set at a time   *)
(* (one key of a key-value backend, one label of App Configuration), so    *)
(* other programs may write between two answers: ReadSet reads one set and *)
(* ExternalWrite is any other program.  What the command does between two  *)
(* awaits is one step, except the const expressions, which are evaluated   *)
(* one by one.                                                             *)
(***************************************************************************)
EXTENDS Configs

CONSTANTS
    Command,      \* the command inputs the pipeline is made of
    Position,     \* Position[k]: where schemas declare key k
    MaxEvals,     \* length of the pipeline
    MaxWrites,    \* external writes in a behaviour
    MaxFaults     \* failed backend reads in a behaviour

IsCommand(c) ==
    /\ DOMAIN c = {"schema", "path", "depth", "override", "validate"}
    /\ IsSchema(c.schema)
    /\ c.path \in Path
    /\ c.depth \in Nat
    /\ DOMAIN c.override \subseteq Key
    /\ \A k \in DOMAIN c.override : c.override[k] \in Content
    /\ c.validate \in BOOLEAN

ASSUME EvalAssumption ==
    /\ Command # {}
    /\ \A c \in Command : IsCommand(c)
    /\ Position \in [Key -> Nat]
    /\ MaxEvals \in Nat /\ MaxWrites \in Nat /\ MaxFaults \in Nat

(* The sets some command of the pipeline may read. *)
Sets == UNION {QueriedSets(c.path, c.depth) : c \in Command}

VARIABLES
    store,      \* store[s][k]: the value stored for key k at set s
    phase,      \* where the pipeline is
    cmd,        \* input of the command in progress (the last one when idle)
    unread,     \* sets store.get has not answered for yet
    records,    \* storeConfigsArray: what it answered so far
    result,     \* the EvalCommandOutput under construction
    todo,       \* const keys whose expression is not evaluated yet
    pipe,       \* output of the previous command
    exported,   \* what the ExportCommand returned
    evals, writes, faults,   \* counters behind the bounds
    torn        \* history: a set this get had already read changed, or a read failed

vars == <<store, phase, cmd, unread, records, result, todo, pipe, exported,
          evals, writes, faults, torn>>

counters == <<evals, writes, faults>>

Phase == {"idle", "read", "const", "failed", "exported"}

-----------------------------------------------------------------------------
(* The stages of EvalCommand.execute, in the order it applies them.        *)

EvalEmpty(c) ==
    [k \in DOMAIN c.schema |->
        [set |-> c.path, value |-> Empty, cfgu |-> c.schema[k], origin |-> "empty"]]

(* Position of a set in the queried part of the hierarchy: all of them are *)
(* prefixes of one path, so the longer one comes later.                    *)
Answers(recs, k) == {r \in recs : r.key = k}

(* Mutant: orderBy(position, 'desc'). *)
Shallowest(recs, k) ==
    CHOOSE r \in Answers(recs, k) :
        \A other \in Answers(recs, k) : Len(other.set) >= Len(r.set)

(* storeConfigsDict[k]: orderBy(position, 'asc') then keyBy keeps the last. *)
Deepest(recs, k) ==
    CHOOSE r \in Answers(recs, k) :
        \A other \in Answers(recs, k) : Len(other.set) <= Len(r.set)

(* Mutant: the merge keeps the set of the command, not of the record. *)
EvalStoreKeepsSet(res, recs) ==
    [k \in DOMAIN res |->
        IF res[k].origin = "empty" /\ Answers(recs, k) # {}
        THEN [res[k] EXCEPT !.value = Deepest(recs, k).value, !.origin = "store"]
        ELSE res[k]]

EvalStore(res, recs) ==
    [k \in DOMAIN res |->
        IF res[k].origin = "empty" /\ Answers(recs, k) # {}
        THEN [res[k] EXCEPT !.set = Deepest(recs, k).set,
                            !.value = Deepest(recs, k).value,
                            !.origin = "store"]
        ELSE res[k]]

Overridden(c, k) == IF k \in DOMAIN c.override THEN c.override[k] ELSE Empty

(* Mutant: lazy keys are left to the store. *)
EvalOverrideForgetsLazy(res, c) ==
    [k \in DOMAIN res |->
        IF k \in DOMAIN c.override
        THEN [res[k] EXCEPT !.value = Overridden(c, k), !.origin = "override"]
        ELSE res[k]]

EvalOverride(res, c) ==
    [k \in DOMAIN res |->
        IF k \in DOMAIN c.override \/ res[k].cfgu.lazy
        THEN [res[k] EXCEPT !.value = Overridden(c, k), !.origin = "override"]
        ELSE res[k]]

(* `cfgu.default && isEmpty`: a default of false or 0 does not count. *)
EvalDefault(res) ==
    [k \in DOMAIN res |->
        IF res[k].origin = "empty" /\ res[k].cfgu.default \notin Falsy \cup {Empty}
        THEN [res[k] EXCEPT !.value = res[k].cfgu.default, !.origin = "default"]
        ELSE res[k]]

(* Mutant: any value of the current command beats the piped one. *)
PipeWinsOverEmptyOnly(current, piped) ==
    piped.origin # "empty" /\ current.origin = "empty"

(* Mutant: whatever the pipe has is taken. *)
PipeAlwaysWins(current, piped) == piped.origin # "empty"

(* The customizer given to assignWith for a key both sides have. *)
PipeWins(current, piped) ==
    /\ piped.origin # "empty"
    /\ \/ current.origin = "empty"
       \/ current.origin = "default" /\ piped.origin # "default"

EvalPipe(res, piped) ==
    [k \in DOMAIN res \cup DOMAIN piped |->
        IF k \notin DOMAIN res THEN piped[k]
        ELSE IF k \notin DOMAIN piped THEN res[k]
        ELSE IF PipeWins(res[k], piped[k]) THEN piped[k] ELSE res[k]]

ConstReset(res) ==
    [k \in DOMAIN res |->
        IF IsConst(res[k].cfgu)
        THEN [res[k] EXCEPT !.value = Empty, !.origin = "const"]
        ELSE res[k]]

(* Everything between the answer of store.get and the const expressions. *)
Merged(c, recs, piped) ==
    ConstReset(EvalPipe(EvalDefault(EvalOverride(EvalStore(EvalEmpty(c), recs), c)), piped))

Consts(res) == {k \in DOMAIN res : IsConst(res[k].cfgu)}

(* ConfigExpression.sort: the references it collects are the free          *)
(* identifiers of the template, `$` and the globals, never a config key,   *)
(* so the sorted order is the order of the result: the keys of the schema  *)
(* as declared, then those that only the pipe brought.                     *)
Precedes(j, k, schema) ==
    \/ j \in DOMAIN schema /\ k \notin DOMAIN schema
    \/ (j \in DOMAIN schema <=> k \in DOMAIN schema) /\ Position[j] <= Position[k]

(* What a const expression renders to; $.configs.K of an unknown K throws. *)
Renders(const, res) == const \in Key => const \in DOMAIN res

(* Mutant: the expression context is built from the piped configs. *)
RenderedFromPipe(const, res) ==
    IF const \in DOMAIN pipe THEN pipe[const].value
    ELSE IF const \in Key THEN res[const].value ELSE const

Rendered(const, res) == IF const \in Key THEN res[const].value ELSE const

Meets(cfgu, k, res) ==
    /\ cfgu.required => res[k].origin # "empty"
    /\ Passes(cfgu, res[k].value, ValuesOf(res))

Valid(res) == \A k \in DOMAIN res : Meets(res[k].cfgu, k, res)

(* ExportCommand: hidden keys are dropped, the rest is mapped to values. *)
Export(out) ==
    [k \in {j \in DOMAIN out : ~out[j].cfgu.hidden} |-> out[k].value]

-----------------------------------------------------------------------------

Init ==
    /\ store \in [Sets -> [Key -> Content]]
    /\ phase = "idle"
    /\ cmd = CHOOSE c \in Command : TRUE
    /\ unread = {} /\ records = {} /\ todo = {}
    /\ result = NoOutput /\ pipe = NoOutput /\ exported = NoOutput
    /\ evals = 0 /\ writes = 0 /\ faults = 0
    /\ torn = FALSE

(* new EvalCommand(...).run(): store.init, then the queries are sent. *)
Begin ==
    /\ phase = "idle"
    /\ evals < MaxEvals
    /\ \E c \in Command :
        /\ cmd' = c
        /\ unread' = QueriedSets(c.path, c.depth)
    /\ phase' = "read"
    /\ records' = {}
    /\ torn' = FALSE
    /\ evals' = evals + 1
    /\ UNCHANGED <<store, result, todo, pipe, exported, writes, faults>>

(* Mutant: without .filter('value'). *)
ReadSetUnfiltered(s) ==
    /\ phase = "read"
    /\ s \in unread
    /\ unread' = unread \ {s}
    /\ records' = records \cup
          {[set |-> s, key |-> k, value |-> store[s][k]] : k \in DOMAIN cmd.schema}
    /\ UNCHANGED <<store, phase, cmd, result, todo, pipe, exported, counters, torn>>

(* The backend answers for every queried key of set s; only non-empty      *)
(* values are returned.                                                    *)
ReadSet(s) ==
    /\ phase = "read"
    /\ s \in unread
    /\ unread' = unread \ {s}
    /\ records' = records \cup
          {[set |-> s, key |-> k, value |-> store[s][k]] :
              k \in {j \in DOMAIN cmd.schema : store[s][j] # Empty}}
    /\ UNCHANGED <<store, phase, cmd, result, todo, pipe, exported, counters, torn>>

(* KeyValueConfigStore.get: a backend error reads as "no value". *)
ReadSwallowed(s) ==
    /\ phase = "read"
    /\ s \in unread
    /\ faults < MaxFaults
    /\ faults' = faults + 1
    /\ unread' = unread \ {s}
    /\ torn' = TRUE
    /\ UNCHANGED <<store, phase, cmd, records, result, todo, pipe, exported, evals, writes>>

(* Any other store: the error rejects store.get and with it the command. *)
ReadRejected ==
    /\ phase = "read"
    /\ unread # {}
    /\ faults < MaxFaults
    /\ faults' = faults + 1
    /\ phase' = "failed"
    /\ UNCHANGED <<store, cmd, unread, records, result, todo, pipe, exported, evals, writes, torn>>

(* evalStore's dictionary, evalOverride, evalDefault, evalPipe, and the    *)
(* first half of evalConst.                                                *)
Merge ==
    /\ phase = "read"
    /\ unread = {}
    /\ result' = Merged(cmd, records, pipe)
    /\ todo' = Consts(result')
    /\ phase' = "const"
    /\ UNCHANGED <<store, cmd, unread, records, pipe, exported, counters, torn>>

EvalConst ==
    /\ phase = "const"
    /\ \E k \in todo :
        /\ \A j \in todo : Precedes(k, j, cmd.schema)
        /\ LET const == result[k].cfgu.const
           IN  \/ /\ Renders(const, result)
                  /\ result' = [result EXCEPT ![k].value = Rendered(const, result)]
                  /\ todo' = todo \ {k}
                  /\ UNCHANGED phase
               \/ /\ ~Renders(const, result)
                  /\ phase' = "failed"
                  /\ UNCHANGED <<result, todo>>
    /\ UNCHANGED <<store, cmd, unread, records, pipe, exported, counters, torn>>

(* validateResult, and the output becomes the pipe of the next command. *)
ValidateResult ==
    /\ phase = "const"
    /\ todo = {}
    /\ \/ /\ cmd.validate => Valid(result)
          /\ phase' = "idle"
          /\ pipe' = result
       \/ /\ cmd.validate /\ ~Valid(result)
          /\ phase' = "failed"
          /\ UNCHANGED pipe
    /\ UNCHANGED <<store, cmd, unread, records, result, todo, exported, counters, torn>>

RunExport ==
    /\ phase = "idle"
    /\ evals > 0
    /\ exported' = Export(pipe)
    /\ phase' = "exported"
    /\ UNCHANGED <<store, cmd, unread, records, result, todo, pipe, counters, torn>>

(* Another program stores or deletes one config.  The pipeline looks at    *)
(* the store only while a get is in flight, so only then does it matter.   *)
ExternalWrite ==
    /\ phase = "read"
    /\ writes < MaxWrites
    /\ \E s \in Sets, k \in Key, v \in Content :
        /\ store[s][k] # v
        /\ store' = [store EXCEPT ![s][k] = v]
        /\ torn' = (torn \/ s \notin unread)
    /\ writes' = writes + 1
    /\ UNCHANGED <<phase, cmd, unread, records, result, todo, pipe, exported, evals, faults>>

Next ==
    \/ Begin
    \/ \E s \in Sets : ReadSet(s) \/ ReadSwallowed(s)
    \/ ReadRejected
    \/ Merge
    \/ EvalConst
    \/ ValidateResult
    \/ RunExport
    \/ ExternalWrite

Spec == Init /\ [][Next]_vars

-----------------------------------------------------------------------------

(* Type correctness of every variable. *)
TypeOK ==
    /\ store \in [Sets -> [Key -> Content]]
    /\ phase \in Phase
    /\ cmd \in Command
    /\ unread \subseteq QueriedSets(cmd.path, cmd.depth)
    /\ records \subseteq [set : Sets, key : Key, value : Value]
    /\ IsOutput(result) /\ IsOutput(pipe)
    /\ todo \subseteq DOMAIN result
    /\ DOMAIN exported \subseteq Key
    /\ \A k \in DOMAIN exported : exported[k] \in Content
    /\ evals \in 0..MaxEvals /\ writes \in 0..MaxWrites /\ faults \in 0..MaxFaults
    /\ torn \in BOOLEAN

(* Keys of the command's schema that take their value from the store. *)
PlainKeys ==
    {k \in DOMAIN cmd.schema :
        ~cmd.schema[k].lazy /\ ~IsConst(cmd.schema[k]) /\ k \notin DOMAIN cmd.override}

(* Inheritance (concepts.mdx: "traversing the hierarchy from the supplied  *)
(* path's last node up to the root set"): unless the store changed under   *)
(* the read or a read failed, a plain key that some queried set stores     *)
(* evaluates to the value of the deepest such set, whatever the pipe, the  *)
(* defaults and the order of the answers.                                  *)
DeepestSetWins ==
    [][phase = "read" /\ phase' = "const" /\ ~torn =>
        \A k \in PlainKeys :
            LET holders == {s \in QueriedSets(cmd.path, cmd.depth) : store[s][k] # Empty}
            IN  holders # {} =>
                    /\ result'[k].origin = "store"
                    /\ result'[k].set \in holders
                    /\ \A s \in holders : Len(s) <= Len(result'[k].set)
                    /\ result'[k].value = store[result'[k].set][k]]_vars

(* A value of origin store was at that set when that set was read: an      *)
(* interleaved write can make two values belong to different moments, but  *)
(* the command never invents, mixes up or moves one.                       *)
StoreValuesWereRead ==
    [][phase = "read" /\ phase' = "const" =>
        \A k \in DOMAIN cmd.schema :
            result'[k].origin = "store" =>
                \/ [set |-> result'[k].set, key |-> k, value |-> result'[k].value] \in records
                \/ k \in DOMAIN pipe /\ result'[k] = pipe[k]]_vars

Rank(origin) ==
    CASE origin = "empty" -> 0 [] origin = "default" -> 1 [] OTHER -> 2

(* The command orders k to be empty: it is lazy, or overridden by nothing. *)
Cleared(k) ==
    /\ k \in DOMAIN cmd.schema
    /\ k \in DOMAIN cmd.override \/ cmd.schema[k].lazy
    /\ Overridden(cmd, k) = Empty

(* Along a pipeline no key is lost and a configured value is not replaced  *)
(* by a default.  A value becomes empty only where the last command clears *)
(* it, or as a const expression that renders to nothing (evalPipe).        *)
PipeNeverDowngraded ==
    [][\A k \in DOMAIN pipe :
        /\ k \in DOMAIN pipe' /\ Rank(pipe'[k].origin) >= Rank(pipe[k].origin)
        /\ pipe[k].value # Empty /\ pipe'[k].value = Empty =>
              IsConst(pipe'[k].cfgu) \/ Cleared(k)]_pipe

(* A lazy key gets its value from the override of this very command and    *)
(* from nowhere else: not the store, not the pipe (evalOverride).          *)
LazyOnlyFromOverride ==
    phase = "const" =>
        \A k \in DOMAIN cmd.schema :
            cmd.schema[k].lazy =>
                result[k].origin = "override" /\ result[k].value = Overridden(cmd, k)

(* The command has no value for k itself, but perhaps a default that one   *)
(* configured by an earlier command replaces.                              *)
LeftToPipe(k) ==
    /\ k \in DOMAIN pipe /\ pipe[k].origin # "empty"
    /\ k \notin DOMAIN cmd.override /\ ~cmd.schema[k].lazy /\ Answers(records, k) = {}
    /\ pipe[k].origin = "default" => cmd.schema[k].default \in Falsy \cup {Empty}

(* The pipe brings Cfgus along with values, and validateResult judges by   *)
(* what the merge has left of both.  Still, what a validating command      *)
(* hands on meets its own schema, tests over piped keys included; only a   *)
(* key that the command has no value for is judged by the schema of an     *)
(* earlier one (evalPipe, validateResult).                                 *)
OwnSchemaRules ==
    [][phase = "const" /\ phase' = "idle" /\ cmd.validate =>
        \A k \in DOMAIN cmd.schema :
            \/ Meets(cmd.schema[k], k, pipe')
            \/ LeftToPipe(k) /\ Meets(pipe[k].cfgu, k, pipe')]_vars

(* A const that reads a key that is not const, or a const evaluated before *)
(* it, has the value that key finally has: no stage runs after evalConst   *)
(* that could change it.                                                   *)
ConstAgrees ==
    phase = "exported" =>
        \A k \in DOMAIN cmd.schema \cap DOMAIN pipe :
            LET const == pipe[k].cfgu.const
            IN  /\ IsConst(pipe[k].cfgu)
                /\ const \in Key
                /\ \/ ~IsConst(pipe[const].cfgu)
                   \/ const \in DOMAIN cmd.schema /\ Position[const] < Position[k]
                => pipe[k].value = pipe[const].value

-----------------------------------------------------------------------------
(* What the documentation says and the code does not do.                   *)

(* ConfigExpression.sort orders const expressions by their references and  *)
(* rejects cycles, so that a const sees the final value of what it reads.  *)
ConstSeesFinalValues ==
    phase = "exported" =>
        \A k \in DOMAIN cmd.schema :
            LET const == pipe[k].cfgu.const
            IN  IsConst(pipe[k].cfgu) /\ const \in Key => pipe[k].value = pipe[const].value

=============================================================================
