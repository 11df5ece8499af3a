------------------------------ MODULE Pipeline ------------------------------
(***************************************************************************)
(* Shell pipelines `configu eval | configu eval | configu export` (cli     *)
(* base.ts, index.ts, eval.ts, export.ts): processes that all start at     *)
(* once, each of which waits for the end of the one before it and takes    *)
(* its output for the pipe.  A stage that fails prints a character no      *)
(* later stage can parse; one that is killed prints nothing.  Before it    *)
(* prints, a stage backs its result up into a database that all pipelines  *)
(* share (ConfiguInterface.backupEvalOutput, an UpsertCommand).  What an   *)
(* eval reads and how it merges are the subject of EvalCommand; here an    *)
(* eval is one step.  The export filters and renames what it is piped and  *)
(* prints it, runs a program with it, or writes it to a file.              *)
(***************************************************************************)
EXTENDS Naturals, Sequences

CONSTANTS
    Shell,       \* pipelines
    Evals,       \* Evals[s]: the evals of pipeline s, an export follows
    Options,     \* Options[s]: the flags its export may be given
    Set, Key, Value, Empty,
    Name,        \* names of exported configs
    NoName,      \* one that is not a ConfigKey
    Environment, \* environment variables of the processes
    NoOption,
    Old,         \* what the --out file holds at first
    Report,      \* what --explain prints
    Silence,     \* nothing was printed
    Nul,         \* what a failed stage prints
    Torn,        \* part of an output
    MaxWrites, MaxFaults, MaxKills

Query == Set \X Key

Entry == [value : Value \cup {Empty}, origin : {"store", "default", "empty"},
          hidden : BOOLEAN]

(* EvalCommandOutput: partial functions from keys to entries. *)
Output == UNION {[K -> Entry] : K \in SUBSET Key}

Nothing == [k \in {} |-> Empty]

(* The stages of all pipelines; the last one of each is the export. *)
Stages == UNION {{<<s, i>> : i \in 1..(Len(Evals[s]) + 1)} : s \in Shell}

Exports == {p \in Stages : p[2] = Len(Evals[p[1]]) + 1}

Command(p) == Evals[p[1]][p[2]]

(* An eval: its set, the keys of its schema, those with a default, those   *)
(* that are required, those that are hidden, and whether --store names a   *)
(* store with a backup.                                                    *)
IsEval(e) ==
    /\ DOMAIN e = {"set", "keys", "defaults", "required", "hidden", "backup"}
    /\ e.set \in Set
    /\ e.keys \in SUBSET Key /\ e.keys # {}
    /\ [k \in e.keys |-> e.defaults[k]] = e.defaults
    /\ \A k \in e.keys : e.defaults[k] \in Value \cup {Empty}
    /\ e.required \subseteq {k \in e.keys : e.defaults[k] = Empty}
    /\ e.hidden \subseteq e.keys
    /\ e.backup \in BOOLEAN

(* The flags of an export: --explain, --run, --out or none of them; which  *)
(* keys --filter picks, and the configs its expression reads; the name     *)
(* --prefix, --suffix and --casing make of a key.                          *)
Option ==
    [mode : {"explain", "run", "print", "out"}, picks : SUBSET Key, reads : SUBSET Key,
     name : [Key -> Name \cup {NoName}]]

ASSUME PipelineAssumption ==
    /\ Empty \notin Value
    /\ {Silence, Nul, Torn, Report, Old} \cap Output = {} /\ Silence \notin {Nul, Torn}
    /\ NoName \notin Name /\ NoOption \notin Option
    /\ DOMAIN Evals = Shell /\ Options \in [Shell -> SUBSET Option]
    /\ \A s \in Shell :
          /\ Len(Evals[s]) \in Nat \ {0} /\ DOMAIN Evals[s] = 1..Len(Evals[s])
          /\ \A i \in DOMAIN Evals[s] : IsEval(Evals[s][i])
    /\ {MaxWrites, MaxFaults, MaxKills} \subseteq Nat

VARIABLES
    store,      \* the store the evals read
    backup,     \* the backup database
    pc,         \* pc[p]: where the process of stage p is
    pipe,       \* pipe[p]: what it read from its predecessor
    own,        \* own[p]: what the store and the defaults gave it
    result,     \* result[p]: its EvalCommandOutput; of an export, what it exports
    before,     \* before[p]: what its backup read
    stdout,     \* stdout[p]: what it has printed, or handed to the program it runs
    option,     \* option[p]: the flags of an export
    file,       \* the file --out names
    writes, faults, kills,
    stored,     \* history: all the store has ever held
    disturbed,  \* disturbed[p]: history: keys of p's backup that others wrote since p read them
    spoilt      \* history: the writing of the file was cut short, or done by two at once

exporting == <<option, file, spoilt>>

vars == <<store, backup, pc, pipe, own, result, before, stdout, writes, faults, kills,
          stored, disturbed, exporting>>

counters == <<writes, faults, kills>>

Over(p) == pc[p] \in {"done", "failed", "killed"}

Goto(p, place) == pc' = [pc EXCEPT ![p] = place]

-----------------------------------------------------------------------------

(* EvalCommand: the store, then the default. *)
Own(e) ==
    [k \in e.keys |->
        LET stands == store[<<e.set, k>>]
            filled == IF stands # Empty THEN stands ELSE e.defaults[k]
        IN  [value |-> filled,
             origin |-> IF stands # Empty THEN "store" ELSE IF filled # Empty THEN "default" ELSE "empty",
             hidden |-> k \in e.hidden]]

(* evalPipe: which of two entries of a key is kept. *)
PipeWins(current, piped) ==
    \/ current.origin = "empty" /\ piped.origin # "empty"
    \/ current.origin = "default" /\ piped.origin = "store"

(* Mutant: the value of the pipe, the Cfgu of the command. *)
MergedValues(res, piped) ==
    [k \in DOMAIN res \cup DOMAIN piped |->
        IF k \notin DOMAIN piped THEN res[k]
        ELSE IF k \notin DOMAIN res THEN piped[k]
        ELSE IF PipeWins(res[k], piped[k]) THEN [piped[k] EXCEPT !.hidden = res[k].hidden]
        ELSE res[k]]

Merged(res, piped) ==
    [k \in DOMAIN res \cup DOMAIN piped |->
        IF k \in DOMAIN res /\ (k \in DOMAIN piped => ~PipeWins(res[k], piped[k]))
        THEN res[k] ELSE piped[k]]

Valid(e, res) == \A k \in e.required : res[k].origin # "empty"

(* Mutant: whatever has a value is backed up, defaults included. *)
AnyValue(res) == {k \in DOMAIN res : res[k].value # Empty}

(* The entries the backup is given. *)
BackedUp(res) == {k \in DOMAIN res : res[k].origin = "store"}

(* UpsertCommand.validateNextConfigs: "Key is not declared". *)
Declared(p) == BackedUp(result[p]) \subseteq Command(p).keys

(* UpsertCommand.getPrevConfigs *)
Previous(p) == [k \in Command(p).keys |-> backup[<<Command(p).set, k>>]]

(* Mutant: the first backup of a config is kept. *)
Missing(p) == {k \in BackedUp(result[p]) : before[p][k] = Empty}

Differing(p) == {k \in BackedUp(result[p]) : before[p][k] # result[p][k].value}

-----------------------------------------------------------------------------
(* The export. *)

Visible(piped) == {k \in DOMAIN piped : ~piped[k].hidden}

(* filterConfigs: the expression is not evaluated for a hidden config, and *)
(* it throws when a config it reads was not piped.                         *)
FilterThrows(x, piped) == Visible(piped) # {} /\ ~(x.reads \subseteq DOMAIN piped)

Picked(x, piped) == Visible(piped) \cap x.picks

(* mapConfigs: ConfigKey.validate *)
MapThrows(x, piped) == \E k \in Picked(x, piped) : x.name[k] = NoName

Exported(x, K) == {x.name[k] : k \in K}

(* keyBy('key'): of the configs whose keys became the same name the last   *)
(* one is left; the order of the pipe is not modelled.                     *)
Texts(x, piped) ==
    LET K == Picked(x, piped)
    IN  {text \in [Exported(x, K) -> {piped[k].value : k \in K}] :
            \A n \in DOMAIN text : \E k \in K : x.name[k] = n /\ text[n] = piped[k].value}

(* injectConfigs: { ...env, ...process.env } *)
ChildEnvironment(text) ==
    [n \in DOMAIN text \cup DOMAIN Environment |->
        IF n \in DOMAIN Environment THEN Environment[n] ELSE text[n]]

-----------------------------------------------------------------------------

Init ==
    /\ store \in [Query -> Value \cup {Empty}]
    /\ backup = [q \in Query |-> Empty]
    /\ pc = [p \in Stages |-> "waiting"]
    /\ pipe = [p \in Stages |-> Nothing]
    /\ own = [p \in Stages |-> Nothing]
    /\ result = [p \in Stages |-> Nothing]
    /\ before = [p \in Stages |-> Nothing]
    /\ stdout = [p \in Stages |-> Silence]
    /\ writes = 0 /\ faults = 0 /\ kills = 0
    /\ stored = {<<q[2], store[q]>> : q \in Query}
    /\ disturbed = [p \in Stages |-> {}]
    /\ option = [p \in Exports |-> NoOption] /\ file = Old /\ spoilt = FALSE

(* cli.error: the character is printed in place of an output. *)
Fail(p) ==
    /\ Goto(p, "failed")
    /\ stdout' = [stdout EXCEPT ![p] = Nul]

(* Standard input ends when the process before has ended. *)
InputOf(p) == IF p[2] = 1 THEN Silence ELSE stdout[<<p[1], p[2] - 1>>]

(* Mutant: a command waits for input that says something. *)
InputSaysSomething(p) == p[2] > 1 => Over(<<p[1], p[2] - 1>>) /\ InputOf(p) # Silence

InputEnds(p) == p[2] > 1 => Over(<<p[1], p[2] - 1>>)

(* Mutant: input that does not parse counts as none. *)
Lenient(text) == {IF text \in {Silence, Nul, Torn} THEN Nothing ELSE text}

(* What a text means: no pipe, a pipe, or an error. *)
Parsed(text) ==
    IF text = Silence THEN {Nothing} ELSE IF text \in {Nul, Torn} THEN {} ELSE {text}

(* readPreviousEvalCommandOutput *)
ReadPrevious(p) ==
    /\ pc[p] = "waiting"
    /\ InputEnds(p)
    /\ \/ /\ Parsed(InputOf(p)) = {}
          /\ Fail(p)
          /\ UNCHANGED pipe
       \/ /\ \E output \in Parsed(InputOf(p)) : pipe' = [pipe EXCEPT ![p] = output]
          /\ Goto(p, "piped")
          /\ UNCHANGED stdout
    /\ UNCHANGED <<store, backup, own, result, before, counters, stored, disturbed, exporting>>

(* EvalCommand.run and, without a backup, no more than that. *)
Evaluate(p) ==
    /\ p \notin Exports
    /\ pc[p] = "piped"
    /\ LET e == Command(p)
           res == Merged(Own(e), pipe[p])
       IN  /\ own' = [own EXCEPT ![p] = Own(e)]
           /\ IF Valid(e, res)
              THEN /\ result' = [result EXCEPT ![p] = res]
                   /\ Goto(p, IF e.backup THEN "evaluated" ELSE "printing")
                   /\ UNCHANGED stdout
              ELSE Fail(p) /\ UNCHANGED result
    /\ UNCHANGED <<store, backup, pipe, before, counters, stored, disturbed, exporting>>

(* backupEvalOutput: the UpsertCommand validates and reads. *)
ReadBackup(p) ==
    /\ pc[p] = "evaluated"
    /\ IF Declared(p)
       THEN /\ before' = [before EXCEPT ![p] = Previous(p)]
            /\ Goto(p, "backingUp")
            /\ UNCHANGED stdout
       ELSE Fail(p) /\ UNCHANGED before
    /\ UNCHANGED <<store, backup, pipe, own, result, counters, stored, disturbed, exporting>>

(* It upserts what differs, in one statement as nothing is deleted. *)
WriteBackup(p) ==
    /\ pc[p] = "backingUp"
    /\ LET e == Command(p)
           K == Differing(p)
       IN  /\ backup' = [q \in Query |-> IF q \in {e.set} \X K THEN result[p][q[2]].value ELSE backup[q]]
           /\ disturbed' = [r \in Stages |->
                 IF r \in Exports \/ r = p \/ Command(r).set # e.set THEN disturbed[r]
                 ELSE disturbed[r] \cup (K \cap DOMAIN before[r])]
    /\ Goto(p, "printing")
    /\ UNCHANGED <<store, pipe, own, result, before, stdout, counters, stored, exporting>>

(* The store or the backup cannot be read or written. *)
RequestFails(p) ==
    /\ p \notin Exports
    /\ pc[p] \in {"piped", "evaluated", "backingUp"}
    /\ faults < MaxFaults
    /\ faults' = faults + 1
    /\ Fail(p)
    /\ UNCHANGED <<store, backup, pipe, own, result, before, writes, kills, stored, disturbed, exporting>>

PrintResult(p) ==
    /\ pc[p] = "printing"
    /\ stdout' = [stdout EXCEPT ![p] = result[p]]
    /\ Goto(p, "done")
    /\ UNCHANGED <<store, backup, pipe, own, result, before, counters, stored, disturbed, exporting>>

(* Mutant: the file is created before there is something to write. *)
ExportIntoFile(p) ==
    /\ p \in Exports
    /\ pc[p] = "piped"
    /\ \E x \in Options[p[1]] :
        /\ option' = [option EXCEPT ![p] = x]
        /\ file' = IF x.mode = "out" THEN Torn ELSE file
        /\ IF FilterThrows(x, pipe[p]) \/ MapThrows(x, pipe[p])
           THEN Fail(p) /\ UNCHANGED result
           ELSE \E text \in Texts(x, pipe[p]) :
                   /\ result' = [result EXCEPT ![p] = text]
                   /\ Goto(p, IF x.mode = "out" THEN "opening" ELSE "done")
                   /\ UNCHANGED stdout
    /\ UNCHANGED <<store, backup, pipe, own, before, counters, stored, disturbed, spoilt>>

(* execute: without a pipe it only warns, and --explain reports on all of  *)
(* the pipe.                                                               *)
Export(p) ==
    /\ p \in Exports
    /\ pc[p] = "piped"
    /\ \E x \in Options[p[1]] :
        /\ option' = [option EXCEPT ![p] = x]
        /\ \/ /\ pipe[p] = Nothing \/ x.mode = "explain"
              /\ stdout' = [stdout EXCEPT ![p] = IF pipe[p] = Nothing THEN Silence ELSE Report]
              /\ Goto(p, "done")
              /\ UNCHANGED result
           \/ /\ pipe[p] # Nothing /\ x.mode # "explain"
              /\ FilterThrows(x, pipe[p]) \/ MapThrows(x, pipe[p])
              /\ Fail(p)
              /\ UNCHANGED result
           \/ /\ pipe[p] # Nothing /\ x.mode # "explain"
              /\ ~FilterThrows(x, pipe[p]) /\ ~MapThrows(x, pipe[p])
              /\ \E text \in Texts(x, pipe[p]) :
                    /\ result' = [result EXCEPT ![p] = text]
                    /\ stdout' = [stdout EXCEPT ![p] =
                          CASE x.mode = "print" -> text
                            [] x.mode = "run" -> ChildEnvironment(text)
                            [] x.mode = "out" -> Silence]
              /\ Goto(p, IF x.mode = "out" THEN "opening" ELSE "done")
    /\ UNCHANGED <<store, backup, pipe, own, before, counters, stored, disturbed, file, spoilt>>

(* fs.writeFile truncates the file and then writes, at its own position:   *)
(* what another process wrote in between may stand out behind.             *)
OpenOut(p) ==
    /\ pc[p] = "opening"
    /\ file' = Torn
    /\ spoilt' = \E q \in Exports : pc[q] = "writing"
    /\ Goto(p, "writing")
    /\ UNCHANGED <<store, backup, pipe, own, result, before, stdout, counters, stored, disturbed, option>>

WriteOut(p) ==
    /\ pc[p] = "writing"
    /\ file' \in {result[p]} \cup (IF file = Torn THEN {} ELSE {Torn})
    /\ Goto(p, "done")
    /\ UNCHANGED <<store, backup, pipe, own, result, before, stdout, counters, stored, disturbed,
                   option, spoilt>>

(* The directory cannot be made, the file not opened or not written. *)
OutFails(p) ==
    /\ pc[p] \in {"opening", "writing"}
    /\ faults < MaxFaults
    /\ faults' = faults + 1
    /\ Fail(p)
    /\ spoilt' = (spoilt \/ pc[p] = "writing")
    /\ UNCHANGED <<store, backup, pipe, own, result, before, writes, kills, stored, disturbed,
                   option, file>>

(* The process is killed, in the middle of its output perhaps. *)
Kill(p) ==
    /\ ~Over(p)
    /\ kills < MaxKills
    /\ kills' = kills + 1
    /\ Goto(p, "killed")
    /\ \E text \in {Silence} \cup (IF pc[p] = "printing" THEN {Torn} ELSE {}) :
          stdout' = [stdout EXCEPT ![p] = text]
    /\ spoilt' = (spoilt \/ pc[p] = "writing")
    /\ UNCHANGED <<store, backup, pipe, own, result, before, writes, faults, stored, disturbed,
                   option, file>>

(* Another program upserts into the store, while an eval has yet to read.  *)
ExternalWrite(q, v) ==
    /\ \E p \in Stages \ Exports : pc[p] \in {"waiting", "piped"}
    /\ writes < MaxWrites
    /\ store[q] # v
    /\ writes' = writes + 1
    /\ store' = [store EXCEPT ![q] = v]
    /\ stored' = stored \cup {<<q[2], v>>}
    /\ UNCHANGED <<backup, pc, pipe, own, result, before, stdout, faults, kills, disturbed, exporting>>

Step(p) ==
    \/ ReadPrevious(p) \/ Evaluate(p) \/ ReadBackup(p) \/ WriteBackup(p) \/ PrintResult(p)
    \/ Export(p) \/ OpenOut(p) \/ WriteOut(p)

Next ==
    \/ \E p \in Stages : Step(p) \/ RequestFails(p) \/ OutFails(p) \/ Kill(p)
    \/ \E q \in Query, v \in Value \cup {Empty} : ExternalWrite(q, v)

Spec == Init /\ [][Next]_vars

(* Every process is scheduled, and every request to a store or to the      *)
(* backup is answered or fails.                                            *)
FairSpec == Spec /\ \A p \in Stages : WF_vars(Step(p))

-----------------------------------------------------------------------------

(* index.ts: "skip running piped commands".  Once a stage has failed, the  *)
(* pipeline exports nothing, and what is exported comes of the keys of     *)
(* every eval since the last process that was killed.                      *)
FailureStopsPipeline ==
    \A p \in Exports :
        result[p] # Nothing =>
            \A i \in 1..(p[2] - 1) :
                \/ pc[<<p[1], i>>] = "done" /\ Evals[p[1]][i].keys \subseteq DOMAIN pipe[p]
                \/ \E j \in i..(p[2] - 1) : pc[<<p[1], j>>] = "killed"

(* .cfgu.mdx: hidden keys are "omitted from ExportCommand results".  Which *)
(* schema decides is that of the eval whose value it is: what is exported  *)
(* under a name is what an eval that does not hide the key found itself.   *)
HiddenStaysHidden ==
    \A p \in Exports :
        \A n \in DOMAIN result[p] :
            \E k \in Key, i \in 1..(p[2] - 1) :
                /\ option[p].name[k] = n
                /\ k \in Evals[p[1]][i].keys \ Evals[p[1]][i].hidden
                /\ k \in DOMAIN own[<<p[1], i>>]
                /\ own[<<p[1], i>>][k].value = result[p][n]

(* A pipeline that fails leaves the file of --out alone: unless it was cut *)
(* short in the write itself, or two pipelines wrote at once, the file is  *)
(* what it was or all that one export had to say.                          *)
OutFileIsWhole ==
    \/ spoilt
    \/ \E p \in Exports : pc[p] = "writing"
    \/ file = Old
    \/ \E p \in Exports : pc[p] = "done" /\ option[p].mode = "out" /\ file = result[p]

(* A stage that has printed its output has backed it up: each config it    *)
(* found in the store, unless another pipeline wrote that config's backup  *)
(* since this one looked at it.                                            *)
OutputIsBackedUp ==
    \A p \in Stages \ Exports :
        pc[p] = "done" /\ Command(p).backup =>
            \A k \in DOMAIN stdout[p] :
                stdout[p][k].origin = "store" =>
                    k \in disturbed[p] \/ backup[<<Command(p).set, k>>] = stdout[p][k].value

(* The backup holds nothing that was not in the store at some time for the *)
(* same key: no defaults, nothing made up of two pipelines.                *)
BackupWasStored == \A q \in Query : backup[q] # Empty => <<q[2], backup[q]>> \in stored

(* Every pipeline ends: no process waits for one that has failed, been     *)
(* killed or said nothing.                                                 *)
PipelinesEnd == \A p \in Exports : <>Over(p)

=============================================================================
