----------------------------- MODULE ConfiguFile -----------------------------
(***************************************************************************)
(* The local .configu file (common ConfiguFile.ts and ConfiguInterface.ts, *)
(* cli login.ts), shared by every process of a user.  Each command begins  *)
(* by loading it and unlinks it if it does not load; a login saves it      *)
(* minutes later, as what it loaded with the new credentials merged in.    *)
(***************************************************************************)
EXTENDS Naturals, FiniteSets

CONSTANTS
    Process,     \* processes of the user
    Store,       \* names of stores
    Platform,    \* "configu", the store a login writes
    Register,    \* the entry that lists modules to register
    Value,       \* contents of an entry
    Placeholder, \* contents that an environment variable has to complete
    Default,     \* stores marked default
    Undefined,   \* no value, no name
    ByType,      \* a store constructed from its type alone
    Env,         \* Env[p]: what the placeholder stands for in p's environment
    Credentials, \* what a login may obtain
    Original,    \* what the file may hold at first
    Input,       \* Input[p]: the .configu file of p's project, rendered
    Missing, Blank, Garbled,
    MaxRuns, MaxFaults, MaxCrashes

Entry == Store \cup {Register}

(* ConfiguFileContents: partial functions from entries to their contents. *)
Contents == UNION {[E -> Value] : E \in SUBSET Entry}

Nothing == [e \in {} |-> Undefined]

ASSUME ConfiguFileAssumption ==
    /\ Platform \in Store /\ Register \notin Store
    /\ Placeholder \in Value /\ Undefined \notin Value \cup Store
    /\ Credentials \subseteq Value \ {Placeholder} /\ Default \subseteq Value
    /\ Env \in [Process -> (Value \ {Placeholder}) \cup {Undefined}]
    /\ Original \subseteq Contents \cup {Missing} /\ Original # {}
    /\ Input \in [Process -> Contents]
    /\ {Missing, Blank, Garbled} \cap Contents = {} /\ Missing \notin {Blank, Garbled}
    /\ ByType \notin Value
    /\ MaxRuns \in Nat /\ MaxFaults \in Nat /\ MaxCrashes \in Nat

VARIABLES
    file,       \* what the path holds
    detached,   \* processes whose open file has been unlinked
    pc,         \* pc[p]: where p's command is
    local,      \* local[p]: context.configu.local
    saved,      \* saved[p]: the contents p saves
    reread,     \* reread[p]: the contents p has loaded after its save
    chosen,     \* chosen[p]: the store configuration p's command uses
    runs, faults, crashes,
    original,   \* history: the file as it was at first
    harmed,     \* history: some process failed to load the file
    granted,    \* history: the credentials obtained so far
    disturbed   \* history: saves during which somebody else touched the file

vars == <<file, detached, pc, local, saved, reread, chosen, runs, faults, crashes,
          original, harmed, granted, disturbed>>

-----------------------------------------------------------------------------

(* init renders the text with the environment of the process: an undefined *)
(* variable is an error, and so is a file that is empty or does not parse. *)
Loads(p, contents) ==
    /\ contents \in Contents
    /\ Placeholder \in {contents[e] : e \in DOMAIN contents} => Env[p] # Undefined

Rendered(p, contents) ==
    [e \in DOMAIN contents |-> IF contents[e] = Placeholder THEN Env[p] ELSE contents[e]]

(* Mutant: what was loaded wins. *)
LoadedFirst(old, new) ==
    [e \in DOMAIN old \cup DOMAIN new |-> IF e \in DOMAIN old THEN old[e] ELSE new[e]]

(* Mutant: only the new contents are written. *)
NewOnly(old, new) == new

(* save: the new contents over the loaded ones.  (_.merge goes on inside   *)
(* an entry; an entry with new credentials counts as those credentials.)   *)
Merge(old, new) ==
    [e \in DOMAIN old \cup DOMAIN new |-> IF e \in DOMAIN new THEN new[e] ELSE old[e]]

(* getDefaultStoreName: the only store, or the one marked default. *)
DefaultNames(contents) ==
    LET stores == DOMAIN contents \cap Store
    IN  IF Cardinality(stores) = 1 THEN stores ELSE {n \in stores : contents[n] \in Default}

(* getStoreInstance of one file, the name being optional. *)
Named(contents, name) ==
    IF name # Undefined
    THEN {contents[n] : n \in DOMAIN contents \cap {name} \cap Store}
    ELSE {contents[n] : n \in DefaultNames(contents)}

(* Mutant: with a project file the local one is not asked. *)
InputOnly(p, name) == IF Input[p] # Nothing THEN Named(Input[p], name) ELSE Named(local[p], name)

(* ConfiguInterface.getStoreInstance: the project's file first. *)
Configured(p, name) ==
    IF Named(Input[p], name) # {} THEN Named(Input[p], name) ELSE Named(local[p], name)

(* What the file may hold after a write: another process may have written  *)
(* since this one emptied it, and a mixture of two texts does not parse.   *)
Outcomes(contents) == {contents} \cup (IF file = Blank THEN {} ELSE {Garbled})

Writing == {p \in Process : pc[p] = "writing"}

(* Saves in progress, other than p's, when p touches the file. *)
Disturbs(p) == {q \in Process \ {p} : pc[q] \in {"writing", "written", "reloading"}}

Goto(p, stage) == pc' = [pc EXCEPT ![p] = stage]

-----------------------------------------------------------------------------

Init ==
    /\ file \in Original
    /\ original = file
    /\ detached = {}
    /\ pc = [p \in Process |-> "idle"]
    /\ local = [p \in Process |-> Nothing]
    /\ saved = [p \in Process |-> Nothing]
    /\ reread = [p \in Process |-> Nothing]
    /\ chosen = [p \in Process |-> Undefined]
    /\ runs = [p \in Process |-> 0]
    /\ faults = 0 /\ crashes = 0
    /\ harmed = FALSE
    /\ granted = {}
    /\ disturbed = {}

(* A command begins: ConfiguFile.load reads and renders the local file. *)
Load(p) ==
    /\ pc[p] = "idle"
    /\ runs[p] < MaxRuns
    /\ runs' = [runs EXCEPT ![p] = @ + 1]
    /\ IF Loads(p, file)
       THEN /\ local' = [local EXCEPT ![p] = Rendered(p, file)]
            /\ Goto(p, "registering")
            /\ UNCHANGED harmed
       ELSE /\ local' = [local EXCEPT ![p] = Nothing]
            /\ Goto(p, "broken")
            /\ harmed' = (harmed \/ file # Missing)
    /\ UNCHANGED <<file, detached, saved, reread, chosen, faults, crashes, original,
                   granted, disturbed>>

(* The modules listed under register are registered. *)
Registered(p) ==
    /\ pc[p] = "registering"
    /\ Goto(p, "running")
    /\ UNCHANGED <<file, detached, local, saved, reread, chosen, runs, faults, crashes,
                   original, harmed, granted, disturbed>>

(* One of them cannot be registered, so the file does not load. *)
RegisterFails(p) ==
    /\ pc[p] = "registering"
    /\ Register \in DOMAIN local[p]
    /\ faults < MaxFaults
    /\ faults' = faults + 1
    /\ local' = [local EXCEPT ![p] = Nothing]
    /\ harmed' = TRUE
    /\ Goto(p, "broken")
    /\ UNCHANGED <<file, detached, saved, reread, chosen, runs, crashes, original,
                   granted, disturbed>>

(* initConfig unlinks a file that failed to load, whatever it is by now;   *)
(* a process that has it open goes on writing to a file without a name.    *)
Unlink(p) ==
    /\ pc[p] = "broken"
    /\ file' = Missing
    /\ detached' = detached \cup Writing
    /\ disturbed' = disturbed \cup Disturbs(p)
    /\ Goto(p, "running")
    /\ UNCHANGED <<local, saved, reread, chosen, runs, faults, crashes, original, harmed, granted>>

Choose(p, name, config) ==
    /\ pc[p] = "running"
    /\ chosen[p] = Undefined
    /\ chosen' = [chosen EXCEPT ![p] = [name |-> name, config |-> config]]
    /\ UNCHANGED <<file, detached, pc, local, saved, reread, runs, faults, crashes, original,
                   harmed, granted, disturbed>>

(* getStoreInstance: the store of that name, or the default one. *)
UseStore(p, name) == \E config \in Configured(p, name) : Choose(p, name, config)

(* A name that neither file knows is taken for the type of a store. *)
UseType(p, name) ==
    /\ Configured(p, name) = {}
    /\ name # Undefined
    /\ Choose(p, name, ByType)

(* No name and no default: "store is missing". *)
StoreIsMissing(p) ==
    /\ pc[p] = "running"
    /\ chosen[p] = Undefined
    /\ Configured(p, Undefined) = {}
    /\ Goto(p, "failed")
    /\ UNCHANGED <<file, detached, local, saved, reread, chosen, runs, faults, crashes, original,
                   harmed, granted, disturbed>>

(* LoginCommand: the credentials are there and save opens the file. *)
Save(p, credentials) ==
    /\ pc[p] = "running"
    /\ chosen[p] = Undefined
    /\ saved' = [saved EXCEPT ![p] = Merge(local[p], [n \in {Platform} |-> credentials])]
    /\ granted' = granted \cup {credentials}
    /\ file' = Blank
    /\ detached' = detached \ {p}
    /\ disturbed' = (disturbed \ {p}) \cup Disturbs(p) \cup {q \in {p} : Disturbs(p) # {}}
    /\ Goto(p, "writing")
    /\ UNCHANGED <<local, reread, chosen, runs, faults, crashes, original, harmed>>

Write(p) ==
    /\ pc[p] = "writing"
    /\ IF p \in detached THEN UNCHANGED file ELSE file' \in Outcomes(saved[p])
    /\ disturbed' = disturbed \cup Disturbs(p)
    /\ Goto(p, "written")
    /\ UNCHANGED <<detached, local, saved, reread, chosen, runs, faults, crashes, original,
                   harmed, granted>>

(* Mutant: save does not load what it wrote. *)
ReloadNothing(p) ==
    /\ pc[p] = "written"
    /\ Goto(p, "reloading")
    /\ UNCHANGED <<file, detached, local, saved, reread, chosen, runs, faults, crashes, original,
                   harmed, granted, disturbed>>

(* save ends by loading the file, and fails if that fails: it is read, ... *)
Reload(p) ==
    /\ pc[p] = "written"
    /\ IF Loads(p, file)
       THEN /\ reread' = [reread EXCEPT ![p] = Rendered(p, file)]
            /\ Goto(p, "reloading")
       ELSE /\ Goto(p, "failed")
            /\ UNCHANGED reread
    /\ UNCHANGED <<file, detached, local, saved, chosen, runs, faults, crashes, original,
                   harmed, granted, disturbed>>

(* ... and its modules are registered, while others touch the file.        *)
Reloaded(p) ==
    /\ pc[p] = "reloading"
    /\ Goto(p, "loggedIn")
    /\ UNCHANGED <<file, detached, local, saved, reread, chosen, runs, faults, crashes, original,
                   harmed, granted, disturbed>>

ReloadFails(p) ==
    /\ pc[p] = "reloading"
    /\ Register \in DOMAIN reread[p]
    /\ faults < MaxFaults
    /\ faults' = faults + 1
    /\ Goto(p, "failed")
    /\ UNCHANGED <<file, detached, local, saved, reread, chosen, runs, crashes, original,
                   harmed, granted, disturbed>>

(* The process is gone, with what it held. *)
Gone(p) ==
    /\ Goto(p, "idle")
    /\ local' = [local EXCEPT ![p] = Nothing]
    /\ saved' = [saved EXCEPT ![p] = Nothing]
    /\ reread' = [reread EXCEPT ![p] = Nothing]
    /\ chosen' = [chosen EXCEPT ![p] = Undefined]
    /\ detached' = detached \ {p}
    /\ disturbed' = disturbed \ {p}
    /\ UNCHANGED <<file, runs, faults, original, harmed, granted>>

(* The command ends. *)
Exit(p) == pc[p] \in {"running", "loggedIn", "failed"} /\ Gone(p) /\ UNCHANGED crashes

(* The process is killed. *)
Crash(p) ==
    /\ pc[p] # "idle"
    /\ crashes < MaxCrashes
    /\ crashes' = crashes + 1
    /\ Gone(p)

Next ==
    \E p \in Process :
        \/ Load(p) \/ Registered(p) \/ RegisterFails(p) \/ Unlink(p)
        \/ \E name \in Store \cup {Undefined} : UseStore(p, name) \/ UseType(p, name)
        \/ StoreIsMissing(p)
        \/ \E credentials \in Credentials : Save(p, credentials)
        \/ Write(p) \/ Reload(p) \/ Reloaded(p) \/ ReloadFails(p)
        \/ Exit(p)
        \/ Crash(p)

Spec == Init /\ [][Next]_vars

-----------------------------------------------------------------------------

(* What an entry of the original file may look like later: save writes     *)
(* back what load has rendered.                                            *)
Forms(e) ==
    IF original[e] = Placeholder THEN {Placeholder} \cup {Env[p] : p \in Process} ELSE {original[e]}

(* Saves may overlap, overtake each other and die: as long as no command   *)
(* began while the file could not be loaded (half written, left by a crash,*)
(* an undefined variable, a module that cannot be registered), every entry *)
(* of the original file other than the credentials is in every file that   *)
(* can be read.                                                            *)
EntriesSurvive ==
    file \in Contents /\ original # Missing /\ ~harmed =>
        \A e \in DOMAIN original \ {Platform} : e \in DOMAIN file /\ file[e] \in Forms(e)

HasCredentials(contents) == Platform \in DOMAIN contents /\ contents[Platform] \in granted

(* When a login is reported to have succeeded, it has read credentials of  *)
(* some login back from the file, and the file still holds some, whatever  *)
(* other processes saved, unless one of them has touched it since the save *)
(* began and it cannot be read: unlinked, half written, a mixture.         *)
LoginIsStored ==
    [][\A p \in Process :
        pc[p] # "loggedIn" /\ pc'[p] = "loggedIn" =>
            /\ HasCredentials(reread[p])
            /\ IF file' \in Contents THEN HasCredentials(file') ELSE p \in disturbed]_vars

(* A login during whose save nobody else touched the file has changed      *)
(* nothing but the credentials, and succeeds unless the file lists a       *)
(* module that can then not be registered again.                           *)
LoginIsKept ==
    [][\A p \in Process \ disturbed :
        pc[p] \in {"written", "reloading"} /\ pc'[p] \in {"loggedIn", "failed"} =>
            /\ pc'[p] = "failed" => pc[p] = "reloading" /\ Register \in DOMAIN local[p]
            /\ file'[Platform] \in granted
            /\ file' = [e \in DOMAIN local[p] \cup {Platform} |->
                           IF e = Platform THEN file'[Platform] ELSE local[p][e]]]_vars

(* A name means the store of the project's file, or else the one of the    *)
(* local file, and is never mistaken for a type while the file loads.      *)
NamesResolve ==
    \A p \in Process : \A n \in Store :
        chosen[p] # Undefined /\ chosen[p].name = n =>
            IF n \in DOMAIN Input[p] THEN chosen[p].config = Input[p][n]
            ELSE original # Missing /\ ~harmed /\ n \in DOMAIN original \ {Platform} =>
                     chosen[p].config \in Forms(n)

=============================================================================
