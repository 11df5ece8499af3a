----------------------------- MODULE ModuleCache -----------------------------
(***************************************************************************)
(* ConfiguModule.registerRemote (common ConfiguModule.ts, Modules.ts): the *)
(* packages of stores and expressions are downloaded, rewritten, installed *)
(* and imported from directories below $CONFIGU_HOME/cache/packages, which *)
(* every task shares: those of other processes, and those one process runs *)
(* at once for the list under register.  There is no lock and no marker of *)
(* completeness: a directory that exists is tried, and when registering    *)
(* from it fails it is fetched again, whoever else may be using it.  The   *)
(* archives, of a whole repository each, are kept in the same cache, and   *)
(* one that exists is used as it is (preferOffline).                       *)
(***************************************************************************)
EXTENDS Naturals, Sequences

CONSTANTS
    Task,        \* calls of registerRemote from outside
    Package,     \* package uris
    Sdk,         \* @configu/sdk
    Deps,        \* Deps[u]: the workspace dependencies of u, in the order fetched
    Needs,       \* Needs[u]: u and what it depends on, directly or not
    Archive,     \* Archive[u]: the archive u is in, of its repository and version
    Wanted,      \* packages that tasks ask for
    Absent,      \* no directory
    MaxCalls,    \* calls in all
    MaxOutages,  \* failing downloads and installs
    MaxKills,
    MaxPurges

Elements(s) == {s[i] : i \in DOMAIN s}

(* A package directory: its package.json (absent, as downloaded or as      *)
(* rewritten), its other files, and its node_modules.                      *)
Directory == [json : {"absent", "raw", "prepared"}, complete : BOOLEAN, installed : BOOLEAN]

ASSUME ModuleCacheAssumption ==
    /\ Absent \notin Directory
    /\ Sdk \in Package /\ Wanted \subseteq Package
    /\ DOMAIN Archive = Package
    /\ Deps \in [Package -> Seq(Package)] /\ Deps[Sdk] = <<>>
    /\ Needs \in [Package -> SUBSET Package]
    /\ \A u \in Package :
          /\ Needs[u] = {u} \cup UNION {Needs[d] : d \in Elements(Deps[u])}
          /\ \A d \in Needs[u] : Needs[d] \subseteq Needs[u]
    /\ {MaxCalls, MaxOutages, MaxKills, MaxPurges} \subseteq Nat

VARIABLES
    dir,      \* dir[u]: the directory of u
    calls,    \* calls[t]: the nested calls of registerRemote, innermost first
    tar,      \* tar[a]: "none", "partial" or "whole"
    sole,     \* tasks that were the last to create the archive they write
    whole,    \* tasks whose extraction nobody has cleaned away since it began
    outcome,  \* outcome[t]: how t's last call ended
    begun, outages, kills, purges,
    quiet,    \* history: tasks that have been alone and without faults so far
    cached    \* history: tasks that found all they need in place when they began

cacheVars == <<dir, tar, sole, calls, whole, outcome, begun, outages, kills, purges, quiet, cached>>

Fresh == [json |-> "absent", complete |-> FALSE, installed |-> FALSE]

Stage == {"check", "try", "tryImport", "fetch", "open", "write", "clean", "extract",
          "extractRest", "load", "save", "deps", "final", "finalImport"}

Call(u, stage, todo) == [package |-> u, at |-> stage, todo |-> todo]

-----------------------------------------------------------------------------

Active == {t \in Task : calls[t] # <<>>}

At(t, stages) == calls[t] # <<>> /\ calls[t][1].at \in stages

Target(t) == calls[t][1].package

Moved(t, stage) == <<[calls[t][1] EXCEPT !.at = stage]>> \o Tail(calls[t])

Proceed(t, stage) == calls' = [calls EXCEPT ![t] = Moved(t, stage)] /\ UNCHANGED outcome

(* A call returns to the one it was nested in, or to the outside. *)
Return(t) ==
    /\ calls' = [calls EXCEPT ![t] = Tail(@)]
    /\ outcome' = IF Len(calls[t]) = 1 THEN [outcome EXCEPT ![t] = "registered"] ELSE outcome

Reject(t) ==
    /\ calls' = [calls EXCEPT ![t] = <<>>]
    /\ outcome' = [outcome EXCEPT ![t] = "failed"]

(* Mutant: the error of the cached package is final. *)
NoSecondTry(t) == Reject(t)

(* registerLocal throws: the first time the package is fetched again. *)
LocalFails(t) == IF At(t, {"try", "tryImport"}) THEN Proceed(t, "fetch") ELSE Reject(t)

(* registerLocal finds exports it accepts, and npm knows the protocol of   *)
(* every dependency.  The SDK is published with exports it does not accept.*)
Installable(u) ==
    /\ dir[u] # Absent
    /\ \/ dir[u].json = "prepared"
       \/ dir[u].json = "raw" /\ u # Sdk /\ Deps[u] = <<>>

(* An import needs the files of u and of everything it depends on. *)
Ready(u) == dir[u] # Absent /\ dir[u].complete /\ dir[u].installed

Importable(u) == \A d \in Needs[u] : Ready(d)

(* The archive of u ends before its end, or has a hole. *)
Truncated(u) == tar[Archive[u]] = "partial"

CacheInit ==
    /\ dir = [u \in Package |-> Absent]
    /\ tar = [a \in {Archive[u] : u \in Package} |-> "none"]
    /\ sole = {}
    /\ calls = [t \in Task |-> <<>>]
    /\ whole = {}
    /\ outcome = [t \in Task |-> "none"]
    /\ begun = 0
    /\ outages = 0 /\ kills = 0 /\ purges = 0
    /\ quiet = {} /\ cached = {}

bounds == <<begun, outages, kills, purges>>

archives == <<tar, sole>>

(* registerRemote is called, by constructStore or for the list of register.*)
RegisterRemote(t, u) ==
    /\ calls[t] = <<>>
    /\ begun < MaxCalls
    /\ begun' = begun + 1
    /\ calls' = [calls EXCEPT ![t] = <<Call(u, "check", <<>>)>>]
    /\ outcome' = [outcome EXCEPT ![t] = "none"]
    /\ quiet' = IF Active = {} THEN {t} ELSE {}
    /\ cached' = (cached \ {t})
                 \cup {s \in {t} : Importable(u) /\ \A d \in Needs[u] : Installable(d)}
    /\ UNCHANGED <<dir, archives, whole, outages, kills, purges>>

(* Mutant: what is in the cache is not looked at. *)
NeverExists(t) ==
    /\ At(t, {"check"})
    /\ Proceed(t, "fetch")
    /\ UNCHANGED <<dir, archives, whole, bounds, quiet, cached>>

(* pathExists *)
CheckExists(t) ==
    /\ At(t, {"check"})
    /\ Proceed(t, IF dir[Target(t)] = Absent THEN "fetch" ELSE "try")
    /\ UNCHANGED <<dir, archives, whole, bounds, quiet, cached>>

(* registerLocal up to installPackage; for the SDK that is all. *)
Install(t) ==
    /\ At(t, {"try", "final"})
    /\ LET u == Target(t)
       IN  IF ~Installable(u)
           THEN LocalFails(t) /\ UNCHANGED dir
           ELSE /\ dir' = [dir EXCEPT ![u].installed = TRUE]
                /\ IF u = Sdk THEN Return(t)
                   ELSE Proceed(t, IF At(t, {"try"}) THEN "tryImport" ELSE "finalImport")
    /\ UNCHANGED <<archives, whole, bounds, quiet, cached>>

(* registerFile *)
Import(t) ==
    /\ At(t, {"tryImport", "finalImport"})
    /\ IF Importable(Target(t)) THEN Return(t) ELSE LocalFails(t)
    /\ UNCHANGED <<dir, archives, whole, bounds, quiet, cached>>

(* mkdir of the package's directory, and downloadTemplate: an archive that *)
(* exists is not downloaded again.                                         *)
Download(t) ==
    /\ At(t, {"fetch"})
    /\ dir' = IF dir[Target(t)] = Absent THEN [dir EXCEPT ![Target(t)] = Fresh] ELSE dir
    /\ Proceed(t, IF tar[Archive[Target(t)]] = "none" THEN "open" ELSE "clean")
    /\ UNCHANGED <<archives, whole, bounds, quiet, cached>>

(* The server answers and the archive is created, or emptied; one that has *)
(* turned up meanwhile may be taken for the one wanted.                    *)
Receive(t) ==
    /\ At(t, {"open"})
    /\ LET a == Archive[Target(t)]
       IN  \/ /\ tar' = [tar EXCEPT ![a] = "partial"]
              /\ sole' = {s \in sole : calls[s] # <<>> /\ Archive[Target(s)] # a} \cup {t}
              /\ Proceed(t, "write")
           \/ tar[a] # "none" /\ Proceed(t, "clean") /\ UNCHANGED archives
    /\ UNCHANGED <<dir, whole, bounds, quiet, cached>>

(* The archive is there, unless another task has emptied it since (what is *)
(* written now lies behind a hole) or it has been purged.                  *)
Received(t) ==
    /\ At(t, {"write"})
    /\ tar' = IF t \in sole THEN [tar EXCEPT ![Archive[Target(t)]] = "whole"] ELSE tar
    /\ Proceed(t, "clean")
    /\ UNCHANGED <<dir, sole, whole, bounds, quiet, cached>>

(* forceClean: whatever the package's directory holds is removed. *)
Clean(t) ==
    /\ At(t, {"clean"})
    /\ IF tar[Archive[Target(t)]] = "none"
       THEN Reject(t) /\ UNCHANGED <<dir, whole>>
       ELSE /\ dir' = [dir EXCEPT ![Target(t)] = Fresh]
            /\ whole' = {s \in whole : calls[s] # <<>> /\ Target(s) # Target(t)} \cup {t}
            /\ Proceed(t, "extract")
    /\ UNCHANGED <<archives, bounds, quiet, cached>>

(* The archive is extracted, package.json before most other files; one     *)
(* that is truncated ends before package.json, ...                         *)
ExtractJson(t) ==
    /\ At(t, {"extract"})
    /\ \/ /\ \/ dir[Target(t)] = Absent \/ tar[Archive[Target(t)]] = "none"
             \/ Truncated(Target(t))
          /\ Reject(t) /\ UNCHANGED dir
       \/ /\ dir[Target(t)] # Absent /\ tar[Archive[Target(t)]] # "none"
          /\ Proceed(t, "extractRest")
          /\ dir' = [dir EXCEPT ![Target(t)].json = "raw"]
    /\ UNCHANGED <<archives, whole, bounds, quiet, cached>>

(* ... or after it, before or after the other files of the package.        *)
ExtractRest(t) ==
    /\ At(t, {"extractRest"})
    /\ LET filled == IF t \in whole THEN [dir EXCEPT ![Target(t)].complete = TRUE] ELSE dir
       IN  \/ dir[Target(t)] = Absent /\ Reject(t) /\ UNCHANGED dir
           \/ /\ dir[Target(t)] # Absent /\ Truncated(Target(t))
              /\ Reject(t) /\ dir' \in {dir, filled}
           \/ /\ dir[Target(t)] # Absent /\ (Truncated(Target(t)) => t \notin whole)
              /\ Proceed(t, "load") /\ dir' = filled
    /\ UNCHANGED <<archives, whole, bounds, quiet, cached>>

(* getPackageJson: what is read decides which dependencies are fetched. *)
LoadJson(t) ==
    /\ At(t, {"load"})
    /\ LET u == Target(t)
           todo == IF dir[u] # Absent /\ dir[u].json = "raw" THEN Deps[u] ELSE <<>>
       IN  IF dir[u] = Absent \/ dir[u].json = "absent" THEN Reject(t)
           ELSE /\ calls' = [calls EXCEPT ![t] = <<Call(u, "save", todo)>> \o Tail(@)]
                /\ UNCHANGED outcome
    /\ UNCHANGED <<dir, archives, whole, bounds, quiet, cached>>

(* localPackage.save(): dependencies are file: links, the SDK has exports. *)
SaveJson(t) ==
    /\ At(t, {"save"})
    /\ IF dir[Target(t)] = Absent THEN Reject(t) /\ UNCHANGED dir
       ELSE Proceed(t, "deps") /\ dir' = [dir EXCEPT ![Target(t)].json = "prepared"]
    /\ UNCHANGED <<archives, whole, bounds, quiet, cached>>

(* The dependencies are registered one after the other, then u itself. *)
NextDependency(t) ==
    /\ At(t, {"deps"})
    /\ LET call == calls[t][1]
       IN  IF call.todo = <<>> THEN Proceed(t, "final")
           ELSE /\ calls' = [calls EXCEPT ![t] =
                        <<Call(Head(call.todo), "check", <<>>), [call EXCEPT !.todo = Tail(@)]>>
                        \o Tail(calls[t])]
                /\ UNCHANGED outcome
    /\ UNCHANGED <<dir, archives, whole, bounds, quiet, cached>>

(* The repository or the registry cannot be reached, or not any longer: an *)
(* archive that exists, if only in part, is used.                          *)
NetworkFails(t) ==
    /\ outages < MaxOutages
    /\ outages' = outages + 1
    /\ \/ At(t, {"open"}) /\ tar[Archive[Target(t)]] = "none" /\ Reject(t)
       \/ At(t, {"open"}) /\ tar[Archive[Target(t)]] # "none" /\ Proceed(t, "clean")
       \/ At(t, {"write"}) /\ Proceed(t, "clean")
       \/ At(t, {"try", "final"}) /\ LocalFails(t)
    /\ quiet' = quiet \ {t}
    /\ UNCHANGED <<dir, archives, whole, begun, kills, purges, cached>>

(* The process of t is killed. *)
Kill(t) ==
    /\ calls[t] # <<>>
    /\ kills < MaxKills
    /\ kills' = kills + 1
    /\ calls' = [calls EXCEPT ![t] = <<>>]
    /\ UNCHANGED <<dir, archives, whole, outcome, begun, outages, purges, quiet, cached>>

(* configu purge removes the cache directory. *)
Purge ==
    /\ purges < MaxPurges
    /\ purges' = purges + 1
    /\ dir' = [u \in Package |-> Absent]
    /\ tar' = [a \in DOMAIN tar |-> "none"]
    /\ sole' = {}
    /\ whole' = {}
    /\ quiet' = quiet \ Active
    /\ UNCHANGED <<calls, outcome, begun, outages, kills, cached>>

CacheNext ==
    \/ \E t \in Task :
        \/ \E u \in Wanted : RegisterRemote(t, u)
        \/ CheckExists(t) \/ Install(t) \/ Import(t)
        \/ Download(t) \/ Receive(t) \/ Received(t) \/ Clean(t)
        \/ ExtractJson(t) \/ ExtractRest(t)
        \/ LoadJson(t) \/ SaveJson(t) \/ NextDependency(t)
        \/ NetworkFails(t)
        \/ Kill(t)
    \/ Purge

CacheSpec == CacheInit /\ [][CacheNext]_cacheVars

-----------------------------------------------------------------------------

(* A state of the cache that no task repairs: an SDK that was rewritten    *)
(* while another task had cleaned it away.  registerLocal never imports    *)
(* the SDK, so it never finds out, and every import of a store on top of   *)
(* it fails.                                                               *)
Wedged == dir[Sdk] # Absent /\ dir[Sdk].json = "prepared" /\ ~dir[Sdk].complete

(* The cache heals: whatever crashed, failed and raced before, a task that *)
(* nobody disturbs and whose network works registers its package, with two *)
(* exceptions that only a purge ends: the SDK is wedged, or an archive it  *)
(* needs was left truncated, and is not downloaded again.                  *)
AloneRegisters ==
    [][\A t \in quiet' :
        outcome[t] = "none" /\ outcome'[t] = "failed" => Wedged \/ Truncated(Target(t))]_cacheVars

(* What is in place is used: a task that finds all it needs, and that      *)
(* nobody disturbs, never removes or downloads anything.                   *)
CachedIsNotFetched ==
    \A t \in quiet \cap cached : ~At(t, Stage \ {"check", "try", "tryImport"})

=============================================================================
