# Configu in TLA+

TLA+ modules, TLC configurations and TLAPS proofs about the TypeScript packages
under `src/packages`: the SDK's three commands, the interface every store
implements and the four families of stores with logic of their own, down to the
adapters of the key-value backends, the editing session and the shell pipelines
of the command line, the proxy, the `.configu` file and the package cache. Paths below are relative to `src/packages` unless they start with `docs/`.

1. [The system](#1-the-system)
2. [The modules](#2-the-modules)
3. [What the runs check](#3-what-the-runs-check)
4. [What is proved](#4-what-is-proved)
5. [Where code and documentation part](#5-where-code-and-documentation-part)
6. [What is not modelled](#6-what-is-not-modelled)
7. [Plan](#7-plan)

## 1. The system

Configu keeps *configs*, triples of a set, a key and a value, in a *store*. A
*schema* declares keys, each with a `Cfgu` (type, default, const expression,
lazy, required, hidden, tests). A *set* is a path; it inherits from its
prefixes up to the root. `upsert` writes configs of one set, `eval` reads the
keys of one schema at one set, and `export` renders what a pipeline of evals
produced. Everything is asynchronous JavaScript: between two `await`s a program
runs alone in its process, but other processes share the stores, the `.configu`
file and the package cache, and the proxy serves many requests in one process.

| Component | State it keeps | Operations | What is hard about it | What makes it correct |
|---|---|---|---|---|
| `EvalCommand` (`sdk/src/commands/EvalCommand.ts`) | the result under construction; the output piped in | evalEmpty, evalStore, evalOverride, evalDefault, evalPipe, evalConst, validateResult | one read per set of the hierarchy, with writers in between; precedence among seven sources of a value; const expressions evaluated over a result that changes; validation that looks across keys | inheritance from the deepest set, values that really were stored, a pipe that is never downgraded, lazy keys never stored, an output that meets the command's own schema |
| `ExportCommand` (`sdk/src/commands/ExportCommand.ts`) and `configu export` (`cli/src/commands/export.ts`) | the file of `--out` | filter, map, reduce; report, run, print, write | it trusts the last eval's validation and the `Cfgu` that came with the pipe; exports share a file | hidden keys dropped, a file is written whole or left alone |
| `UpsertCommand` (`sdk/src/commands/UpsertCommand.ts`) | input, previous values | validate, read previous values, compute the difference, write it | an unguarded window between read and write; partial and late writes | only what was asked is written, the report is true, given configs beat piped ones |
| `ConfigStore` (`sdk/src/ConfigStore.ts`) | the configs | init, get, set | nothing promises atomicity | each write is some client's; a resolved set is applied whole |
| `KeyValueConfigStore` (`stores/key-value`) and nine backends | one entry per root config, one JSON document per other set | get, set over getByKey, upsert, delete | read-modify-write without a version; swallowed read errors; Promise.all; create-or-update in two requests; names that stay taken | it is a `ConfigStore` but for documents that changed in between; no value moves, siblings survive; an upsert writes one entry once |
| `FileConfigStore` (`stores/file`) and JSON, XML, INI, TOML, CSV | one file | init, get, set | truncate-then-write, check-then-create, no lock, crashes | a file that parses is what the last set stored; it is a `ConfigStore` when alone |
| `ORMConfigStore` (`stores/database`), `AzureAppConfigurationConfigStore`, `ConfiguPlatformConfigStore` | rows; settings with a label; configs of the platform | get, set | two statements, or one request per config, without a transaction; a set that is rejected and applied after its approval | they are `ConfigStore`s |
| Feature-flag stores (`stores/open-feature`, `launch-darkly`, `cloud-bees`, `split`) | a provider that is global to the process | init, get, close | one request replaces or closes the provider another one is using; a flag is asked for in four types in turn | a value comes from the provider of the store asked |
| `ConfiguInterface` (`common/src/ConfiguInterface.ts`) | the two `.configu` files, the interface configuration | init, getStoreInstance, getSchemaInstance, backupEvalOutput | the backup is an upsert in the middle of an eval pipeline | a backup holds what was evaluated and never fails the eval |
| `ConfiguFile`, `CfguFile` (`common/src`) | a file and the contents loaded from it | load, save | a save writes back what an earlier load saw, and loads the file again; a file that fails to load is unlinked | saved credentials survive |
| `ConfiguModule` (`common/src/ConfiguModule.ts`) | packages and giget's archives in a cache directory | registerLocal, registerRemote | existence stands for completeness, of packages and of archives; processes share the directory | what is registered is a whole package |
| Command line (`cli/src`) | none of its own | eval, upsert, export, login, init, run, install, purge | pipes of processes | a failed stage stops the pipeline |
| Proxy (`proxy/src`) | none of its own, but the process | POST /export | the entries of a request start at once, requests overlap, a rejection may come before it is awaited | a request gets its own values, every request is answered |
| Formatters, utilities, schemas | none | pure functions | text | - |

How they interact: the CLI (or the proxy) asks `ConfiguInterface` for a store
and a schema, constructs a command and runs it. The command calls `store.init`,
`store.get` and `store.set`. The output of an eval reaches the next eval, or an
upsert or export, as its `pipe`. An eval may end with an upsert into a backup store.

The hazards that follow from this are listed, each at its line, in
`PROJECT.json`; the properties below are there for them.

## 2. The modules

| Module | Models | State | Actions |
|---|---|---|---|
| `Configs` | `Config`, `Cfgu`, `ConfigSchema`, `ConfigSet`, `ConfigValue.validate`, `EvaluatedConfig` | none | - |
| `EvalCommand` (extends `Configs`) | a pipeline of evals and the export at its end | the store, the command in progress (what is read and unread, result, const keys to do), the pipe, the export | `Begin`, `ReadSet`, `ReadSwallowed`, `ReadRejected`, `Merge`, `EvalConst`, `ValidateResult`, `RunExport`, `ExternalWrite` |
| `ConfigStore` | what a command may rely on from any store; the abstract specification | `store`, `busy`, `pending`, `orphans` | `Submit`, `Apply`, `Resolve`, `Reject`, `Land` |
| `UpsertCommand` (extends `Configs`, instantiates `ConfigStore`) | programs upserting into one store | the store's, and per program its input and the previous values it read | `Begin`, `ReadPrev`, `ReadSwallowed`, `ReadRejected`, `SetNext`, `ApplyPart`, `Finish`, `SetRejected`, `LandLate` |
| `KeyValueStore` (implements `ConfigStore`) | `KeyValueConfigStore` over a backend of entries | the backend, and per program the batch, the entries not written and the document read | `StartSet`, `ReadDocument`, `ReadFails`, `Write`, `WriteFails`, `WriteTimesOut`, `WriteLate`, `EndSet` |
| `BackendEntry` | what `KeyValueStore` may rely on from a backend; the abstract specification | `entry`, `job`, `outcome`, `orphans` | `Ask`, `Take`, `Resolve`, `Reject`, `Land` |
| `SecretBackend` (implements `BackendEntry`) | `getByKey`, `upsert` and `delete` of the nine adapters, at one entry | the entry as the service has it, and per program the request it awaits | `Begin`, `Execute`, `Answer`, `Refuse`, `RequestFails`, `RequestTimesOut`, `ExecuteLate`, `RecoveryEnds` |
| `FileStore` (implements `ConfigStore`) | `FileConfigStore` and its formats | the file, and per program its stage, batch and the rows it parsed | `Start`, `Access`, `OpenFile`, `Initialise`, `ReadFile`, `WriteFile`, `EndSet`, `Crash` |
| `RowStore` (implements `ConfigStore`) | `ORMConfigStore`, `AzureAppConfigurationConfigStore` and `ConfiguPlatformConfigStore` | the rows, and per program the statements not executed yet; statements given up, or queued for approval, that may still be executed | `StartSet`, `Execute`, `StatementFails`, `StatementTimesOut`, `AwaitsApproval`, `ExecuteLate`, `DeletionIsLost`, `EndSet` |
| `FlagStore` | `OpenFeatureConfigStore` and the stores on it | the provider OpenFeature has, whether each provider runs, and per store the type each key is asked for as | `SetProvider`, `StartGet`, `ProviderFails`, `Evaluate`, `EvaluationFails`, `EndGet`, `Close` |
| `Proxy` (extends `FlagStore`) | POST /export, by requests that overlap | the server, and per entry of a request how far its callback is, its result and the reply | `Receive`, `Construct`, `ConstructFails`, `AwaitPrevious`, `StoreStep`, `StoreFault`, `StoreRejects`, `EndEntry`, `EndFails`, `Reply`, `Exit` |
| `EditSession` (extends `UpsertCommand`) | `configu upsert` with its flags, files, pipe and editor | the flags, what the editor showed and what it was left with | `Run`, `OpenEditor`, `CloseEditor`, `EditorFails`, and the actions of `UpsertCommand` for the preview and for the upsert |
| `Pipeline` | shell pipelines of evals and an export, with the backup and the flags of the export | the store, the backup database, the file of `--out`, and per process its stage, pipe, result and output | `ReadPrevious`, `Evaluate`, `ReadBackup`, `WriteBackup`, `PrintResult`, `Export`, `OpenOut`, `WriteOut`, `OutFails`, `RequestFails`, `Kill`, `ExternalWrite` |
| `ConfiguFile` | the local `.configu` of several processes: `ConfiguFile`, `ConfiguInterface.initConfig` and `getStoreInstance`, and what `login` saves | the file, and per process what it has loaded, saves, has read back and has chosen | `Load`, `Registered`, `RegisterFails`, `Unlink`, `UseStore`, `UseType`, `StoreIsMissing`, `Save`, `Write`, `Reload`, `Reloaded`, `ReloadFails`, `Exit`, `Crash` |
| `ModuleCache` | `registerRemote` and `registerLocal` over a shared cache directory, and `purge` | each package's directory, each archive, and per task its nested calls | `RegisterRemote`, `CheckExists`, `Install`, `Import`, `Download`, `Receive`, `Received`, `Clean`, `ExtractJson`, `ExtractRest`, `LoadJson`, `SaveJson`, `NextDependency`, `NetworkFails`, `Kill`, `Purge` |
| `EvalCommand_proofs`, `UpsertCommand_proofs`, `KeyValueStore_proofs`, `FileStore_proofs`, `RowStore_proofs`, `Pipeline_proofs`, `RemoteStores_proofs`, `LocalFiles_proofs` | theorems about the module they are named after; those about `EditSession` are in `UpsertCommand_proofs`, whose lemmas they need, those about `SecretBackend`, `FlagStore` and `Proxy` in `RemoteStores_proofs`, those about `ConfiguFile` and `ModuleCache` in `LocalFiles_proofs`. The modules that share one of proofs share no state | - | - |
| `MC...` | constants for TLC | - | - |

How actions and code correspond:

- **Granularity.** A step is what the code does between two `await`s, split
  further where the environment answers in parts. `store.get` of several sets
  is one `ReadSet` per set, because the key-value stores ask for one entry at a
  time and App Configuration for one label at a time. `Merge` is the code of
  `execute` from the answer of `store.get` to the const expressions: it composes
  the operators `EvalEmpty`, `EvalStore`, `EvalOverride`, `EvalDefault`,
  `EvalPipe` and `ConstReset`, one per method, in the order `execute` calls them.
- **Values** are opaque. `Empty` is the empty string, which the code treats as
  "no value". `cfgu.accepts` is the set of values that pattern, enum, JSON schema
  and tests on the value itself accept, and `cfgu.depends` the keys a test reads.
  A const is the literal it renders to or the key it reads.
- **A document** in `KeyValueStore` is a function from keys to values, with its
  text abstracted to `Json`; the constant `Reparsed` names values that come
  back as numbers or booleans. A **file** in `FileStore` is `Missing`, `Blank`,
  `Garbled` or its rows; a format is a record of
  what tells it from the others (`blankParses`, `singleBreaks`, `grouped`, `scalars`, `mixture`),
  and `Init` picks one of `Setups`. `Serialized` leaves out the root keys that a set of the same name
  hides in INI and TOML (`Shadowed`). Of two writes that overlap, `Outcomes` leaves either, or a
  mixture, which JSON and XML refuse, INI parses, and TOML and CSV do either with; a mixture that parses may
  add rows to those written, or replace some (`Mixtures`).
- **The file of the editor** in `EditSession` says of a value what YAML says of what JSON
  makes of it. The constant `Retyped` is that way through the file; the run has a value that
  it turns into none.
- **An adapter** in `SecretBackend` is a record of the requests its `upsert` sends: the
  first, the one after an answer, the one after a failure. `Init` picks one of
  nine. Adapters that send one request differ in two flags only: whether the
  value must be JSON, and whether a deleted name stays taken.
- **A text of an export** in `Pipeline` is the partial function from exported names to values
  that its formatter lays out; `--run` hands the same on, under the environment.
- **Failures** are actions: a read that fails and is swallowed, a read that
  rejects, a write that fails while the others of its `Promise.all` go on, a
  write given up that still lands, a set queued for approval, a provider that
  does not start, a rejection before it is awaited, a crash at any point of a file write.
- **Composition.** `UpsertCommand` takes the store's actions from `ConfigStore`,
  whose refinements (`KeyValueStore`, `FileStore`, `RowStore`) show what may be
  behind it. `KeyValueStore` takes a put or a delete of an entry as one step that
  happens once, fails, or lands late; this is `BackendEntry`, and `SecretBackend` shows
  that the adapters keep it. `Proxy` runs the actions of `FlagStore` inside its entries. `EditSession` runs the actions of `UpsertCommand` twice, first dry
  for the preview. `Pipeline` takes an eval as one step, since `EvalCommand`
  looks inside it, and keeps of its sources of a value the store, the default and
  the pipe; its backup is the part of an `UpsertCommand` that a store which
  answers a request at once, as SQLite does, leaves over.
- **The file behind `.configu`** is its entries, `Missing`, `Blank` or `Garbled`. A
  `Placeholder` stands for an entry with an environment variable in it, which
  `load` renders with what the process has; `Env` says what that is.
- **A package directory** in `ModuleCache` is a record of which `package.json` it
  holds (none, the downloaded, the rewritten one), whether the rest has been extracted,
  and what has been installed. An **archive** is `none`, `partial` or `whole`; packages of one repository
  share it (`Archive`). One that a second task empties while the first still writes has a hole and stays `partial`.
- **History variables** record what happened so that a property can speak of it,
  and no guard reads them: `torn`, `asked`, `stale`, `misread`, `offered`, `expected`,
  `raced`, `mixed`, `moved`, `overlooked`, `original`, `harmed`, `granted`, `disturbed`, `quiet`,
  `cached`, `stored`, `own`, `spoilt`, `written`, `givenUp`, `troubled`, `faulted`.
  `lost` in `RowStore` counts the steps the refinement leaves out.
- **Assumed of the environment**: two overlapping writes of `.configu`, unlike those of the
  files of `FileStore`, leave a text that does not parse or one of the two; an archive is whole once
  its only download has ended, and the same bytes for every download of one version; a truncated one ends
  anywhere, before or after the files of a package; npm rejects the `workspace:`
  protocol of a `package.json` that has not been rewritten; one import reads
  its files at one moment; an SQL statement and a request to App Configuration
  are atomic; a pipe delivers what was printed and ends with its process; a
  service carries out a request at one moment, at most once; a rejection that is
  not handled in time ends the proxy, as Node and graceful-server do by default; a provider
  that has been closed may answer still, or not; two exports that overlap in one file leave
  one text or a mixture; no set named like a key exists on a key-value backend (section 5).
- An operator whose comment says *Mutant* is never used by the specification: it
  is a plausible mistake in the definition that follows it, with which the
  property must fail.

## 3. What the runs check

All bounds are constants of the modules: `MaxEvals`, `MaxWrites`, `MaxFaults`,
`MaxCommands`, `MaxCalls`, `MaxReadErrors`, `MaxWriteErrors`, `MaxErrors`, `MaxTimeouts`,
`MaxSets`, `MaxRuns`, `MaxCrashes`, `MaxOutages`, `MaxPurges`, `MaxKills`, and `Length`, the entries of a
request. They stop a behaviour from going on for ever, so the
runs do not check deadlock: a program that has used up its bound simply stops.

| Run | Instance | What it shows |
|---|---|---|
| `eval` | two sets, two keys, two values, nine inputs, two evals, one write of another program, one failed read | `DeepestSetWins`: unless the store changed under the read, a key has the value of the deepest set that stores it. `StoreValuesWereRead`: a torn read may mix two moments, but never moves a value to another set or key. `PipeNeverDowngraded`: a key in the pipe is never lost, a configured value never replaced by a default, and a value emptied only by a command that clears it, or as a const that renders to nothing. `LazyOnlyFromOverride`. `OwnSchemaRules`: what a validating command hands on meets its own schema, tests over piped keys included; only a key it has no value for is judged by the `Cfgu` of an earlier command. `ConstAgrees`: a const agrees with what it reads if that comes before it |
| `upsert` | two programs, two sets, two keys, seven inputs, one backend error | `OnlyAskedWrites`, `ReportMatchesStore`, `ConfigsBeatPipe` (section 4) |
| `kv` | two programs on the same sets, the root among them, one call each, a failed read, a failed write and a timeout | `ImplementsConfigStore`: every step is a step of `ConfigStore` or a stutter, except the write of a document that was read badly or before another program wrote the set. What survives that: `ValuesStayHome` (no value under a config it was not given for), and `AckedIsStored` and `SiblingsSafe` for a set nobody overlapped |
| `secrets` | two programs at one entry of each of the nine adapters, two calls each, an error and a request given up; entries that exist, do not, have no version, or stay taken | `ImplementsEntry`: a call writes its entry once and resolves only when it has, except that one whose request was given up may write twice. `UpsertsComeThrough`: the two requests of an upsert cover every state of the entry, half-created ones included |
| `file` | two programs on a JSON or an INI file, one program on a JSON, XML, CSV, TOML or INI file; a root key with the name of a set; three sets, two crashes | `ImplementsConfigStore` for one program, with atomic sets, but for writes in which a set hides a root key. `CrashIsNoticed`: a crash leaves a file that parse refuses, the last one, or, where an empty file parses, nothing. `ValuesStayHome` although writes overlap in the file, unless a mixture of two may have been parsed; `AckedIsStored` for a set nobody overlapped, but for the keys it hides |
| `rows` | two programs, three configs, two calls each, two failed statements, one executed late; a database, App Configuration, and the platform with a protected set | `ImplementsConfigStore`, for every step but the loss of a deletion on App Configuration. `UpsertsAreWhole`: what a database or the platform upserts together appears together |
| `edit_session` | two programs, each with an editing session or two plain commands out of four, one backend error; a value that comes back from the file as none | `FileIsApplied`: what the file of the editor says is stored, before flags, pipe and `--prune`. `QuietSessionOnlyRetypes`: what the user left alone changes only as its way through the file changes it, unless it changed between preview and write or the preview could not read it |
| `pipeline` | a pipeline of two evals and an export and one of one eval and an export, in five kinds of export, with one backup and one `--out` file; one failed request, one killed process, one write of another program | `FailureStopsPipeline`: after a failure nothing is exported. `OutputIsBackedUp`: what an eval has printed is backed up, unless another pipeline overwrote it. `BackupWasStored`: a backup holds only what the store has held. `HiddenStaysHidden`: what the schema that gave a value hides is not exported, by print, run or out. `OutFileIsWhole`: the file holds what one export wrote unless its write failed, was killed or overlapped another; a pipeline that fails earlier leaves it alone. `PipelinesEnd` (liveness) |
| `proxy` | two requests at a time, one of a LaunchDarkly and another store, one of a CloudBees store; flags of three types and missing ones; one failure | `RepliesAreOwn`: a request that met no failure, and whose providers nobody replaced or closed while it used them, is answered with its own flags, those of the last entry that has them. `RequestsEnd` (liveness): every request is answered, unless an unhandled rejection has ended the process |
| `configu_file` | two processes of three commands, logins among them, one without the variable the file needs; a crash, a registration that fails, at the first load or when a save loads the file again; three original files | `EntriesSurvive` although saves overlap and die. `LoginIsStored`: a login that succeeds has read credentials back, and the file still holds some, or cannot be read since somebody touched it. `LoginIsKept`: a login nobody disturbs changes the credentials only, and fails only if a module is not registered again. `NamesResolve` |
| `module_cache` | two tasks, three packages that depend on each other, in two archives, three calls, a fault, a crash, a purge | `AloneRegisters`: the cache heals, a task that is alone registers its package whatever went wrong before, unless the SDK is wedged or the package's archive truncated (section 5). `CachedIsNotFetched`: what is in place is used |
| `eval_const_order` | two const keys | a counterexample, section 5 |

`eval`, `upsert` and `kv` also check a type invariant. The other
modules have none in their runs: their variables are typed by the properties that
read them, and by the first conjunct of the inductive invariant where there are proofs.

Why the bounds are enough. A key's value is decided by at most two sources at a
time (two sets, the pipe and the store, a const and the key it reads), hence
two sets, two keys and two evals. A race needs two programs, and a lost update
two calls that overlap; a second call per program, where there is one, shows what a command
meets that an earlier one left. One failure of each kind is enough for each property
to be refuted by a mutant of the code; a second one only repeats the first. Two
values tell a stale value from a new one. `secrets` needs two calls, for one to
meet what another left behind, and two kinds of entry, JSON or not. `file` needs three sets, one
to race with another and one to read the outcome, and two crashes, because a second one meets
the file the first has left. `configu_file` needs three commands: one to read before a save,
one to save and one to meet the outcome. `module_cache` needs three packages,
so that an SDK, a package on it and one on both exist, two archives, so that two packages
share one, and three calls, so that
one can follow a race of two. `pipeline` needs two evals before an export, for
a failure to pass through a stage and a key to be hidden in one schema only, and two pipelines
to share the backup and the file. `proxy` needs a request of two entries, for one to reject before
it is awaited, a second request to replace its provider, and three values to
tell the providers apart.

Symmetry is used on programs or tasks in `upsert`, `edit_session`, `kv`, `secrets`,
`rows` and `module_cache`, none of which checks liveness.

**Fairness.** Two properties are liveness properties. `PipelinesEnd` holds under weak
fairness of the steps of each process of a pipeline, `RequestsEnd` under weak
fairness of the steps of each entry, of each reply and of the end of a process that has been
asked to stop. The code justifies both as far as each `await` ends: an
event loop runs what is ready; standard input ends when the process before has
ended, and an entry goes on when the one before it has settled, which is what the properties
are about; that a request to a store, a provider or a backup is answered or fails
is up to the service, and is assumed. Failures are not fair
(`RequestFails`, `OutFails`, `Kill`; `ConstructFails`, `StoreFault`, `EndFails`): they may happen, and
need not. Everywhere else no fairness is
assumed and no liveness claimed. The code has no timeouts of its own, so whether a
command ends is up to the backend; a `Spec` here allows a program to stop
anywhere, which is also what a killed process looks like to the others.

## 4. What is proved

The theorems hold for every value of the constants: any number of programs, sets, keys, values
and files, of calls, failures and crashes, pipelines and requests of any length, packages that depend
on each other in any way. Of the 40 properties of the passing runs, 38 are theorems.

| Module | Theorem | What it proves |
|---|---|---|
| `EvalCommand_proofs` | `TypeCorrect` | `[]TypeOK` |
| | `LazyIsOverridden` | `[]LazyOnlyFromOverride` |
| | `SchemasRule` | `OwnSchemaRules`, whatever `Cfgu`s the pipe brings |
| | `ConstsAgree` | `[]ConstAgrees`, along the order in which consts are declared |
| | `StoreValuesAreRead`, `DeepestWins`, `PipeIsKept` | `StoreValuesWereRead`, `DeepestSetWins`, `PipeNeverDowngraded` |
| `UpsertCommand_proofs` | `TypeCorrect`, `WritesWereAsked`, `ReportsAreTrue`, `ConfigsComeFirst` | `[]TypeOK`, `OnlyAskedWrites`, `[]ReportMatchesStore`, `[]ConfigsBeatPipe` |
| | `SessionsAreUpserts` | the last three for `EditSpec`, with the inputs the command line makes |
| | `FilesAreApplied`, `QuietSessionsOnlyRetype` | `[]FileIsApplied`, `QuietSessionOnlyRetypes` for `EditSpec`, whatever `Retyped` does |
| `KeyValueStore_proofs` | `TypeCorrect`, `ValuesComeHome`, `ResolvedIsStored` | `[]TypeOK`, `[]ValuesStayHome`, `AckedIsStored` |
| | `SiblingsSurvive`, `KeyValueIsConfigStore` | `SiblingsSafe`, `ImplementsConfigStore` |
| `FileStore_proofs` | `ReadsWereOffered`, `CrashShows`, `ResolvedIsStored` | `[]ValuesStayHome`, `[]CrashIsNoticed`, `AckedIsStored` |
| | `FileStoreIsConfigStore` | `ImplementsConfigStore` |
| `RowStore_proofs` | `UpsertsStayWhole`, `RowStoreIsConfigStore` | `UpsertsAreWhole`, `ImplementsConfigStore` |
| `Pipeline_proofs` | `FailureStops`, `HiddenStays`, `OutputsAreBackedUp`, `BackupsWereStored`, `OutFileStaysWhole` | `[]FailureStopsPipeline`, `[]HiddenStaysHidden`, `[]OutputIsBackedUp`, `[]BackupWasStored`, `[]OutFileIsWhole` |
| `RemoteStores_proofs` | `UpsertsAreCovered`, `BackendIsEntry` | `UpsertsComeThrough`, `ImplementsEntry` (`SecretBackend`) |
| | `RepliesAreTheRequests` | `[]RepliesAreOwn`, for `ProxySpec`, so without fairness |
| `LocalFiles_proofs` | `EntriesLast`, `NamesMeanStores`, `LoginStores`, `LoginKeeps` | `[]EntriesSurvive`, `[]NamesResolve`, `LoginIsStored`, `LoginIsKept` (`ConfiguFile`) |
| | `CacheInvariant`, `ArchiveInvariant` | the invariants of `ModuleCache` |
| | `CachedStays`, `CacheHeals` | `[]CachedIsNotFetched`, `AloneRegisters` (`ModuleCache`) |

**Assumptions.** Each module names those on its constants in an `ASSUME`, which TLC evaluates in
the runs: inputs are inputs, bounds are naturals, the markers (`Missing`, `Garbled`, `Nul`, ...)
are not values, primary keys of rows differ. Some of it only the proofs need: in `RowStore` a batch is
finite, in `FileStore` finitely many programs use a file, in `Pipeline` there is an eval before the
export, in `ModuleCache` what a package needs is itself and what its dependencies need, in `EditSession`
`Retyped` keeps the empty value empty. The theorems of `KeyValueStore_proofs` have hypotheses
besides. `NamesDiffer`, that no set is named like a key, is in all: section 5 says what happens
otherwise. `Reparsed = {}`, that the backend returns values as they were stored, is in
`SiblingsSurvive` and `KeyValueIsConfigStore`: it holds of all backends but localForage. No
other theorem has a hypothesis.

**How.** None of these properties is inductive by itself. Every module strengthens them to an
inductive invariant `IInv` (`SecretIInv`, `ProxyIInv`, `FileIInv`, `CacheIInv` where two modules share
one of proofs), whose first conjunct types the variables, proves `Init => IInv` and
`IInv /\ [Next]_vars => IInv'`, action by action and part by part, and draws from `IInv` the
invariants, and from `IInv /\ [Next]_vars` the action properties and refinements. TLC
has checked each `IInv` on the instances of section 3. Its parts, and what they are for:

- `EvalCommand`. `RecordsOK`: what has been answered is what the sets read hold, unless the read
  is torn. `ResultOK`: the result agrees with the command, the pipe and the records, and the
  consts already rendered with what they read (`Agrees`), since an expression renders
  a key that is not itself waiting to be rendered. In it `Kept` says what a merge leaves of the pipe, and `Judged` whose
  `Cfgu` each key of the schema comes with. `PipeOK`: the pipe is a finished result.
  `DeepestWins` rests on a lemma that among the sets that hold a key there is a deepest one
  (`Least`: numbers have least elements).
- `UpsertCommand`. `Awaiting`: a store works for exactly the programs that await `store.set`.
  `UnderWayAsked`: whatever is pending or an orphan was asked for, which makes a write that
  lands after its command has failed harmless. `ReadMatches(c)`: each answer `c` holds is
  what the store holds, or somebody wrote it since, or its read failed. `WriteMatches(c)`: each
  config `c` reports is still pending, and differs from what was read, or stored, or stale. The
  steps are proved for `AnyStep`, in which a command may be given any input. `Next` and
  `EditNext` are both such steps, so one proof serves both specifications.
- `EditSession`. `SessionOK(c)`: what `c` upserts goes back to its command line, and to the lines
  of its file. `Untouched(c)`: what the user has not asked to change still has a value the line
  shown stands for, unless somebody moved it. A line that was not edited is written all the same, but with what
  it says (`OwnWrites`), so a value that has not moved can only be retyped.
- `KeyValueStore`. `OnlyOffered`: what the backend, a program or a write on its way holds was
  given. `Exclusive`: two programs that have not been overlapped by another write do not have the
  same entry. `WrittenIsStored`, `FoundIsCurrent`: what such a program has written is stored, and
  the document it read has not changed. `KeyValueIsConfigStore` maps each step to a step of
  `ConfigStore`: a `Write` of a document applies the whole batch of its set, one of a root entry a
  part of it.
- `SecretBackend`. `StageOK(c)`: the request an upsert awaits is one its adapter sends there, and the
  state of the entry is one that request meets. `WrittenOK`, `LateOK`: a call has written at most
  once if none of its requests was given up, and a request given up is of a call that is marked.
  `Undisturbed(c)`: what the second request of a call that is alone will find. The
  lemma `AdapterTable` is all the proofs use of the nine adapters.
- `FileStore`. `OnlyOffered`: rows in the file and in memory were given, unless a mixture may have been parsed. `Unraced(p)`: what `p` read, when
  no set overlapped its own, is what the file holds, or what it is about to replace. `Solo`: a
  program on its own reads what `expected` says, or an empty file a crash has left. The
  refinement maps the store to `expected`, so that a set takes effect when its write
  ends.
- `RowStore`. The statements of a batch are disjoint, and each, of a program or given up, has all
  upserts of a batch or none (`Whole`).
- `Pipeline`. `Chain(p)`: a stage that has read its pipe has what the one before it printed.
  `Sourced(p)`: each config of a result goes back to an eval that found it in the store, or as a default.
  `Visibly(p)`: what an export says, to one that does not hide it. `BackupOK(p)`: between its read and its
  write a backup knows what has changed. `Stored`, `FileOK`: what the backup and the file hold.
- `Proxy`. `OwnProvider(u)`: a store that nothing has disturbed has its own provider in place, every request of
  its `get` has gone to that one, and what is asked next is a type the flag may still have. `HandsOn(u, k)`: a fulfilled
  entry has the last flag of `k` among the stores up to its own. `Chained(u)`: an entry is evaluated
  after the one before it is fulfilled, with its result, which an eval keeps where its own store has nothing.
  `Answered(r)`: a request is answered when its last entry is. Both parts are needed at once: the flags say
  nothing of the order of the entries, and that nothing of whose provider has answered.
- `ConfiguFile`. `Surviving`: everything loaded or about to be saved has the original entries, as long as no
  load has failed. `Granted`: once credentials have been saved, every content that can still reach the file has
  some. `Saving(p)`, `Undisturbed(p)`: what `p` is writing, and that it is what the file holds
  if nobody has come between. `ReadBack(p)`: what it has read back, while modules are registered, has credentials.
- `ModuleCache`. `ArchiveInv`: a task that has been alone is the last to have created the archive it writes, and
  has one to extract. `Lone`: who has been alone so far is alone. `InPlace(t)`: a task that began with all it needs
  finds it until it returns. The rest describes the stack of calls of a task that is alone, and the directories
  these calls have repaired. `Innermost(t)`: what the call under way finds in its directory. `Waiting(t)`: the calls around
  it wait for a dependency, their own directories rewritten. A package that depends on itself through
  others may be fetched again below a call for it, which is the one exception. `Nested(t)`: a call inside another is for something
  that one needs. `Supplied(t)`: what the registered dependencies need is ready, or part of what is being
  fetched, unless the SDK is broken (`Wedged`). So the import at the end of a call cannot
  fail; nor can any other step of a lone task that no request fails, but the extraction of a truncated archive, and no other task ends its call (`FailsItself`).

**What stays with TLC.** Liveness under fairness (`PipelinesEnd`, `RequestsEnd`) and ENABLED are out
of the prover's reach. There are no recursive definitions.
The counterexample of `eval_const_order` is TLC's.

## 5. Where code and documentation part

`eval_const_order` ends in a counterexample. `ConfigExpression.sort` orders
expressions by their free identifiers, which for `$.configs.K` is `$`. A const that
reads a const declared after it renders the empty string, and cycles are not
noticed. `PROJECT.json` quotes the lines.

Met while modelling, and without a run of their own, because one line or one step
shows each. Against a comment or the documentation:

- `cli/src/commands/eval.ts:34` says the rightmost schema of a pipeline overrides
  the rest. `evalPipe` keeps the whole record of the earlier schema, `Cfgu` included,
  when the later one finds nothing or a default. So `EvalCommand.ts:213`, "validate the eval
  result against the provided schema", holds of the other keys only (`OwnSchemaRules`).
- `UpsertCommand.ts:128-129` say a piped key is left out when it is const or lazy
  "in current schema"; the code asks the `Cfgu` that was piped, and the upsert
  fails.
- A test over another config, as in the example of `.cfgu.mdx`, fails in every
  upsert: the context of the validation holds one config only.
- A default of `false` or `0` is not applied (`EvalCommand.ts:122`, constant `Falsy`);
  a key that is lazy and required passes without a value (`:221`); const keys
  are queried (`:92`) although `.cfgu.mdx` says they never are.
- `docs/guides/v1-migration.mdx:269-273` replaces `--pick-hidden` by
  `--filter '$.cfgu.hidden === true'`. `export.ts` drops hidden configs before it asks
  the filter, so that exports nothing. `--explain` reports hidden configs with
  their values (`export.ts:226-229`), `.cfgu.mdx:222` has them omitted from the output.
- `proxy/README.md:3` calls the proxy a stateless server. Requests share the process-wide
  OpenFeature provider, and one may be answered with the flags of another (what
  `RepliesAreOwn` excludes by `disturbed`).
- `stores/azure-app-configuration:96` says 404 is ignored on a deletion. Every error
  without a `statusCode` is (`DeletionIsLost`).
- `cli/src/index.ts:40` says piped commands are skipped. A stage that is killed
  prints nothing, and the next one goes on as if it had no pipe (the exception in
  `FailureStopsPipeline`).

Of the code alone:

- The root config `K` and the set `K` share an entry of a key-value backend
  (`stores/key-value:11`), and `AckedIsStored` fails for a set named like a key.
- The primary key of a row digests set and key without a separator
  (`stores/database:67`).
- An INI value `true` is not returned, and the next set erases it
  (`scalars`); an XML file of one config cannot be read back (`singleBreaks`); INI,
  TOML and CSV take the empty file a crash leaves for "no configs" (`blankParses`);
  localForage reads values back as numbers, which the next set of the document
  drops (`Reparsed`).
- In INI and TOML a root key with the name of a set is overwritten by the set
  (`stores/ini-file:40`, `stores/toml-file:40`): a set that stores it is acknowledged, and
  it is gone (`Shadowed`). INI parses whatever two overlapping writes leave, CSV and TOML some of it
  (`mixture`), so that a key may appear under another set or with half a value.
- A line of the editor that nobody edits is stored again, as what YAML and JSON make of it: "1.0"
  becomes "1", and "null" none, which deletes the config (`cli/src/commands/upsert.ts:178`, `:202-213`; `Retyped`).
- A login writes back what `load` rendered, so an environment variable in
  `.configu` is replaced by its value. A command that lacks the variable
  unlinks the file (`ConfiguInterface.ts:103`). A login whose file lists a module that cannot be registered again
  is reported to have failed, although its credentials are stored (`ConfiguFile.ts:373`).
- A rewritten `package.json` beside half an extraction counts as a whole SDK, and no
  call repairs it (`Wedged` in `ModuleCache`). giget keeps its archives in the same cache and prefers one that
  exists (`utils/Modules.ts:33`, `:41`): one left truncated by a download that died fails every later
  download from it, until `purge` (`Truncated`). A download restores an unset
  `XDG_CACHE_HOME` as `"undefined"` (`utils/Modules.ts:32`).
- The backup of an eval is skipped without `--store` (`ConfiguInterface.ts:215`), fails
  the eval when the pipe brings a stored config its schema does not declare,
  and keeps configs that were deleted from the store.
- `configu export --run` lets the variables of its own process win over exported configs of the
  same name (`export.ts:165`). A `--out` file that is being written when its process dies
  is left empty or cut off.
- Every error of a feature flag but `FLAG_NOT_FOUND` and `TYPE_MISMATCH` is answered with
  the default of the type asked for, so a provider that cannot be reached gives configs `false`
  (`stores/open-feature:32-46`; `Default` in `FlagStore`). LaunchDarkly closes whatever provider
  the process has by then (`stores/launch-darkly:30`).
- An entry of a request to the proxy that rejects while the entry after it still loads its store
  or schema is an unhandled rejection, and ends the process for all requests
  (`proxy/src/routes.ts:57`; `Reject` in `Proxy`).
- GCP answers any failed request of an upsert with another `addSecretVersion`, so one upsert may
  add two versions (`stores/gcp-secret-manager:57`; `WritesAgain`). A deleted name on
  AWS Secrets Manager or Azure Key Vault refuses upserts until its recovery window ends.
- Values of the root set that are not JSON are rejected by Vault and
  Kubernetes, whose adapters parse what they are given; one that is a JSON scalar
  becomes a Kubernetes secret without data.
- `ConfiguInterface.getInterfaceConfigFromEnv` returns the result of a nested object and drops
  what it has gathered before (`ConfiguInterface.ts:159-160`).

## 6. What is not modelled

- **Text**: parsing, formatting, key naming, normalisation of a set path, JSON
  conversion of exported values, `formatters`. Pure functions; nothing here
  depends on them beyond what the constants above express.
- **The sandbox of expressions** (`sdk/src/expression`): an expression is what it
  renders to or the key it reads.
- **Services and libraries**: etcd, Vault, AWS, GCP, Azure, Kubernetes, keyv,
  databases, npm, the package registry, OpenFeature and its providers, the Configu
  platform, graceful-server. They are modelled from their use: a request is carried out, or refused,
  or fails, or is given up and carried out late.
- **Scalar JSON in the root set on Kubernetes** (section 5): `SecretBackend` takes JSON values
  to be objects. What Split treatments carry beside their value. The `synchronize` of a database
  schema and the connection options of each database, which only reach a constructor.
- **Inside an entry of `.configu`**, where a save merges deeply: `ConfiguFile` takes an entry with new credentials to be
  those credentials, and no property looks inside one. **The cache of npm**, which checks the integrity of what it holds.
  What tasks of one process do to each other's `XDG_CACHE_HOME` while they download.
- **Interaction**: prompts, reports, `init`, `install`, and what a login does before it
  saves. They keep no state the modules share, but for the files `init` creates in an
  empty directory. The editor is modelled by what it leaves in the file; two
  sessions that begin in one millisecond and so share a temporary file are not.
- **The proxy's listen**, which configures the server, and entries of a request whose store is not
  one of feature flags: their evaluation is `EvalCommand`, and they share nothing with other requests
  but the stores and the module cache.
- **`run`**, which starts one program. **`CfguFile`** and **`Input`**, which read and parse
  files that nothing in the program writes concurrently: functions of text. The templates and
  formats of an export, which lay out what `Pipeline` takes as its text; the order in which
  configs given the same name win over each other is left open.

## 7. Plan

The modules, the most important behaviour first: `Configs`,
`EvalCommand`, `ConfigStore`, `UpsertCommand`, `KeyValueStore`, `FileStore`,
`RowStore`, `EditSession`, `ConfiguFile`, `ModuleCache`, `Pipeline`,
`BackendEntry`, `SecretBackend`, `FlagStore`, `Proxy`, and the modules of proofs of section 2. All are written, and
every property of the runs that the prover can reach is a theorem.

To keep up with the code: should it come to mark packages that are complete, or to lock the cache,
`Wedged` can go from `AloneRegisters` and its proof, and `Truncated` should the archives be checked; utilities and formatters are left out as long as they keep no state.

Runs are kept to one per question; a module that is still to come takes a run's place or
joins one.
