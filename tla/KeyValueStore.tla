---------------------------- MODULE KeyValueStore ----------------------------
(***************************************************************************)
(* KeyValueConfigStore (stores/key-value): the base of the etcd, Vault,    *)
(* Kubernetes, AWS, GCP, Azure Key Vault, localForage and Keyv stores.  A  *)
(* config of the root set is a backend entry of its own; the configs of    *)
(* any other set share one entry, a JSON document, which store.set reads,  *)
(* changes and writes back without any lock or version check.  The backend *)
(* is external: it gets, puts and deletes one entry at a time.             *)
(***************************************************************************)
EXTENDS Naturals

CONSTANTS
    Client,      \* programs with a store over the same backend
    Key,         \* config keys
    SetPath,     \* set paths other than the root
    Root,        \* the path of the root set, the empty string
    Value,       \* non-empty config values
    Empty,       \* the empty string
    Json,        \* the text of a JSON document
    Reparsed,    \* values a document gives back as a number or a boolean
    Calls,       \* Calls[c]: what UpsertCommand hands to c's store.set: a set and configs
    MaxCalls,    \* calls per client
    MaxReadErrors, MaxWriteErrors, MaxTimeouts   \* backend failures

Content == Value \cup {Empty}
Query == (SetPath \cup {Root}) \X Key
BackendKey == SetPath \cup Key

Partial(S, T) == UNION {[D -> T] : D \in SUBSET S}
Nothing == [k \in {} |-> Empty]

ASSUME KeyValueAssumption ==
    /\ Root \notin SetPath /\ Empty \notin Value /\ Json \notin Content
    /\ Reparsed \subseteq Value
    /\ \A c \in Client :
          Calls[c] \subseteq [set : SetPath \cup {Root}, configs : Partial(Key, Content)]
    /\ {MaxCalls, MaxReadErrors, MaxWriteErrors, MaxTimeouts} \subseteq Nat

(* A backend entry: its text, and what JSON.parse makes of it.             *)
Absent == [text |-> Empty, json |-> Nothing]
Text(v) == IF v = Empty THEN Absent ELSE [text |-> v, json |-> Nothing]
Document(f) == IF f = Nothing THEN Absent ELSE [text |-> Json, json |-> f]

(* What an entry may be, given how its backend key came about.             *)
Entries(b) ==
    (IF b \in Key THEN {Text(v) : v \in Content} ELSE {})
    \cup (IF b \in SetPath THEN {Document(f) : f \in Partial(Key, Value)} ELSE {})

VARIABLES
    backend,     \* backend[b]: the entry under backend key b
    call,        \* call[c]: the batch c's store.set is working on
    left,        \* left[c]: backend keys it has not written yet
    answered,    \* clients whose getByKey has answered
    found,       \* found[c]: prevValue, once it has
    busy,        \* clients awaiting store.set
    late,        \* writes that outlived their set: a backend key and an entry
    calls, readErrors, writeErrors, timeouts,   \* counters behind the bounds
    offered,     \* history: what was stored at first, and what was given for it
    raced,       \* history: clients whose call overlapped another write of its set
    misread      \* history: clients whose getByKey was rejected

counters == <<calls, readErrors, writeErrors, timeouts>>
history == <<offered, raced, misread>>
vars == <<backend, call, left, answered, found, busy, late, counters, history>>

-----------------------------------------------------------------------------

(* Mutant: the set is left out of the backend key. *)
KeyOnly(q) == q[2]

CalcKey(q) == IF q[1] = Root THEN q[2] ELSE q[1]

(* get: what is returned for a query, Empty standing for no config.        *)
Get(q) ==
    LET entry == backend[CalcKey(q)]
    IN  IF q[1] = Root THEN entry.text
        ELSE IF q[2] \in DOMAIN entry.json THEN entry.json[q[2]] ELSE Empty

(* kvDict: the entries a batch touches. *)
Touched(batch) == {CalcKey(<<batch.set, k>>) : k \in DOMAIN batch.configs}

(* Mutant: the previous value is merged over the configs. *)
PrevOverConfigs(prev, configs) ==
    LET value(k) == IF k \in DOMAIN prev THEN prev[k] ELSE configs[k]
        kept == {k \in DOMAIN prev \cup DOMAIN configs :
                    value(k) # Empty /\ (k \in DOMAIN configs \/ prev[k] \notin Reparsed)}
    IN  [k \in kept |-> value(k)]

(* Mutant: empty values are kept. *)
KeepEmpty(prev, configs) ==
    [k \in DOMAIN prev \cup DOMAIN configs |->
        IF k \in DOMAIN configs THEN configs[k] ELSE prev[k]]

(* Mutant: the previous value is not merged in. *)
ConfigsOnly(prev, configs) ==
    [k \in {j \in DOMAIN configs : configs[j] # Empty} |-> configs[k]]

(* merge(value).omitBy(isEmpty): lodash calls every number and boolean     *)
(* empty, so what was read back as one is omitted too.                     *)
Merged(prev, configs) ==
    LET value(k) == IF k \in DOMAIN configs THEN configs[k] ELSE prev[k]
        kept == {k \in DOMAIN prev \cup DOMAIN configs :
                    value(k) # Empty /\ (k \in DOMAIN configs \/ prev[k] \notin Reparsed)}
    IN  [k \in kept |-> value(k)]

(* The entry c writes under b: root values as they are, documents merged.  *)
NextEntry(c, b) ==
    IF call[c].set = Root
    THEN Text(call[c].configs[b])
    ELSE Document(Merged(found[c], call[c].configs))

Reading(c, b) == c \in busy /\ b \in left[c] /\ call[c].set # Root /\ c \notin answered

(* A document is read before it is written. *)
Ready(c, b) == c \in busy /\ b \in left[c] /\ (call[c].set = Root \/ c \in answered)

(* Writes under way for backend keys or the set of a new batch.            *)
Rivals(batch) == {d \in busy : call[d].set = batch.set}
Overtaken(batch) == \E w \in late : w[1] \in Touched(batch)

-----------------------------------------------------------------------------

Init ==
    /\ backend \in {f \in [BackendKey -> UNION {Entries(b) : b \in BackendKey}] :
                       \A b \in BackendKey : f[b] \in Entries(b)}
    /\ call = [c \in Client |-> [set |-> Root, configs |-> Nothing]]
    /\ left = [c \in Client |-> {}]
    /\ answered = {}
    /\ found = [c \in Client |-> Nothing]
    /\ busy = {}
    /\ late = {}
    /\ calls = [c \in Client |-> 0]
    /\ readErrors = 0 /\ writeErrors = 0 /\ timeouts = 0
    /\ offered = {<<q, Get(q)>> : q \in Query}
    /\ raced = {} /\ misread = {}

(* set(configs): the configs are grouped by backend key. *)
StartSet(c, batch) ==
    /\ c \notin busy
    /\ calls[c] < MaxCalls
    /\ calls' = [calls EXCEPT ![c] = @ + 1]
    /\ busy' = busy \cup {c}
    /\ call' = [call EXCEPT ![c] = batch]
    /\ left' = [left EXCEPT ![c] = Touched(batch)]
    /\ answered' = answered \ {c}
    /\ found' = [found EXCEPT ![c] = Nothing]
    /\ offered' = offered \cup
          {<<<<batch.set, k>>, batch.configs[k]>> : k \in DOMAIN batch.configs}
    /\ raced' = (raced \ {c}) \cup Rivals(batch) \cup
          {d \in {c} : Rivals(batch) # {} \/ Overtaken(batch)}
    /\ misread' = misread \ {c}
    /\ UNCHANGED <<backend, late, readErrors, writeErrors, timeouts>>

(* getByKey answers. *)
ReadDocument(c, b) ==
    /\ Reading(c, b)
    /\ answered' = answered \cup {c}
    /\ found' = [found EXCEPT ![c] = backend[b].json]
    /\ UNCHANGED <<backend, call, left, busy, late, counters, history>>

(* getByKey is rejected: prevValue = {}. *)
ReadFails(c, b) ==
    /\ Reading(c, b)
    /\ readErrors < MaxReadErrors
    /\ readErrors' = readErrors + 1
    /\ answered' = answered \cup {c}
    /\ misread' = misread \cup {c}
    /\ UNCHANGED <<backend, call, left, found, busy, late, calls, writeErrors, timeouts,
                   offered, raced>>

(* delete or upsert succeeds. *)
Write(c, b) ==
    /\ Ready(c, b)
    /\ backend' = [backend EXCEPT ![b] = NextEntry(c, b)]
    /\ left' = [left EXCEPT ![c] = @ \ {b}]
    /\ UNCHANGED <<call, answered, found, busy, late, counters, history>>

(* Promise.all is rejected when one write is; the writes for `others` go   *)
(* on.                                                                     *)
Abandon(c, others) ==
    /\ busy' = busy \ {c}
    /\ left' = [left EXCEPT ![c] = {}]
    /\ late' = late \cup {<<b, NextEntry(c, b)>> : b \in others}
    /\ UNCHANGED <<backend, call, answered, found, calls, readErrors, history>>

WriteFails(c, b) ==
    /\ Ready(c, b)
    /\ writeErrors < MaxWriteErrors
    /\ writeErrors' = writeErrors + 1
    /\ Abandon(c, left[c] \ {b})
    /\ UNCHANGED timeouts

(* A write is given up that the backend may still carry out. *)
WriteTimesOut(c, b) ==
    /\ Ready(c, b)
    /\ timeouts < MaxTimeouts
    /\ timeouts' = timeouts + 1
    /\ Abandon(c, left[c])
    /\ UNCHANGED writeErrors

WriteLate(w) ==
    /\ w \in late
    /\ backend' = [backend EXCEPT ![w[1]] = w[2]]
    /\ late' = late \ {w}
    /\ UNCHANGED <<call, left, answered, found, busy, counters, history>>

(* Mutant: Promise.all is not awaited. *)
EndSetEarly(c) ==
    /\ c \in busy
    /\ left' = [left EXCEPT ![c] = {}]
    /\ late' = late \cup {<<b, NextEntry(c, b)>> : b \in left[c]}
    /\ busy' = busy \ {c}
    /\ UNCHANGED <<backend, call, answered, found, counters, history>>

(* Promise.all resolves. *)
EndSet(c) ==
    /\ c \in busy
    /\ left[c] = {}
    /\ busy' = busy \ {c}
    /\ UNCHANGED <<backend, call, left, answered, found, late, counters, history>>

Next ==
    \/ \E c \in Client :
        \/ \E batch \in Calls[c] : StartSet(c, batch)
        \/ \E b \in BackendKey :
            \/ ReadDocument(c, b) \/ ReadFails(c, b)
            \/ Write(c, b) \/ WriteFails(c, b) \/ WriteTimesOut(c, b)
        \/ EndSet(c)
    \/ \E w \in late : WriteLate(w)

Spec == Init /\ [][Next]_vars

-----------------------------------------------------------------------------

(* Type correctness of every variable; no stored document holds an empty   *)
(* value.                                                                  *)
TypeOK ==
    /\ \A b \in BackendKey : backend[b] \in Entries(b)
    /\ \A c \in Client :
          /\ call[c].set \in SetPath \cup {Root}
          /\ call[c].configs \in Partial(Key, Content)
          /\ left[c] \subseteq BackendKey
          /\ found[c] \in Partial(Key, Value)
    /\ answered \subseteq Client /\ busy \subseteq Client
    /\ \A w \in late : w[1] \in BackendKey /\ w[2] \in Entries(w[1])
    /\ calls \in [Client -> 0..MaxCalls]
    /\ readErrors \in 0..MaxReadErrors /\ writeErrors \in 0..MaxWriteErrors
    /\ timeouts \in 0..MaxTimeouts
    /\ offered \subseteq Query \X Content
    /\ raced \subseteq Client /\ misread \subseteq Client

(* A value never turns up under a config it was not given for, whatever    *)
(* races, errors and late writes do to a document.                         *)
ValuesStayHome == \A q \in Query : Get(q) # Empty => <<q, Get(q)>> \in offered

(* When a set resolves that no other write of its set overlapped, all its  *)
(* configs are stored: what was given is returned by get, what was emptied *)
(* is gone.                                                                *)
AckedIsStored ==
    [][\A c \in busy \ (busy' \cup raced) :
        writeErrors' = writeErrors /\ timeouts' = timeouts =>
            \A k \in DOMAIN call[c].configs :
                Get(<<call[c].set, k>>) = call[c].configs[k]]_vars

(* Such a set, unless its read failed, changes none of the configs it was  *)
(* not given.                                                              *)
SiblingsSafe ==
    [][\A c \in busy \ (raced \cup misread) :
        left'[c] # left[c] /\ late' = late =>
            \A k \in Key \ DOMAIN call[c].configs :
                Get(<<call[c].set, k>>)' = Get(<<call[c].set, k>>)]_vars

-----------------------------------------------------------------------------

(* The part of c's batch the backend has not taken yet. *)
Pending(c) ==
    [q \in {p \in Query : /\ c \in busy /\ p[1] = call[c].set
                          /\ p[2] \in DOMAIN call[c].configs
                          /\ CalcKey(p) \in left[c]} |-> call[c].configs[q[2]]]

(* Mapped to ConfigStore, writes of documents that outlived their set are  *)
(* no orphans: they write more than was asked.                             *)
Abstract == INSTANCE ConfigStore WITH
    store <- [q \in Query |-> Get(q)],
    pending <- [c \in Client |-> Pending(c)],
    orphans <- {<<<<Root, w[1]>>, w[2].text>> : w \in {x \in late : x[1] \in Key}}

(* A document is written that was read badly, or before somebody else      *)
(* wrote the same set.                                                     *)
StaleDocument ==
    \/ \E w \in late \ late' : w[1] \in SetPath
    \/ \E c \in raced \cup misread : call[c].set # Root /\ left'[c] # left[c]

(* Every other step of the store is a step of a ConfigStore: programs that *)
(* overlap in the root set, or in different sets, whose writes fail and    *)
(* land late, do to each config only what was asked.                       *)
ImplementsConfigStore ==
    Abstract!StoreInit /\ [][StaleDocument \/ Abstract!StoreNext]_Abstract!storeVars

=============================================================================
