------------------------------- MODULE RowStore -------------------------------
(***************************************************************************)
(* The stores that keep one record per config: ORMConfigStore              *)
(* (stores/database, the base of the SQL stores),                          *)
(* AzureAppConfigurationConfigStore and ConfiguPlatformConfigStore.  A set *)
(* is a sequence of statements without a transaction: on a database one    *)
(* that deletes and one that upserts, on App Configuration one per config, *)
(* on the platform one request with all of them.  It stops at the first    *)
(* that fails.  A statement is atomic; the services are external.  The     *)
(* platform may answer that a change waits for approval: the set is        *)
(* rejected, and takes effect when somebody approves it.                   *)
(***************************************************************************)
EXTENDS Naturals, Sequences, FiniteSets

CONSTANTS
    Client,     \* programs with a store over the same table
    Query,      \* the pairs of a set and a key
    Value, Empty,
    Digest,     \* Digest[q]: the primary key of the config q, assumed to be unique
    NoRow,
    Kinds,      \* stores to consider: "database", "settings", "platform"
    Protected,  \* sets whose changes the platform puts into an approval queue
    Calls,      \* what UpsertCommand hands to store.set
    MaxCalls,   \* calls per client
    MaxErrors, MaxTimeouts

Content == Value \cup {Empty}

(* Configs: partial functions from queries to contents. *)
Configs == UNION {[D -> Content] : D \in SUBSET Query}

Nothing == [q \in {} |-> Empty]

(* ORMConfigStore.id; a setting is found by its key and its label. *)
Id(q) == Digest[q]

Ids == {Digest[q] : q \in Query}

ASSUME RowStoreAssumption ==
    /\ Empty \notin Value
    /\ NoRow \notin Query \X Value
    /\ DOMAIN Digest = Query
    /\ \A p, q \in Query : Digest[p] = Digest[q] => p = q
    /\ Calls \subseteq Configs /\ \A batch \in Calls : IsFiniteSet(DOMAIN batch)
    /\ Kinds \subseteq {"database", "settings", "platform"} /\ Kinds # {}
    /\ {MaxCalls, MaxErrors, MaxTimeouts} \subseteq Nat

VARIABLES
    kind,      \* which of the stores this is
    rows,      \* rows[i]: the config with primary key i and its value
    busy,      \* clients awaiting store.set
    todo,      \* todo[c]: the statements c's store.set has not executed
    late,      \* statements given up that the service may still execute
    calls, errors, timeouts,
    offered,   \* history: the batches given so far
    lost       \* history: deletions lost unnoticed

vars == <<kind, rows, busy, todo, late, calls, errors, timeouts, offered, lost>>

-----------------------------------------------------------------------------

(* get: the rows whose set and key match. *)
Get(q) == IF rows[Id(q)] # NoRow /\ rows[Id(q)][1] = q THEN rows[Id(q)][2] ELSE Empty

(* _.partition by value. *)
Deletions(batch) == [q \in {p \in DOMAIN batch : batch[p] = Empty} |-> Empty]
Upserts(batch) == [q \in {p \in DOMAIN batch : batch[p] # Empty} |-> batch[q]]

(* The orders in which the configs of a batch may come. *)
Orders(D) ==
    {order \in [1..Cardinality(D) -> D] : \A i, j \in 1..Cardinality(D) : order[i] = order[j] => i = j}

OneByOne(batch) ==
    {[i \in DOMAIN order |-> [q \in {order[i]} |-> batch[q]]] : order \in Orders(DOMAIN batch)}

(* Mutant: the database store, too, executes a statement per config. *)
AlwaysOneByOne(batch) == OneByOne(batch)

(* A database is sent the statements that are not empty. *)
Sent(statement) == IF statement = Nothing THEN <<>> ELSE <<statement>>

(* The statements of a set. *)
Statements(batch) ==
    CASE kind = "database" -> {Sent(Deletions(batch)) \o Sent(Upserts(batch))}
      [] kind = "settings" -> OneByOne(batch)
      [] kind = "platform" -> {<<batch>>}

Targets(statement) == {Id(q) : q \in DOMAIN statement}

Affecting(statement, i) == CHOOSE q \in DOMAIN statement : Id(q) = i

(* A delete by primary key, or an upsert. *)
Executed(table, statement) ==
    [i \in Ids |->
        IF i \notin Targets(statement) THEN table[i]
        ELSE LET q == Affecting(statement, i)
             IN  IF statement[q] = Empty THEN NoRow ELSE <<q, statement[q]>>]

(* Status 202 of the platform: its approval queue takes the statement.      *)
Queued(statement) ==
    kind = "platform" /\ \E q \in DOMAIN statement : q[1] \in Protected

Awaits(c) == c \in busy /\ todo[c] # <<>>

-----------------------------------------------------------------------------

Init ==
    /\ kind \in Kinds
    /\ rows = [i \in Ids |-> NoRow]
    /\ busy = {}
    /\ todo = [c \in Client |-> <<>>]
    /\ late = {}
    /\ calls = [c \in Client |-> 0]
    /\ errors = 0 /\ timeouts = 0
    /\ offered = {}
    /\ lost = 0

(* set(configs) *)
StartSet(c, batch) ==
    /\ c \notin busy
    /\ calls[c] < MaxCalls
    /\ calls' = [calls EXCEPT ![c] = @ + 1]
    /\ busy' = busy \cup {c}
    /\ \E statements \in Statements(batch) : todo' = [todo EXCEPT ![c] = statements]
    /\ offered' = offered \cup {batch}
    /\ UNCHANGED <<kind, rows, late, errors, timeouts, lost>>

(* The next statement is executed. *)
Execute(c) ==
    /\ Awaits(c)
    /\ ~Queued(Head(todo[c]))
    /\ rows' = Executed(rows, Head(todo[c]))
    /\ todo' = [todo EXCEPT ![c] = Tail(@)]
    /\ UNCHANGED <<kind, busy, late, calls, errors, timeouts, offered, lost>>

(* It is rejected, and with it the set; the statements after it are not    *)
(* sent.                                                                   *)
Rejected(c) ==
    /\ Awaits(c)
    /\ busy' = busy \ {c}
    /\ todo' = [todo EXCEPT ![c] = <<>>]
    /\ UNCHANGED <<kind, rows, calls, offered, lost>>

StatementFails(c) ==
    /\ errors < MaxErrors
    /\ errors' = errors + 1
    /\ Rejected(c)
    /\ UNCHANGED <<late, timeouts>>

(* Mutant: a queued change counts as done. *)
AnswersQueued(c) ==
    /\ Awaits(c)
    /\ Queued(Head(todo[c]))
    /\ todo' = [todo EXCEPT ![c] = Tail(@)]
    /\ late' = late \cup {Head(todo[c])}
    /\ UNCHANGED <<kind, rows, busy, calls, errors, timeouts, offered, lost>>

(* ConfiguPlatformConfigStoreApprovalQueueError *)
AwaitsApproval(c) ==
    /\ Awaits(c)
    /\ Queued(Head(todo[c]))
    /\ Rejected(c)
    /\ late' = late \cup {Head(todo[c])}
    /\ UNCHANGED <<errors, timeouts>>

(* It is given up, but the service may still execute it. *)
StatementTimesOut(c) ==
    /\ timeouts < MaxTimeouts
    /\ timeouts' = timeouts + 1
    /\ Rejected(c)
    /\ late' = late \cup {Head(todo[c])}
    /\ UNCHANGED errors

(* It is executed, or approved, after its set was rejected. *)
ExecuteLate(statement) ==
    /\ statement \in late
    /\ rows' = Executed(rows, statement)
    /\ late' = late \ {statement}
    /\ UNCHANGED <<kind, busy, todo, calls, errors, timeouts, offered, lost>>

(* App Configuration: an error of a deletion that carries no status code,  *)
(* such as one of the credential, is taken for "does not exist".           *)
DeletionIsLost(c) ==
    /\ Awaits(c)
    /\ kind = "settings"
    /\ Upserts(Head(todo[c])) = Nothing
    /\ errors < MaxErrors
    /\ errors' = errors + 1
    /\ todo' = [todo EXCEPT ![c] = Tail(@)]
    /\ lost' = lost + 1
    /\ UNCHANGED <<kind, rows, busy, late, calls, timeouts, offered>>

(* The promise resolves. *)
EndSet(c) ==
    /\ c \in busy
    /\ todo[c] = <<>>
    /\ busy' = busy \ {c}
    /\ UNCHANGED <<kind, rows, todo, late, calls, errors, timeouts, offered, lost>>

Next ==
    \/ \E c \in Client :
        \/ \E batch \in Calls : StartSet(c, batch)
        \/ Execute(c) \/ StatementFails(c) \/ StatementTimesOut(c)
        \/ AwaitsApproval(c) \/ DeletionIsLost(c)
        \/ EndSet(c)
    \/ \E statement \in late : ExecuteLate(statement)

Spec == Init /\ [][Next]_vars

-----------------------------------------------------------------------------

(* What a database or the platform upserts together appears together,      *)
(* however calls overlap and whenever a statement given up is executed: a  *)
(* value that appears comes with all the others of a batch that was given. *)
UpsertsAreWhole ==
    [][kind # "settings" =>
        \A q \in Query :
            Get(q)' # Get(q) /\ Get(q)' # Empty =>
                \E batch \in offered :
                    /\ q \in DOMAIN batch
                    /\ \A p \in DOMAIN Upserts(batch) : Get(p)' = batch[p]]_rows

(* The configs of c's call that no statement has reached. *)
Pending(c) ==
    [q \in UNION {DOMAIN todo[c][i] : i \in DOMAIN todo[c]} |->
        todo[c][CHOOSE i \in DOMAIN todo[c] : q \in DOMAIN todo[c][i]][q]]

Abstract == INSTANCE ConfigStore WITH
    store <- [q \in Query |-> Get(q)],
    pending <- [c \in Client |-> Pending(c)],
    orphans <- UNION {{<<q, s[q]>> : q \in DOMAIN s} : s \in late}

(* As long as primary keys differ, these stores are ConfigStores: every    *)
(* step, other than one that loses a deletion, is a step of ConfigStore.   *)
ImplementsConfigStore ==
    Abstract!StoreInit /\ [][lost' = lost => Abstract!StoreNext]_Abstract!storeVars

=============================================================================
