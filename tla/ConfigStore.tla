----------------------------- MODULE ConfigStore -----------------------------
(***************************************************************************)
(* What the commands may rely on when they call a ConfigStore (sdk         *)
(* ConfigStore.ts): the abstract specification the backends implement.     *)
(*                                                                         *)
(* A store maps a query, a set and a key, to a value.  store.set receives  *)
(* a batch of configs.  No backend promises that the batch takes effect at *)
(* once, nor that a rejected set took no effect: writes that were under    *)
(* way when the promise was rejected may still land (Promise.all does not  *)
(* cancel them).  What a store does promise is that                        *)
(*   - it changes only as some client's batch says, each config once, and  *)
(*   - a set that resolves has applied its whole batch.                    *)
(***************************************************************************)
CONSTANTS
    Client,     \* programs using the store
    Query,      \* the pairs of a set and a key
    Content     \* config values, and the empty string for "no value"

VARIABLES
    store,      \* store[q]: the value stored under q, the empty string when nothing is
    busy,       \* clients whose store.set has not settled
    pending,    \* pending[c]: the part of c's batch that is not applied yet
    orphans     \* writes of rejected sets that may still land

storeVars == <<store, busy, pending, orphans>>

NoBatch == [q \in {} |-> q]

Batch == UNION {[D -> Content] : D \in SUBSET Query}

Override(s, batch) == [q \in DOMAIN s |-> IF q \in DOMAIN batch THEN batch[q] ELSE s[q]]

Only(batch, D) == [q \in DOMAIN batch \cap D |-> batch[q]]

Without(batch, D) == [q \in DOMAIN batch \ D |-> batch[q]]

StoreInit ==
    /\ store \in [Query -> Content]
    /\ busy = {}
    /\ pending = [c \in Client |-> NoBatch]
    /\ orphans = {}

(* Client c calls store.set(batch). *)
Submit(c, batch) ==
    /\ c \notin busy
    /\ busy' = busy \cup {c}
    /\ pending' = [pending EXCEPT ![c] = batch]
    /\ UNCHANGED <<store, orphans>>

(* The backend applies the configs of c's batch for the queries in D. *)
Apply(c, D) ==
    /\ c \in busy
    /\ D # {} /\ D \subseteq DOMAIN pending[c]
    /\ store' = Override(store, Only(pending[c], D))
    /\ pending' = [pending EXCEPT ![c] = Without(pending[c], D)]
    /\ UNCHANGED <<busy, orphans>>

(* The promise resolves. *)
Resolve(c) ==
    /\ c \in busy
    /\ pending[c] = NoBatch
    /\ busy' = busy \ {c}
    /\ UNCHANGED <<store, pending, orphans>>

(* The promise is rejected with the writes of D still under way. *)
Reject(c, D) ==
    /\ c \in busy
    /\ D \subseteq DOMAIN pending[c]
    /\ busy' = busy \ {c}
    /\ pending' = [pending EXCEPT ![c] = NoBatch]
    /\ orphans' = orphans \cup {<<q, pending[c][q]>> : q \in D}
    /\ UNCHANGED store

Written(W) == {w[1] : w \in W}

Landed(s, W) ==
    [q \in DOMAIN s |-> IF q \in Written(W) THEN (CHOOSE w \in W : w[1] = q)[2] ELSE s[q]]

(* Writes that outlived their set land: those of one request at once.  One *)
(* that several sets have left behind may land again.                      *)
Land(W) ==
    /\ W # {} /\ W \subseteq orphans
    /\ \A w, x \in W : w[1] = x[1] => w = x
    /\ store' = Landed(store, W)
    /\ \E landed \in SUBSET W : orphans' = orphans \ landed
    /\ UNCHANGED <<busy, pending>>

StoreNext ==
    \/ \E c \in Client :
        \/ Submit(c, pending'[c]) /\ pending'[c] \in Batch
        \/ \E D \in SUBSET DOMAIN pending[c] : Apply(c, D) \/ Reject(c, D)
        \/ Resolve(c)
    \/ \E W \in SUBSET orphans : Land(W)

StoreSpec == StoreInit /\ [][StoreNext]_storeVars

=============================================================================
