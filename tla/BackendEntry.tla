----------------------------- MODULE BackendEntry -----------------------------
(***************************************************************************)
(* What KeyValueConfigStore may rely on from getByKey, upsert and delete:  *)
(* one entry of a backend.  A call writes the entry at most once.  When it *)
(* resolves it has; when it is rejected it may have, and may still do so.  *)
(***************************************************************************)
EXTENDS Naturals

CONSTANTS
    Client,     \* programs using the backend
    Content,    \* what an entry may hold
    Missing     \* there is no entry; a call that writes this deletes

VARIABLES
    entry,      \* what getByKey answers
    job,        \* job[c]: what c's call writes, and whether it has
    outcome,    \* outcome[c]: how c's last call has ended, "none" while it has not
    orphans     \* writes of rejected calls that may still happen: a tag and a content

entryVars == <<entry, job, outcome, orphans>>

NoJob == [content |-> Missing, taken |-> FALSE, active |-> FALSE]

EntryInit ==
    /\ entry \in Content \cup {Missing}
    /\ job = [c \in Client |-> NoJob]
    /\ outcome = [c \in Client |-> "none"]
    /\ orphans = {}

(* upsert(key, content), or delete(key). *)
Ask(c, content) ==
    /\ ~job[c].active
    /\ job' = [job EXCEPT ![c] = [content |-> content, taken |-> FALSE, active |-> TRUE]]
    /\ outcome' = [outcome EXCEPT ![c] = "none"]
    /\ UNCHANGED <<entry, orphans>>

Take(c) ==
    /\ job[c].active /\ ~job[c].taken
    /\ entry' = job[c].content
    /\ job' = [job EXCEPT ![c].taken = TRUE]
    /\ UNCHANGED <<outcome, orphans>>

Resolve(c) ==
    /\ job[c].active /\ job[c].taken
    /\ job' = [job EXCEPT ![c] = NoJob]
    /\ outcome' = [outcome EXCEPT ![c] = "resolve"]
    /\ UNCHANGED <<entry, orphans>>

Reject(c) ==
    /\ job[c].active
    /\ job' = [job EXCEPT ![c] = NoJob]
    /\ outcome' = [outcome EXCEPT ![c] = "reject"]
    /\ \/ UNCHANGED orphans
       \/ ~job[c].taken /\ \E w \in orphans' : w[2] = job[c].content /\ orphans' = orphans \cup {w}
    /\ UNCHANGED entry

Land(w) ==
    /\ w \in orphans
    /\ entry' = w[2]
    /\ orphans' = orphans \ {w}
    /\ UNCHANGED <<job, outcome>>

EntryNext ==
    \/ \E c \in Client :
        \/ \E content \in Content \cup {Missing} : Ask(c, content)
        \/ Take(c) \/ Resolve(c) \/ Reject(c)
    \/ \E w \in orphans : Land(w)

EntrySpec == EntryInit /\ [][EntryNext]_entryVars

=============================================================================
