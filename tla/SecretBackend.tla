----------------------------- MODULE SecretBackend -----------------------------
(***************************************************************************)
(* The adapters of KeyValueConfigStore: etcd, Keyv, localForage, Vault,    *)
(* Kubernetes, AWS Parameter Store and Secrets Manager, GCP Secret Manager *)
(* and Azure Key Vault.  Some create an entry and, when that fails for     *)
(* whatever reason, update it, or the other way round; on some a deleted   *)
(* name stays taken for a while.  The services are external: a request is  *)
(* executed and answered, refused, fails, or is given up, executed already *)
(* or to be executed late.                                                 *)
(***************************************************************************)
EXTENDS Naturals

CONSTANTS
    Client,       \* programs with a store over the same backend
    Content,      \* entries the store writes
    Texts,        \* those of them that are not JSON: values of root configs
    Missing,      \* there is no such entry
    Bare,         \* GCP: a secret without a version
    Deleted,      \* AWS, Azure: deleted, and the name not free yet
    MaxCalls,     \* calls per client
    MaxErrors, MaxTimeouts

ASSUME BackendAssumption ==
    /\ Texts \subseteq Content
    /\ {Missing, Bare, Deleted} \cap Content = {}
    /\ Missing # Bare /\ Missing # Deleted /\ Bare # Deleted
    /\ {MaxCalls, MaxErrors, MaxTimeouts} \subseteq Nat

VARIABLES
    adapter,      \* which adapter this is, see below
    secret,       \* the entry as the service has it
    stage,        \* stage[c]: the request c awaits, "idle" when it awaits none
    content,      \* content[c]: what its call writes, Missing for a deletion
    executed,     \* clients whose request has been executed and not answered
    late,         \* requests given up that may still be executed
    outcome,      \* outcome[c]: how its last call ended
    calls, errors, timeouts,
    written,      \* history: calls that have written their content
    givenUp,      \* history: calls one of whose requests was given up
    troubled      \* history: clients whose call met an error or another program

counters == <<calls, errors, timeouts>>
vars == <<adapter, secret, stage, content, executed, late, outcome, counters,
          written, givenUp, troubled>>

-----------------------------------------------------------------------------
(* The adapters: the first request of an upsert; the request after one     *)
(* that is answered, and after one that is not; whether upsert parses the  *)
(* value; whether a deleted name stays taken.                              *)

Single ==
    [first |-> "put", next |-> [put |-> "resolve"], fallback |-> [put |-> "reject"],
     json |-> FALSE, soft |-> FALSE]

Etcd == Single
KeyvAdapter == Single
LocalForage == Single
ParameterStore == Single
Vault == [Single EXCEPT !.json = TRUE]
KeyVault == [Single EXCEPT !.soft = TRUE]

(* Mutant: only a secret that did not exist is written. *)
GcpCreates ==
    [first |-> "createSecret",
     next |-> [createSecret |-> "addVersion", addVersion |-> "resolve"],
     fallback |-> [createSecret |-> "reject", addVersion |-> "reject"],
     json |-> FALSE, soft |-> FALSE]

(* Whatever fails, createSecret or addSecretVersion, addSecretVersion      *)
(* follows.                                                                *)
Gcp ==
    [first |-> "createSecret",
     next |-> [createSecret |-> "addVersion", addVersion |-> "resolve", addAgain |-> "resolve"],
     fallback |-> [createSecret |-> "addAgain", addVersion |-> "addAgain", addAgain |-> "reject"],
     json |-> FALSE, soft |-> FALSE]

Kubernetes ==
    [first |-> "create", next |-> [create |-> "resolve", patch |-> "resolve"],
     fallback |-> [create |-> "patch", patch |-> "reject"],
     json |-> TRUE, soft |-> FALSE]

(* Mutant: the failure of the second request is swallowed. *)
SwallowingManager ==
    [first |-> "update", next |-> [update |-> "resolve", create |-> "resolve"],
     fallback |-> [update |-> "create", create |-> "resolve"],
     json |-> FALSE, soft |-> TRUE]

SecretsManager ==
    [first |-> "update", next |-> [update |-> "resolve", create |-> "resolve"],
     fallback |-> [update |-> "create", create |-> "reject"],
     json |-> FALSE, soft |-> TRUE]

Adapters ==
    {Etcd, KeyvAdapter, LocalForage, ParameterStore, Vault, KeyVault, Gcp, Kubernetes,
     SecretsManager}

(* The request after `request`. *)
After(request, answered) ==
    CASE request = "delete" -> IF answered THEN "resolve" ELSE "reject"
      [] request = "parse" -> "reject"
      [] OTHER -> IF answered THEN adapter.next[request] ELSE adapter.fallback[request]

-----------------------------------------------------------------------------
(* The services.                                                           *)

Exists == secret \in Content \cup {Bare}

(* A request the service can carry out. *)
Accepted(request) ==
    CASE request \in {"createSecret", "create"} -> secret = Missing
      [] request \in {"addVersion", "addAgain", "update", "patch"} -> Exists
      [] request = "put" -> secret # Deleted
      [] request = "delete" -> Exists \/ secret = Missing
      [] request = "parse" -> FALSE

(* Services differ in whether there must be something to delete. *)
Refused(request) == ~Accepted(request) \/ (request = "delete" /\ secret = Missing)

Result(request, value) ==
    CASE request = "createSecret" -> Bare
      [] request = "delete" -> IF adapter.soft /\ Exists THEN Deleted ELSE Missing
      [] OTHER -> value

(* What getByKey answers; it is rejected for what is missing, has no       *)
(* version or is deleted.                                                  *)
Readable == IF secret \in Content THEN secret ELSE Missing

-----------------------------------------------------------------------------

Active == {c \in Client : stage[c] # "idle"}

Call(c) == <<c, calls[c]>>

Init ==
    /\ adapter \in Adapters
    /\ secret \in Content \cup {Missing} \cup (IF adapter = Gcp THEN {Bare} ELSE {})
    /\ adapter.json => secret \notin Texts
    /\ stage = [c \in Client |-> "idle"]
    /\ content = [c \in Client |-> Missing]
    /\ executed = {} /\ late = {}
    /\ outcome = [c \in Client |-> "none"]
    /\ calls = [c \in Client |-> 0]
    /\ errors = 0 /\ timeouts = 0
    /\ written = {} /\ givenUp = {} /\ troubled = {}

(* upsert(key, value); delete(key) when value is Missing. *)
Begin(c, value) ==
    /\ stage[c] = "idle"
    /\ calls[c] < MaxCalls
    /\ calls' = [calls EXCEPT ![c] = @ + 1]
    /\ content' = [content EXCEPT ![c] = value]
    /\ stage' = [stage EXCEPT ![c] =
          IF value = Missing THEN "delete"
          ELSE IF adapter.json /\ value \in Texts THEN "parse" ELSE adapter.first]
    /\ outcome' = [outcome EXCEPT ![c] = "none"]
    /\ troubled' = troubled \ {c}
    /\ UNCHANGED <<adapter, secret, executed, late, errors, timeouts, written, givenUp>>

(* The next request of c's call, or its end. *)
Advance(c, answered) ==
    LET step == After(stage[c], answered)
        over == step \in {"resolve", "reject"}
    IN  /\ stage' = [stage EXCEPT ![c] = IF over THEN "idle" ELSE step]
        /\ outcome' = [outcome EXCEPT ![c] = IF over THEN step ELSE @]

Executes(call, request, value) ==
    /\ Accepted(request)
    /\ secret' = Result(request, value)
    /\ written' = written \cup (IF request = "createSecret" THEN {} ELSE {call})
    /\ troubled' = troubled \cup {d \in Active : Call(d) # call}

(* The service executes c's request. *)
Execute(c) ==
    /\ c \in Active \ executed
    /\ Executes(Call(c), stage[c], content[c])
    /\ executed' = executed \cup {c}
    /\ UNCHANGED <<adapter, stage, content, late, outcome, counters, givenUp>>

Answer(c) ==
    /\ c \in executed
    /\ Advance(c, TRUE)
    /\ executed' = executed \ {c}
    /\ UNCHANGED <<adapter, secret, content, late, counters, written, givenUp, troubled>>

(* The service, or JSON.parse, refuses. *)
Refuse(c) ==
    /\ c \in Active \ executed
    /\ Refused(stage[c])
    /\ Advance(c, FALSE)
    /\ UNCHANGED <<adapter, secret, content, executed, late, counters, written, givenUp, troubled>>

RequestFails(c) ==
    /\ c \in Active \ executed
    /\ stage[c] # "parse"
    /\ errors < MaxErrors
    /\ errors' = errors + 1
    /\ Advance(c, FALSE)
    /\ troubled' = troubled \cup {c}
    /\ UNCHANGED <<adapter, secret, content, executed, late, calls, timeouts, written, givenUp>>

(* The answer does not arrive: the request is under way still, or its      *)
(* answer is lost.                                                         *)
RequestTimesOut(c) ==
    /\ c \in Active
    /\ stage[c] # "parse"
    /\ timeouts < MaxTimeouts
    /\ timeouts' = timeouts + 1
    /\ Advance(c, FALSE)
    /\ late' = IF c \in executed THEN late
               ELSE late \cup {[call |-> Call(c), request |-> stage[c], content |-> content[c]]}
    /\ executed' = executed \ {c}
    /\ givenUp' = givenUp \cup {Call(c)}
    /\ troubled' = troubled \cup {c}
    /\ UNCHANGED <<adapter, secret, content, calls, errors, written>>

ExecuteLate(r) ==
    /\ r \in late
    /\ Executes(r.call, r.request, r.content)
    /\ late' = late \ {r}
    /\ UNCHANGED <<adapter, stage, content, executed, outcome, counters, givenUp>>

(* The recovery window ends, or the vault has purged the secret. *)
RecoveryEnds ==
    /\ secret = Deleted
    /\ secret' = Missing
    /\ UNCHANGED <<adapter, stage, content, executed, late, outcome, counters,
                   written, givenUp, troubled>>

Next ==
    \/ \E c \in Client :
        \/ \E value \in Content \cup {Missing} : Begin(c, value)
        \/ Execute(c) \/ Answer(c) \/ Refuse(c) \/ RequestFails(c) \/ RequestTimesOut(c)
    \/ \E r \in late : ExecuteLate(r)
    \/ RecoveryEnds

Spec == Init /\ [][Next]_vars

-----------------------------------------------------------------------------

(* The two requests of an upsert cover whatever state the entry is in, a   *)
(* secret that was created and never got its version included: an upsert   *)
(* is only rejected after an error, for a name that is not free yet, for a *)
(* value that does not parse, or because another program was at the entry. *)
UpsertsComeThrough ==
    [][\A c \in Client :
        outcome[c] # "reject" /\ outcome'[c] = "reject" =>
            \/ c \in troubled'
            \/ content[c] = Missing \/ secret = Deleted
            \/ adapter.json /\ content[c] \in Texts]_vars

(* Orphans: what ended calls that have not written may still write. *)
Abstract == INSTANCE BackendEntry WITH
    entry <- Readable,
    job <- [c \in Client |->
              IF c \in Active
              THEN [content |-> content[c], taken |-> Call(c) \in written, active |-> TRUE]
              ELSE [content |-> Missing, taken |-> FALSE, active |-> FALSE]],
    orphans <- {<<r.call, r.content>> : r \in
                  {x \in late : /\ x.request # "createSecret" /\ x.call \notin written
                                /\ (x.call = Call(x.call[1]) => x.call[1] \notin Active)}}

(* A call writes again although it has written: its first request was      *)
(* given up, and the second executed before or after it.                   *)
WritesAgain ==
    \/ \E c \in executed' \ executed : Call(c) \in written \cap givenUp
    \/ \E r \in late \ late' : r.call \in written

(* Whatever requests an adapter sends, its calls write the entry once and  *)
(* resolve only when they have; only a call one of whose requests was      *)
(* given up may write a second time.                                       *)
ImplementsEntry ==
    Abstract!EntryInit /\ [][WritesAgain \/ Abstract!EntryNext]_Abstract!entryVars

=============================================================================
