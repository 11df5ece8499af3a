------------------------------- MODULE FlagStore -------------------------------
(***************************************************************************)
(* OpenFeatureConfigStore (stores/open-feature) and the LaunchDarkly,      *)
(* CloudBees and Split stores: read-only stores over a provider of feature *)
(* flags.  Every store constructs its own provider, but OpenFeature keeps  *)
(* one provider for the whole process: init replaces it, and LaunchDarkly  *)
(* closes it after a get.  A flag is asked for as a boolean, a number, a   *)
(* string and an object in turn, until the provider says the type fits;    *)
(* each of these calls goes to the provider of its moment.  OpenFeature    *)
(* and the providers are external.                                         *)
(***************************************************************************)
EXTENDS Naturals

CONSTANTS
    User,         \* stores, each of one command of the process
    Key,
    Value,        \* what flags hold, as text
    Empty,        \* the empty string, for "no config"
    NoFlag, Nobody,
    Flags,        \* Flags[u][k]: the flag k of the provider of u, or NoFlag
    Closing,      \* LaunchDarkly stores
    Building,     \* CloudBees stores, whose provider is a promise
    MaxFaults     \* providers that do not start, evaluations that fail

Types == {"bool", "number", "string", "object"}

(* What is returned in place of a value, as text. *)
Default(type) ==
    CASE type = "bool" -> "false"
      [] type = "number" -> "0"
      [] type = "string" -> Empty
      [] type = "object" -> "{}"

ASSUME FlagAssumption ==
    /\ Nobody \notin User /\ Closing \subseteq User /\ Building \subseteq User
    /\ NoFlag \notin [type : Types, value : Value]
    /\ Flags \in [User -> [Key -> [type : Types, value : Value] \cup {NoFlag}]]
    /\ MaxFaults \in Nat

VARIABLES
    current,      \* whose provider OpenFeature has, or Nobody
    provider,     \* provider[u]: whether the provider of u has started, or is closed
    phase,        \* phase[u]: where u's command is
    asking,       \* asking[u][k]: the type k is asked for as, "done" after the last
    via,          \* via[u][k]: whose provider has been asked
    answer,       \* answer[u][k]: the value get returns
    faults,
    disturbed,    \* history: stores whose provider others replaced or closed during the command
    faulted       \* history: stores that met a failure

flagVars == <<current, provider, phase, asking, via, answer, faults, disturbed, faulted>>

-----------------------------------------------------------------------------

FlagInit ==
    /\ current = Nobody
    /\ provider = [u \in User |-> "new"]
    /\ phase = [u \in User |-> "idle"]
    /\ asking = [u \in User |-> [k \in Key |-> "bool"]]
    /\ via = [u \in User |-> [k \in Key |-> Nobody]]
    /\ answer = [u \in User |-> [k \in Key |-> Empty]]
    /\ faults = 0 /\ disturbed = {} /\ faulted = {}

(* Stores whose command has a provider set. *)
InUse == {u \in User : phase[u] \in {"starting", "getting", "closing"}}

Goto(u, place) == phase' = [phase EXCEPT ![u] = place]

Fault(u) ==
    /\ faults < MaxFaults
    /\ faults' = faults + 1
    /\ faulted' = faulted \cup {u}

(* Mutant: the provider is set once for the process. *)
KeepProvider(u) ==
    /\ phase[u] = "idle"
    /\ current' = IF current = Nobody THEN u ELSE current
    /\ provider' = [provider EXCEPT ![u] = "starting"]
    /\ disturbed' = disturbed \cup InUse
    /\ Goto(u, "starting")
    /\ UNCHANGED <<asking, via, answer, faults, faulted>>

(* init: setProviderAndWait replaces the provider and closes the former.   *)
SetProvider(u) ==
    /\ phase[u] = "idle"
    /\ current' = u
    /\ provider' = [v \in User |-> IF v = u THEN "starting"
                                   ELSE IF v = current THEN "closed" ELSE provider[v]]
    /\ disturbed' = disturbed \cup InUse
    /\ Goto(u, "starting")
    /\ UNCHANGED <<asking, via, answer, faults, faulted>>

(* The provider has started: get asks for every key as a boolean.          *)
StartGet(u) ==
    /\ phase[u] = "starting"
    /\ provider' = [provider EXCEPT ![u] = IF @ = "closed" THEN @ ELSE "ready"]
    /\ via' = [via EXCEPT ![u] = [k \in Key |-> current]]
    /\ Goto(u, "getting")
    /\ UNCHANGED <<current, asking, answer, faults, disturbed, faulted>>

(* A provider does not start, or is not even built. *)
ProviderFails(u) ==
    /\ phase[u] = "starting" \/ (phase[u] = "idle" /\ u \in Building)
    /\ Fault(u)
    /\ provider' = [provider EXCEPT ![u] = IF @ = "closed" THEN @ ELSE "failed"]
    /\ Goto(u, "rejected")
    /\ UNCHANGED <<current, asking, via, answer, disturbed>>

(* What the provider of p answers when k is asked for as a type.  One that *)
(* is closed may answer still.                                             *)
Details(p, k, type) ==
    LET flag == Flags[p][k]
        fit == IF flag = NoFlag THEN "FLAG_NOT_FOUND"
               ELSE IF flag.type # type THEN "TYPE_MISMATCH" ELSE "value"
    IN  (IF provider[p] \in {"ready", "closed"} THEN {fit} ELSE {})
        \cup (IF provider[p] # "ready" THEN {"error"} ELSE {})

NextType == [bool |-> "number", number |-> "string", string |-> "object", object |-> "done"]

(* getValue: what comes of the details.  Only as a boolean is a flag that  *)
(* was not found told from one that could not be read.                     *)
GetValue(u, k, details) ==
    LET type == asking[u][k]
        mismatch == details = "TYPE_MISMATCH"
    IN  /\ asking' = [asking EXCEPT ![u][k] = IF mismatch THEN NextType[type] ELSE "done"]
        /\ via' = [via EXCEPT ![u][k] = current]
        /\ answer' = [answer EXCEPT ![u][k] =
               IF details = "value" THEN Flags[via[u][k]][k].value
               ELSE IF mismatch \/ (type = "bool" /\ details = "FLAG_NOT_FOUND") THEN Empty
               ELSE Default(type)]

Awaits(u, k) == phase[u] = "getting" /\ asking[u][k] # "done"

Evaluate(u, k) ==
    /\ Awaits(u, k)
    /\ \E details \in Details(via[u][k], k, asking[u][k]) : GetValue(u, k, details)
    /\ UNCHANGED <<current, provider, phase, faults, disturbed, faulted>>

(* The provider cannot be reached. *)
EvaluationFails(u, k) ==
    /\ Awaits(u, k)
    /\ Fault(u)
    /\ GetValue(u, k, "error")
    /\ UNCHANGED <<current, provider, phase, disturbed>>

(* All values are there; LaunchDarkly then awaits OpenFeature.close().     *)
EndGet(u) ==
    /\ phase[u] = "getting"
    /\ \A k \in Key : asking[u][k] = "done"
    /\ Goto(u, IF u \in Closing THEN "closing" ELSE "returned")
    /\ UNCHANGED <<current, provider, asking, via, answer, faults, disturbed, faulted>>

Close(u) ==
    /\ phase[u] = "closing"
    /\ provider' = [provider EXCEPT ![current] = "closed"]
    /\ disturbed' = disturbed \cup (InUse \ {u})
    /\ Goto(u, "returned")
    /\ UNCHANGED <<current, asking, via, answer, faults, faulted>>

FlagStep(u) ==
    \/ SetProvider(u) \/ StartGet(u) \/ EndGet(u) \/ Close(u)
    \/ \E k \in Key : Evaluate(u, k)

FlagFault(u) == ProviderFails(u) \/ \E k \in Key : EvaluationFails(u, k)

=============================================================================
