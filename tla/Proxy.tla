-------------------------------- MODULE Proxy --------------------------------
(***************************************************************************)
(* The proxy (packages/proxy): a server process that evaluates the entries *)
(* of each POST /export and replies with the export of the last one.  The  *)
(* entries start at once: each constructs its store and schema, and only   *)
(* then awaits the output of the entry before it.  The entries modelled    *)
(* here have stores of feature flags, which share the one provider of the  *)
(* process (FlagStore); the evaluation of any other store is EvalCommand.  *)
(* A rejection that nobody awaits ends a Node process, here through        *)
(* graceful-server; both, and Fastify, are external.                       *)
(***************************************************************************)
EXTENDS FlagStore

CONSTANTS
    Request,
    Length        \* Length[r]: the entries of the body of r

EntriesOf(r) == {<<r, i>> : i \in 1..Length[r]}

ASSUME ProxyAssumption ==
    /\ Length \in [Request -> Nat \ {0}]
    /\ User = UNION {EntriesOf(r) : r \in Request}

VARIABLES
    server,       \* "up", "stopping" after an unhandled rejection, "down"
    entry,        \* entry[u]: where the callback of reduce is
    result,       \* result[u]: the values of its EvalCommandOutput
    reply         \* reply[r]

proxyVars == <<flagVars, server, entry, result, reply>>

IsLast(u) == u[2] = Length[u[1]]

Following(u) == <<u[1], u[2] + 1>>

(* The state of previousResult, and what it was fulfilled with. *)
Previous(u) == IF u[2] = 1 THEN "fulfilled" ELSE entry[<<u[1], u[2] - 1>>]

Piped(u) == IF u[2] = 1 THEN [k \in Key |-> Empty] ELSE result[<<u[1], u[2] - 1>>]

Running == server # "down"

-----------------------------------------------------------------------------

ProxyInit ==
    /\ FlagInit
    /\ server = "up"
    /\ entry = [u \in User |-> "new"]
    /\ result = [u \in User |-> [k \in Key |-> Empty]]
    /\ reply = [r \in Request |-> "none"]

(* body.reduce calls the callback for every entry without waiting. *)
Receive(r) ==
    /\ server = "up"
    /\ reply[r] = "none"
    /\ reply' = [reply EXCEPT ![r] = "pending"]
    /\ entry' = [u \in User |-> IF u[1] = r THEN "constructing" ELSE entry[u]]
    /\ UNCHANGED <<flagVars, server, result>>

(* getStoreInstance and getSchemaInstance have returned. *)
Construct(u) ==
    /\ entry[u] = "constructing"
    /\ entry' = [entry EXCEPT ![u] = "awaiting"]
    /\ UNCHANGED <<flagVars, server, result, reply>>

(* The callback rejects.  The route awaits the last one; any other is      *)
(* awaited once the next entry has come that far.                          *)
Reject(u) ==
    /\ entry' = [entry EXCEPT ![u] = "rejected"]
    /\ server' = IF IsLast(u) \/ entry[Following(u)] = "awaiting" \/ server # "up" THEN server
                 ELSE "stopping"

(* Unknown store or schema, or one that cannot be read. *)
ConstructFails(u) ==
    /\ entry[u] = "constructing"
    /\ Fault(u)
    /\ Reject(u)
    /\ UNCHANGED <<current, provider, phase, asking, via, answer, disturbed, result, reply>>

(* Mutant: the next entry goes on only with a result. *)
AwaitResult(u) ==
    /\ entry[u] = "awaiting"
    /\ Previous(u) = "fulfilled"
    /\ entry' = [entry EXCEPT ![u] = "evaluating"]
    /\ UNCHANGED <<server, flagVars, result, reply>>

(* const pipe = await previousResult *)
AwaitPrevious(u) ==
    /\ entry[u] = "awaiting"
    /\ \/ /\ Previous(u) = "fulfilled"
          /\ entry' = [entry EXCEPT ![u] = "evaluating"]
          /\ UNCHANGED server
       \/ Previous(u) = "rejected" /\ Reject(u)
    /\ UNCHANGED <<flagVars, result, reply>>

(* EvalCommand.run initialises the store and gets from it. *)
StoreStep(u) ==
    /\ entry[u] = "evaluating"
    /\ FlagStep(u)
    /\ UNCHANGED <<server, entry, result, reply>>

StoreFault(u) ==
    /\ entry[u] = "evaluating"
    /\ FlagFault(u)
    /\ UNCHANGED <<server, entry, result, reply>>

(* store.init or store.get has rejected. *)
StoreRejects(u) ==
    /\ entry[u] = "evaluating"
    /\ phase[u] = "rejected"
    /\ Reject(u)
    /\ UNCHANGED <<flagVars, result, reply>>

(* evalStore and evalPipe: a piped value stands where the store has none.  *)
EndEntry(u) ==
    /\ entry[u] = "evaluating"
    /\ phase[u] = "returned"
    /\ entry' = [entry EXCEPT ![u] = "fulfilled"]
    /\ result' = [result EXCEPT ![u] =
           [k \in Key |-> IF answer[u][k] # Empty THEN answer[u][k] ELSE Piped(u)[k]]]
    /\ UNCHANGED <<flagVars, server, reply>>

(* validateResult, or backupEvalOutput, rejects. *)
EndFails(u) ==
    /\ entry[u] = "evaluating"
    /\ phase[u] = "returned"
    /\ Fault(u)
    /\ Reject(u)
    /\ UNCHANGED <<current, provider, phase, asking, via, answer, disturbed, result, reply>>

(* The handler of the route: the export, or an error.                      *)
Reply(r) ==
    /\ reply[r] = "pending"
    /\ LET outcome == entry[<<r, Length[r]>>]
       IN  /\ outcome \in {"fulfilled", "rejected"}
           /\ reply' = [reply EXCEPT ![r] = IF outcome = "fulfilled" THEN "200" ELSE "500"]
    /\ UNCHANGED <<flagVars, server, entry, result>>

(* graceful-server ends the process. *)
Exit ==
    /\ server = "stopping"
    /\ server' = "down"
    /\ UNCHANGED <<flagVars, entry, result, reply>>

EntryStep(u) ==
    Running /\ (Construct(u) \/ AwaitPrevious(u) \/ StoreStep(u) \/ StoreRejects(u) \/ EndEntry(u))

EntryFault(u) == Running /\ (ConstructFails(u) \/ StoreFault(u) \/ EndFails(u))

ProxyNext ==
    \/ \E r \in Request : Receive(r) \/ (Running /\ Reply(r))
    \/ \E u \in User : EntryStep(u) \/ EntryFault(u)
    \/ Exit

ProxySpec == ProxyInit /\ [][ProxyNext]_proxyVars

(* The event loop runs what is ready, and every request to a provider, a   *)
(* store or a backup is answered or fails.                                 *)
FairSpec ==
    /\ ProxySpec
    /\ \A r \in Request : WF_proxyVars(Running /\ Reply(r))
    /\ \A u \in User : WF_proxyVars(EntryStep(u))
    /\ WF_proxyVars(Exit)

-----------------------------------------------------------------------------

(* The flag of k in the provider of u's own store, as text. *)
OwnFlag(u, k) == IF Flags[u][k] = NoFlag THEN Empty ELSE Flags[u][k].value

(* A request that met no failure, and whose providers no other command     *)
(* replaced or closed while it used them, is answered with its own flags:  *)
(* for every key that of the last entry that has one, in the type the      *)
(* provider knows it by.  Providers of requests that are over, closed or   *)
(* not, play no part.                                                      *)
RepliesAreOwn ==
    \A r \in Request :
        LET own == EntriesOf(r)
            Holders(k) == {u \in own : OwnFlag(u, k) # Empty}
        IN  reply[r] = "200" /\ own \cap (disturbed \cup faulted) = {} =>
                \A k \in Key :
                    \/ Holders(k) = {} /\ result[<<r, Length[r]>>][k] = Empty
                    \/ \E u \in Holders(k) :
                          /\ \A v \in Holders(k) : v[2] <= u[2]
                          /\ result[<<r, Length[r]>>][k] = OwnFlag(u, k)

(* Every request is answered, unless a rejection that was not awaited in   *)
(* time, of its own or of any other request, has ended the process.        *)
RequestsEnd ==
    \A r \in Request :
        reply[r] = "pending" ~> (reply[r] \in {"200", "500"} \/ server = "down")

=============================================================================
