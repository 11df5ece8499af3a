------------------------ MODULE RemoteStores_proofs ------------------------
(***************************************************************************)
(* Proofs about the stores behind remote services.  The first part is      *)
(* about SecretBackend, for any number of programs, contents, calls and    *)
(* failures; the second about the stores of feature flags (FlagStore) and  *)
(* the proxy that asks them (Proxy), for any number of requests, entries,  *)
(* keys, flags and failures.  The modules share no state.                  *)
(***************************************************************************)
EXTENDS SecretBackend, Proxy, TLAPS


Requests ==
    {"delete", "parse", "put", "createSecret", "addVersion", "addAgain", "update", "create",
     "patch"}

SecretTypeInv ==
    /\ adapter \in Adapters
    /\ secret \in Content \cup {Missing, Bare, Deleted}
    /\ stage \in [Client -> Requests \cup {"idle"}]
    /\ content \in [Client -> Content \cup {Missing}]
    /\ executed \subseteq Active
    /\ late \subseteq [call : Client \X Nat, request : Requests, content : Content \cup {Missing}]
    /\ outcome \in [Client -> {"none", "resolve", "reject"}]
    /\ calls \in [Client -> Nat]
    /\ errors \in Nat /\ timeouts \in Nat
    /\ written \subseteq Client \X Nat /\ givenUp \subseteq Client \X Nat
    /\ troubled \subseteq Client

(* A call is at a request its adapter makes, and only a deletion deletes. *)
StageOK(c) ==
    /\ stage[c] \in {"delete", "parse"} \cup DOMAIN adapter.next
    /\ stage[c] = "delete" <=> content[c] = Missing
    /\ stage[c] = "parse" => adapter.json /\ content[c] \in Texts /\ c \notin executed

(* Where a call that nothing has troubled finds the entry: what its first  *)
(* request made or met is still there.                                     *)
Undisturbed(c) ==
    /\ stage[c] \in {"addVersion", "addAgain", "patch"} => Exists
    /\ stage[c] = "createSecret" /\ c \in executed => Exists
    /\ adapter.first = "update" /\ stage[c] = "create" /\ c \notin executed => ~Exists

(* A request given up belongs to a call that is over or troubled, and      *)
(* writes what the other requests of that call write.                      *)
LateOK(r) ==
    /\ r.call[2] <= calls[r.call[1]]
    /\ r.call \in givenUp
    /\ r.request # "parse"
    /\ r.request = "delete" <=> r.content = Missing
    /\ \A s \in late : s.call = r.call => s.content = r.content
    /\ \A c \in Active : r.call = Call(c) => c \in troubled /\ r.content = content[c]

(* A call has written when its request has been executed, and otherwise    *)
(* only if one of its requests was given up.                               *)
WrittenOK(c) ==
    /\ c \in executed /\ stage[c] # "createSecret" => Call(c) \in written
    /\ Call(c) \in written =>
          Call(c) \in givenUp \/ (c \in executed /\ stage[c] # "createSecret")

SecretIInv ==
    /\ SecretTypeInv
    /\ ~adapter.soft => secret # Deleted
    /\ \A x \in written : x[2] <= calls[x[1]]
    /\ \A r \in late : LateOK(r)
    /\ \A c \in Active :
          /\ StageOK(c)
          /\ WrittenOK(c)
          /\ c \notin troubled => Undisturbed(c)

-----------------------------------------------------------------------------
(* The adapters.                                                           *)

(* What the proofs use of them. *)
LEMMA AdapterTable ==
    ASSUME adapter \in Adapters
    PROVE  /\ adapter.first \in {"put", "createSecret", "create", "update"}
           /\ adapter.first = "put" =>
                 /\ DOMAIN adapter.next = {"put"}
                 /\ adapter.next["put"] = "resolve" /\ adapter.fallback["put"] = "reject"
           /\ adapter.first = "createSecret" =>
                 /\ DOMAIN adapter.next = {"createSecret", "addVersion", "addAgain"}
                 /\ adapter.next["createSecret"] = "addVersion"
                 /\ adapter.next["addVersion"] = "resolve" /\ adapter.next["addAgain"] = "resolve"
                 /\ adapter.fallback["createSecret"] = "addAgain"
                 /\ adapter.fallback["addVersion"] = "addAgain"
                 /\ adapter.fallback["addAgain"] = "reject"
                 /\ adapter.soft = FALSE
           /\ adapter.first = "create" =>
                 /\ DOMAIN adapter.next = {"create", "patch"}
                 /\ adapter.next["create"] = "resolve" /\ adapter.next["patch"] = "resolve"
                 /\ adapter.fallback["create"] = "patch" /\ adapter.fallback["patch"] = "reject"
                 /\ adapter.soft = FALSE
           /\ adapter.first = "update" =>
                 /\ DOMAIN adapter.next = {"update", "create"}
                 /\ adapter.next["update"] = "resolve" /\ adapter.next["create"] = "resolve"
                 /\ adapter.fallback["update"] = "create" /\ adapter.fallback["create"] = "reject"
<1>1. CASE adapter \in {Etcd, KeyvAdapter, LocalForage, ParameterStore}
  BY <1>1 DEF Etcd, KeyvAdapter, LocalForage, ParameterStore, Single
<1>2. CASE adapter = Vault
  BY <1>2 DEF Vault, Single
<1>3. CASE adapter = KeyVault
  BY <1>3 DEF KeyVault, Single
<1>4. CASE adapter = Gcp
  BY <1>4 DEF Gcp
<1>5. CASE adapter = Kubernetes
  BY <1>5 DEF Kubernetes
<1>6. CASE adapter = SecretsManager
  BY <1>6 DEF SecretsManager
<1>. QED
  BY <1>1, <1>2, <1>3, <1>4, <1>5, <1>6 DEF Adapters

(* An answer leads to the end of the call, but for createSecret. *)
LEMMA AnswerLeads ==
    ASSUME SecretTypeInv, NEW c \in Active, StageOK(c), stage[c] # "parse", Advance(c, TRUE)
    PROVE  /\ stage[c] = "createSecret" =>
                 /\ stage' = [stage EXCEPT ![c] = "addVersion"] /\ outcome' = outcome
                 /\ adapter.first = "createSecret"
           /\ stage[c] # "createSecret" =>
                 /\ stage' = [stage EXCEPT ![c] = "idle"]
                 /\ outcome' = [outcome EXCEPT ![c] = "resolve"]
<1>1. /\ c \in Client /\ adapter \in Adapters
      /\ stage[c] \in {"delete"} \cup DOMAIN adapter.next
  BY DEF SecretTypeInv, Active, StageOK
<1>2. /\ After(stage[c], TRUE) = IF stage[c] = "createSecret" THEN "addVersion" ELSE "resolve"
      /\ stage[c] = "createSecret" => adapter.first = "createSecret"
  BY <1>1, AdapterTable DEF After
<1>3. outcome' = [outcome EXCEPT ![c] = @] => outcome' = outcome
  BY <1>1 DEF SecretTypeInv
<1>. QED
  BY <1>1, <1>2, <1>3 DEF Advance

(* A failure leads to the end of the call or to a further request.         *)
GoesOn(c) ==
    \/ stage[c] \in {"createSecret", "addVersion", "update"}
    \/ stage[c] = "create" /\ adapter.first = "create"

LEMMA FailureLeads ==
    ASSUME SecretTypeInv, NEW c \in Active, StageOK(c), Advance(c, FALSE)
    PROVE  /\ GoesOn(c) =>
                 \E s \in {"addAgain", "patch", "create"} \cap DOMAIN adapter.next :
                     /\ stage' = [stage EXCEPT ![c] = s] /\ outcome' = outcome
                     /\ s = "addAgain" => stage[c] \in {"createSecret", "addVersion"}
                     /\ s = "patch" => stage[c] = "create" /\ adapter.first = "create"
                     /\ s = "create" => stage[c] = "update" /\ adapter.first = "update"
           /\ ~GoesOn(c) =>
                 /\ stage' = [stage EXCEPT ![c] = "idle"]
                 /\ outcome' = [outcome EXCEPT ![c] = "reject"]
                 /\ \/ stage[c] \in {"delete", "parse", "put", "addAgain", "patch"}
                    \/ stage[c] = "create" /\ adapter.first = "update"
<1>1. /\ c \in Client /\ adapter \in Adapters
      /\ stage[c] \in {"delete", "parse"} \cup DOMAIN adapter.next
  BY DEF SecretTypeInv, Active, StageOK
<1>2. outcome' = [outcome EXCEPT ![c] = @] => outcome' = outcome
  BY <1>1 DEF SecretTypeInv
<1>3. CASE stage[c] \in {"delete", "parse"}
  <2>1. After(stage[c], FALSE) = "reject"
    BY <1>3 DEF After
  <2>. QED
    BY <1>3, <2>1 DEF Advance, GoesOn
<1>4. CASE stage[c] \in DOMAIN adapter.next
  <2>1. stage[c] \notin {"delete", "parse"}
    BY <1>1, <1>4, AdapterTable
  <2>2. After(stage[c], FALSE) = adapter.fallback[stage[c]]
    BY <2>1 DEF After
  <2>3. /\ adapter.first = "put" => stage[c] = "put" /\ After(stage[c], FALSE) = "reject"
        /\ adapter.first = "createSecret" =>
              \/ /\ stage[c] \in {"createSecret", "addVersion"}
                 /\ After(stage[c], FALSE) = "addAgain" /\ "addAgain" \in DOMAIN adapter.next
              \/ stage[c] = "addAgain" /\ After(stage[c], FALSE) = "reject"
        /\ adapter.first = "create" =>
              \/ /\ stage[c] = "create"
                 /\ After(stage[c], FALSE) = "patch" /\ "patch" \in DOMAIN adapter.next
              \/ stage[c] = "patch" /\ After(stage[c], FALSE) = "reject"
        /\ adapter.first = "update" =>
              \/ /\ stage[c] = "update"
                 /\ After(stage[c], FALSE) = "create" /\ "create" \in DOMAIN adapter.next
              \/ stage[c] = "create" /\ After(stage[c], FALSE) = "reject"
    BY <1>1, <1>4, <2>2, AdapterTable
  <2>4. adapter.first \in {"put", "createSecret", "create", "update"}
    BY <1>1, AdapterTable
  <2>5. /\ After(stage[c], FALSE) = "reject" =>
              /\ stage' = [stage EXCEPT ![c] = "idle"]
              /\ outcome' = [outcome EXCEPT ![c] = "reject"]
        /\ After(stage[c], FALSE) \in {"addAgain", "patch", "create"} =>
              stage' = [stage EXCEPT ![c] = After(stage[c], FALSE)] /\ outcome' = outcome
    BY <1>2 DEF Advance
  <2>. QED
    BY <2>3, <2>4, <2>5 DEF GoesOn
<1>. QED
  BY <1>1, <1>3, <1>4

-----------------------------------------------------------------------------
(* The invariant.                                                          *)

LEMMA InvariantInit == Init => SecretIInv
<1>1. SUFFICES ASSUME Init PROVE SecretIInv
  OBVIOUS
<1>2. /\ adapter \in Adapters
      /\ Active = {}
      /\ written = {} /\ late = {}
  BY <1>1 DEF Init, Active
<1>3. SecretTypeInv
  BY <1>1, <1>2 DEF Init, SecretTypeInv
<1>4. ~adapter.soft => secret # Deleted
  <2>1. adapter = Gcp => adapter.soft = FALSE
    BY DEF Gcp
  <2>2. secret \in Content \cup {Missing, Bare} /\ secret # Deleted
    BY <1>1, BackendAssumption DEF Init
  <2>. QED
    BY <2>2
<1>. QED
  BY <1>2, <1>3, <1>4 DEF SecretIInv

LEMMA BeginStep ==
    ASSUME SecretIInv, NEW c \in Client, NEW value \in Content \cup {Missing}, Begin(c, value)
    PROVE  SecretIInv'
<1>1. /\ SecretTypeInv /\ stage[c] = "idle" /\ c \notin Active /\ adapter \in Adapters
      /\ UNCHANGED <<adapter, secret, executed, late, errors, timeouts, written, givenUp>>
  BY DEF SecretIInv, Begin, Active, SecretTypeInv
<1>2. /\ calls' \in [Client -> Nat] /\ calls'[c] = calls[c] + 1
      /\ \A d \in Client \ {c} : calls'[d] = calls[d]
  BY <1>1 DEF Begin, SecretTypeInv
<1>3. /\ content' \in [Client -> Content \cup {Missing}] /\ content'[c] = value
      /\ \A d \in Client \ {c} : content'[d] = content[d]
  BY <1>1 DEF Begin, SecretTypeInv
<1>4. /\ stage' \in [Client -> Requests \cup {"idle"}]
      /\ stage'[c] = IF value = Missing THEN "delete"
                     ELSE IF adapter.json /\ value \in Texts THEN "parse" ELSE adapter.first
      /\ stage'[c] # "idle"
      /\ \A d \in Client \ {c} : stage'[d] = stage[d]
  BY <1>1, AdapterTable DEF Begin, SecretTypeInv, Requests
<1>5. Active' = Active \cup {c}
  BY <1>4 DEF Active
<1>6. outcome' \in [Client -> {"none", "resolve", "reject"}] /\ troubled' = troubled \ {c}
  BY DEF Begin, SecretIInv, SecretTypeInv
<1>7. SecretTypeInv'
  BY <1>1, <1>2, <1>3, <1>4, <1>5, <1>6 DEF SecretTypeInv
<1>8. \A x \in written' : x[2] <= calls'[x[1]] /\ x # Call(c)'
  <2>1. \A x \in written : x \in Client \X Nat /\ x[2] <= calls[x[1]]
    BY <1>1 DEF SecretIInv, SecretTypeInv
  <2>. QED
    BY <1>1, <1>2, <2>1 DEF SecretTypeInv, Call
<1>9. ASSUME NEW r \in late'
      PROVE  LateOK(r)'
  <2>1. /\ r \in late /\ LateOK(r)
        /\ r \in [call : Client \X Nat, request : Requests, content : Content \cup {Missing}]
    BY <1>1, <1>9 DEF SecretIInv, SecretTypeInv
  <2>2. r.call[2] <= calls'[r.call[1]] /\ r.call # Call(c)'
    BY <1>1, <1>2, <2>1 DEF SecretTypeInv, LateOK, Call
  <2>3. \A d \in Active' : r.call = Call(d)' => d \in troubled' /\ r.content = content'[d]
    <3>1. SUFFICES ASSUME NEW d \in Active', r.call = Call(d)'
                   PROVE  d \in troubled' /\ r.content = content'[d]
      OBVIOUS
    <3>2. d # c /\ d \in Active
      BY <1>5, <2>2, <3>1 DEF Call
    <3>3. r.call = Call(d) /\ d \in Client
      BY <1>2, <3>1, <3>2 DEF Call, Active
    <3>. QED
      BY <1>3, <1>6, <2>1, <3>2, <3>3 DEF LateOK
  <2>. QED
    BY <1>1, <2>1, <2>2, <2>3 DEF LateOK
<1>10. ASSUME NEW d \in Active'
       PROVE  StageOK(d)' /\ WrittenOK(d)' /\ (d \notin troubled' => Undisturbed(d)')
  <2>1. CASE d = c
    <3>1. c \notin executed'
      BY <1>1 DEF SecretTypeInv
    <3>2. StageOK(c)'
      <4>1. adapter.first \notin {"delete", "parse"} /\ adapter.first \in DOMAIN adapter.next
        BY <1>1, AdapterTable
      <4>2. value \in Texts => value # Missing
        BY BackendAssumption
      <4>. QED
        BY <1>1, <1>3, <1>4, <3>1, <4>1, <4>2 DEF StageOK
    <3>3. WrittenOK(c)'
      BY <1>8, <3>1 DEF WrittenOK
    <3>4. Undisturbed(c)'
      <4>1. adapter.first \notin {"addVersion", "addAgain", "patch"}
        BY <1>1, AdapterTable
      <4>. QED
        BY <1>1, <1>4, <3>1, <4>1 DEF Undisturbed
    <3>. QED
      BY <2>1, <3>2, <3>3, <3>4
  <2>2. CASE d # c
    <3>1. /\ d \in Active /\ d \in Client /\ StageOK(d) /\ WrittenOK(d)
          /\ d \notin troubled => Undisturbed(d)
      BY <1>5, <1>10, <2>2 DEF SecretIInv, Active
    <3>2. /\ calls'[d] = calls[d] /\ content'[d] = content[d] /\ stage'[d] = stage[d]
          /\ d \in troubled' <=> d \in troubled
      BY <1>2, <1>3, <1>4, <1>6, <2>2, <3>1
    <3>. QED
      BY <1>1, <3>1, <3>2 DEF StageOK, WrittenOK, Undisturbed, Exists, Call
  <2>. QED
    BY <2>1, <2>2
<1>. QED
  BY <1>1, <1>7, <1>8, <1>9, <1>10 DEF SecretIInv

(* A request that is refused, fails or is given up. *)
LEMMA FailureStep ==
    ASSUME SecretIInv, NEW c \in Active, Advance(c, FALSE),
           UNCHANGED <<adapter, secret, content, calls, written>>,
           executed' = executed \ {c}, c \in executed => Call(c) \in givenUp',
           givenUp' \in {givenUp, givenUp \cup {Call(c)}},
           troubled' \in {troubled, troubled \cup {c}},
           \/ late' = late
           \/ /\ late' = late \cup {[call |-> Call(c), request |-> stage[c], content |-> content[c]]}
              /\ c \in troubled' /\ Call(c) \in givenUp' /\ stage[c] # "parse",
           c \notin troubled' => c \notin executed /\ Refused(stage[c]),
           errors' \in Nat, timeouts' \in Nat
    PROVE  SecretIInv'
<1>. DEFINE request == [call |-> Call(c), request |-> stage[c], content |-> content[c]]
<1>1. /\ SecretTypeInv /\ c \in Client /\ StageOK(c) /\ WrittenOK(c) /\ adapter \in Adapters
      /\ c \notin troubled => Undisturbed(c)
  BY DEF SecretIInv, SecretTypeInv, Active
<1>2. /\ stage' \in [Client -> Requests \cup {"idle"}]
      /\ \A d \in Client \ {c} : stage'[d] = stage[d]
      /\ outcome' \in [Client -> {"none", "resolve", "reject"}]
  <2>1. CASE GoesOn(c)
    <3>1. \E s \in Requests : stage' = [stage EXCEPT ![c] = s] /\ outcome' = outcome
      BY <1>1, <2>1, FailureLeads DEF Requests
    <3>. QED
      BY <1>1, <3>1 DEF SecretTypeInv
  <2>2. CASE ~GoesOn(c)
    <3>1. /\ stage' = [stage EXCEPT ![c] = "idle"]
          /\ outcome' = [outcome EXCEPT ![c] = "reject"]
      BY <1>1, <2>2, FailureLeads
    <3>. QED
      BY <1>1, <3>1 DEF SecretTypeInv
  <2>. QED
    BY <2>1, <2>2
<1>3. Active' \subseteq Active /\ Active \ {c} \subseteq Active'
  BY <1>2 DEF Active
<1>4. Call(c)' = Call(c) /\ Call(c) \in Client \X Nat
  BY <1>1 DEF Call, SecretTypeInv
<1>5. SecretTypeInv'
  <2>1. late' \subseteq [call : Client \X Nat, request : Requests, content : Content \cup {Missing}]
    <3>1. late \subseteq [call : Client \X Nat, request : Requests, content : Content \cup {Missing}]
      BY <1>1 DEF SecretTypeInv
    <3>2. stage[c] \in Requests /\ content[c] \in Content \cup {Missing}
      BY <1>1 DEF SecretTypeInv, Active
    <3>. QED
      BY <1>4, <3>1, <3>2
  <2>. QED
    BY <1>1, <1>2, <1>3, <1>4, <2>1 DEF SecretTypeInv
<1>6. ASSUME NEW r \in late'
      PROVE  LateOK(r)'
  <2>1. /\ request.call = Call(c) /\ request.request = stage[c] /\ request.content = content[c]
        /\ r \in late \/ r = request
        /\ \A s \in late' : s \in late \/ s = request
    OBVIOUS
  <2>2. CASE r \in late
    <3>1. LateOK(r)
      BY <2>2 DEF SecretIInv
    <3>2. \A s \in late' : s.call = r.call => s.content = r.content
      BY <2>1, <3>1 DEF LateOK
    <3>3. \A d \in Active' : r.call = Call(d)' => d \in troubled' /\ r.content = content'[d]
      BY <1>3, <3>1 DEF LateOK, Call
    <3>. QED
      BY <3>1, <3>2, <3>3 DEF LateOK
  <2>3. CASE r = request /\ r \notin late
    <3>1. c \in troubled' /\ Call(c) \in givenUp' /\ stage[c] # "parse"
      BY <2>3
    <3>2. \A s \in late' : s.call = r.call => s.content = r.content
      BY <2>1, <2>3 DEF SecretIInv, LateOK
    <3>3. \A d \in Active' : r.call = Call(d)' => d \in troubled' /\ r.content = content'[d]
      BY <2>1, <2>3, <3>1 DEF Call
    <3>4. r.call[2] <= calls'[r.call[1]]
      BY <1>1, <2>1, <2>3 DEF Call, SecretTypeInv
    <3>5. r.request = "delete" <=> r.content = Missing
      BY <1>1, <2>1, <2>3 DEF StageOK
    <3>. QED
      BY <2>1, <2>3, <3>1, <3>2, <3>3, <3>4, <3>5 DEF LateOK
  <2>. QED
    BY <2>1, <2>2, <2>3
<1>7. ASSUME NEW d \in Active'
      PROVE  StageOK(d)' /\ WrittenOK(d)' /\ (d \notin troubled' => Undisturbed(d)')
  <2>1. CASE d = c
    <3>1. PICK s \in {"addAgain", "patch", "create"} \cap DOMAIN adapter.next :
             /\ stage' = [stage EXCEPT ![c] = s]
             /\ s = "addAgain" => stage[c] \in {"createSecret", "addVersion"}
             /\ s = "patch" => stage[c] = "create" /\ adapter.first = "create"
             /\ s = "create" => stage[c] = "update" /\ adapter.first = "update"
             /\ GoesOn(c)
      BY <1>1, <1>7, <2>1, FailureLeads DEF Active, SecretTypeInv
    <3>2. stage'[c] = s /\ c \notin executed'
      BY <1>1, <3>1 DEF SecretTypeInv
    <3>3. StageOK(c)'
      BY <1>1, <3>1, <3>2 DEF StageOK, GoesOn
    <3>4. WrittenOK(c)'
      BY <1>1, <1>4, <3>2 DEF WrittenOK
    <3>5. ASSUME c \notin troubled' PROVE Undisturbed(c)'
      <4>1. Refused(stage[c]) /\ Undisturbed(c) /\ c \notin executed
        BY <1>1, <3>5
      <4>2. secret \in Content \cup {Missing, Bare, Deleted} /\ (~adapter.soft => secret # Deleted)
        BY DEF SecretIInv, SecretTypeInv
      <4>3. CASE s = "addAgain"
        <5>1. stage[c] = "createSecret" => secret # Missing
          BY <4>1 DEF Refused, Accepted
        <5>2. adapter.first = "createSecret"
          BY <1>1, <3>1, <4>3, AdapterTable
        <5>3. adapter.soft = FALSE
          BY <1>1, <5>2, AdapterTable
        <5>. QED
          BY <3>1, <3>2, <4>1, <4>2, <4>3, <5>1, <5>3 DEF Undisturbed, Exists
      <4>4. CASE s = "patch"
        <5>1. secret # Missing
          BY <3>1, <4>1, <4>4 DEF Refused, Accepted
        <5>2. adapter.soft = FALSE
          BY <1>1, <3>1, <4>4, AdapterTable
        <5>. QED
          BY <3>2, <4>2, <4>4, <5>1, <5>2 DEF Undisturbed, Exists
      <4>5. CASE s = "create"
        <5>1. ~Exists
          BY <3>1, <4>1, <4>5 DEF Refused, Accepted
        <5>. QED
          BY <3>2, <4>5, <5>1 DEF Undisturbed, Exists
      <4>. QED
        BY <3>1, <4>3, <4>4, <4>5
    <3>. QED
      BY <2>1, <3>3, <3>4, <3>5
  <2>2. CASE d # c
    <3>1. /\ d \in Active /\ d \in Client /\ StageOK(d) /\ WrittenOK(d)
          /\ d \notin troubled => Undisturbed(d)
      BY <1>3, <1>7 DEF SecretIInv, Active
    <3>2. /\ stage'[d] = stage[d]
          /\ d \in troubled' <=> d \in troubled
          /\ d \in executed' <=> d \in executed
          /\ Call(d)' = Call(d)
      BY <1>2, <2>2, <3>1 DEF Call
    <3>. QED
      BY <3>1, <3>2 DEF StageOK, WrittenOK, Undisturbed, Exists
  <2>. QED
    BY <2>1, <2>2
<1>. QED
  BY <1>5, <1>6, <1>7 DEF SecretIInv

LEMMA AnswerStep == ASSUME SecretIInv, NEW c \in Client, Answer(c) PROVE SecretIInv'
<1>1. /\ SecretTypeInv /\ c \in executed /\ c \in Active /\ StageOK(c) /\ WrittenOK(c)
      /\ stage[c] # "parse" /\ adapter \in Adapters
      /\ c \notin troubled => Undisturbed(c)
  BY DEF SecretIInv, SecretTypeInv, Answer, StageOK
<1>2. /\ executed' = executed \ {c}
      /\ UNCHANGED <<adapter, secret, content, late, counters, written, givenUp, troubled>>
  BY DEF Answer
<1>3. /\ stage[c] = "createSecret" =>
            /\ stage' = [stage EXCEPT ![c] = "addVersion"] /\ outcome' = outcome
            /\ adapter.first = "createSecret"
      /\ stage[c] # "createSecret" =>
            /\ stage' = [stage EXCEPT ![c] = "idle"]
            /\ outcome' = [outcome EXCEPT ![c] = "resolve"]
  BY <1>1, AnswerLeads DEF Answer
<1>4. /\ stage' \in [Client -> Requests \cup {"idle"}]
      /\ \A d \in Client \ {c} : stage'[d] = stage[d]
      /\ outcome' \in [Client -> {"none", "resolve", "reject"}]
  BY <1>1, <1>3 DEF SecretTypeInv, Requests
<1>5. Active' \subseteq Active /\ Active \ {c} \subseteq Active'
  BY <1>1, <1>4 DEF Active
<1>6. SecretTypeInv'
  BY <1>1, <1>2, <1>4, <1>5 DEF SecretTypeInv, counters
<1>7. \A r \in late' : LateOK(r)'
  BY <1>2, <1>5 DEF SecretIInv, LateOK, Call, counters
<1>8. ASSUME NEW d \in Active'
      PROVE  StageOK(d)' /\ WrittenOK(d)' /\ (d \notin troubled' => Undisturbed(d)')
  <2>1. CASE d = c
    <3>1. stage[c] = "createSecret" /\ stage'[c] = "addVersion" /\ c \notin executed'
      BY <1>1, <1>2, <1>3, <1>8, <2>1 DEF Active, SecretTypeInv
    <3>2. "addVersion" \in DOMAIN adapter.next
      BY <1>1, <1>3, <3>1, AdapterTable
    <3>. QED
      BY <1>1, <1>2, <2>1, <3>1, <3>2
      DEF StageOK, WrittenOK, Undisturbed, Exists, Call, counters
  <2>2. CASE d # c
    <3>1. /\ d \in Active /\ d \in Client /\ StageOK(d) /\ WrittenOK(d)
          /\ d \notin troubled => Undisturbed(d)
      BY <1>5, <1>8 DEF SecretIInv, Active
    <3>2. /\ stage'[d] = stage[d]
          /\ d \in executed' <=> d \in executed
      BY <1>2, <1>4, <2>2, <3>1
    <3>. QED
      BY <1>2, <3>1, <3>2 DEF StageOK, WrittenOK, Undisturbed, Exists, Call, counters
  <2>. QED
    BY <2>1, <2>2
<1>. QED
  BY <1>2, <1>6, <1>7, <1>8 DEF SecretIInv, counters

(* What a request that is executed does to the entry. *)
LEMMA ExecutesFacts ==
    ASSUME SecretTypeInv, NEW call \in Client \X Nat, NEW request \in Requests,
           NEW value \in Content \cup {Missing}, Executes(call, request, value),
           request = "delete" <=> value = Missing
    PROVE  /\ secret' \in Content \cup {Missing, Bare, Deleted}
           /\ ~adapter.soft => secret' # Deleted
           /\ request # "parse"
           /\ request = "createSecret" => ~Exists /\ secret = Missing /\ secret' = Bare /\ written' = written
           /\ request # "createSecret" =>
                 /\ written' = written \cup {call}
                 /\ Readable' = value
                 /\ value # Missing => secret' = value
           /\ troubled' = troubled \cup {d \in Active : Call(d) # call}
<1>1. /\ Accepted(request) /\ secret' = Result(request, value)
      /\ written' = written \cup (IF request = "createSecret" THEN {} ELSE {call})
      /\ troubled' = troubled \cup {d \in Active : Call(d) # call}
  BY DEF Executes
<1>2. request # "parse"
  BY <1>1 DEF Accepted
<1>3. CASE request = "createSecret"
  BY <1>1, <1>2, <1>3, BackendAssumption DEF Accepted, Result, Exists
<1>4. CASE request = "delete"
  BY <1>1, <1>2, <1>4, BackendAssumption DEF Result, Readable
<1>5. CASE request \notin {"createSecret", "delete"}
  <2>1. secret' = value /\ value \in Content
    BY <1>1, <1>5 DEF Result
  <2>. QED
    BY <1>1, <1>2, <1>5, <2>1, BackendAssumption DEF Readable
<1>. QED
  BY <1>3, <1>4, <1>5

LEMMA ExecuteStep == ASSUME SecretIInv, NEW c \in Client, Execute(c) PROVE SecretIInv'
<1>1. /\ SecretTypeInv /\ c \in Active \ executed /\ StageOK(c) /\ WrittenOK(c)
      /\ c \notin troubled => Undisturbed(c)
      /\ Executes(Call(c), stage[c], content[c])
      /\ executed' = executed \cup {c}
      /\ UNCHANGED <<adapter, stage, content, late, outcome, counters, givenUp>>
  BY DEF SecretIInv, Execute
<1>2. /\ stage[c] \in Requests /\ content[c] \in Content \cup {Missing}
      /\ Call(c) \in Client \X Nat
      /\ stage[c] = "delete" <=> content[c] = Missing
  BY <1>1 DEF SecretTypeInv, StageOK, Active, Call
<1>3. /\ secret' \in Content \cup {Missing, Bare, Deleted}
      /\ ~adapter.soft => secret' # Deleted
      /\ stage[c] # "parse"
      /\ stage[c] = "createSecret" => secret' = Bare /\ written' = written
      /\ stage[c] # "createSecret" =>
            /\ written' = written \cup {Call(c)}
            /\ content[c] # Missing => secret' = content[c]
      /\ troubled' = troubled \cup {d \in Active : Call(d) # Call(c)}
  BY <1>1, <1>2, ExecutesFacts
<1>4. Active' = Active /\ Active \subseteq Client /\ \A d \in Client : Call(d)' = Call(d)
  BY <1>1 DEF Active, Call, counters
<1>5. SecretTypeInv'
  BY <1>1, <1>2, <1>3, <1>4 DEF SecretTypeInv, counters
<1>6. ASSUME NEW x \in written'
      PROVE  x[2] <= calls'[x[1]]
  <2>1. CASE x \in written
    BY <1>1, <2>1 DEF SecretIInv, counters
  <2>2. CASE x = Call(c)
    BY <1>1, <2>2 DEF Call, counters, SecretTypeInv
  <2>. QED
    BY <1>3, <2>1, <2>2
<1>7. \A r \in late' : LateOK(r)'
  BY <1>1, <1>3, <1>4 DEF SecretIInv, LateOK, Call, counters
<1>8. ASSUME NEW d \in Active'
      PROVE  StageOK(d)' /\ WrittenOK(d)' /\ (d \notin troubled' => Undisturbed(d)')
  <2>1. CASE d = c
    <3>1. StageOK(c)' /\ WrittenOK(c)'
      BY <1>1, <1>3, <1>4 DEF StageOK, WrittenOK
    <3>2. Undisturbed(c)'
      BY <1>1, <1>2, <1>3 DEF Undisturbed, Exists
    <3>. QED
      BY <2>1, <3>1, <3>2
  <2>2. CASE d # c
    <3>1. d \in Active /\ d \in Client /\ StageOK(d) /\ WrittenOK(d)
      BY <1>4, <1>8 DEF SecretIInv
    <3>2. Call(d) # Call(c) /\ d \in troubled'
      BY <1>3, <2>2, <3>1 DEF Call
    <3>. QED
      BY <1>1, <1>3, <1>4, <2>2, <3>1, <3>2 DEF StageOK, WrittenOK
  <2>. QED
    BY <2>1, <2>2
<1>. QED
  BY <1>1, <1>3, <1>5, <1>6, <1>7, <1>8 DEF SecretIInv

LEMMA ExecuteLateStep == ASSUME SecretIInv, NEW r \in late, ExecuteLate(r) PROVE SecretIInv'
<1>1. /\ SecretTypeInv /\ LateOK(r)
      /\ r \in [call : Client \X Nat, request : Requests, content : Content \cup {Missing}]
      /\ Executes(r.call, r.request, r.content)
      /\ late' = late \ {r}
      /\ UNCHANGED <<adapter, stage, content, executed, outcome, counters, givenUp>>
  BY DEF SecretIInv, ExecuteLate, SecretTypeInv
<1>2. r.request = "delete" <=> r.content = Missing
  BY <1>1 DEF LateOK
<1>3. /\ secret' \in Content \cup {Missing, Bare, Deleted}
      /\ ~adapter.soft => secret' # Deleted
      /\ written' \in {written, written \cup {r.call}}
      /\ troubled' = troubled \cup {d \in Active : Call(d) # r.call}
  BY <1>1, <1>2, ExecutesFacts
<1>4. Active' = Active /\ Active \subseteq Client /\ \A d \in Client : Call(d)' = Call(d)
  BY <1>1 DEF Active, Call, counters
<1>5. SecretTypeInv'
  BY <1>1, <1>3, <1>4 DEF SecretTypeInv, counters
<1>6. \A x \in written' : x[2] <= calls'[x[1]]
  BY <1>1, <1>3 DEF SecretIInv, LateOK, counters
<1>7. \A s \in late' : LateOK(s)'
  BY <1>1, <1>3, <1>4 DEF SecretIInv, LateOK, Call, counters
<1>8. ASSUME NEW d \in Active'
      PROVE  StageOK(d)' /\ WrittenOK(d)' /\ d \in troubled'
  <2>1. d \in Active /\ d \in Client /\ StageOK(d) /\ WrittenOK(d)
    BY <1>4, <1>8 DEF SecretIInv
  <2>2. d \in troubled'
    BY <1>1, <1>3, <2>1 DEF LateOK
  <2>. QED
    BY <1>1, <1>3, <1>4, <2>1, <2>2 DEF StageOK, WrittenOK, LateOK
<1>. QED
  BY <1>1, <1>3, <1>5, <1>6, <1>7, <1>8 DEF SecretIInv

LEMMA InvariantStep == SecretIInv /\ [Next]_vars => SecretIInv'
<1>1. SUFFICES ASSUME SecretIInv, [Next]_vars PROVE SecretIInv'
  OBVIOUS
<1>. USE <1>1
<1>2. SecretTypeInv
  BY DEF SecretIInv
<1>3. ASSUME NEW c \in Client, Refuse(c)
      PROVE  SecretIInv'
  BY <1>2, <1>3, FailureStep DEF Refuse, counters, SecretTypeInv
<1>4. ASSUME NEW c \in Client, RequestFails(c)
      PROVE  SecretIInv'
  <2>1. /\ c \in Active /\ c \notin executed /\ Advance(c, FALSE)
        /\ UNCHANGED <<adapter, secret, content, calls, written>>
        /\ executed' = executed /\ givenUp' = givenUp /\ late' = late
        /\ troubled' = troubled \cup {c}
        /\ errors' = errors + 1 /\ timeouts' = timeouts
    BY <1>4 DEF RequestFails
  <2>2. executed' = executed \ {c}
    BY <2>1
  <2>3. errors' \in Nat /\ timeouts' \in Nat
    BY <1>2, <2>1 DEF SecretTypeInv
  <2>. QED
    BY <2>1, <2>2, <2>3, FailureStep
<1>5. ASSUME NEW c \in Client, RequestTimesOut(c)
      PROVE  SecretIInv'
  <2>1. /\ c \in Active /\ stage[c] # "parse" /\ Advance(c, FALSE)
        /\ UNCHANGED <<adapter, secret, content, calls, written>>
        /\ executed' = executed \ {c}
        /\ givenUp' = givenUp \cup {Call(c)} /\ troubled' = troubled \cup {c}
        /\ errors' = errors /\ timeouts' = timeouts + 1
    BY <1>5 DEF RequestTimesOut
  <2>2. \/ late' = late
        \/ late' = late \cup {[call |-> Call(c), request |-> stage[c], content |-> content[c]]}
    BY <1>5 DEF RequestTimesOut
  <2>3. errors' \in Nat /\ timeouts' \in Nat
    BY <1>2, <2>1 DEF SecretTypeInv
  <2>. QED
    BY <2>1, <2>2, <2>3, FailureStep
<1>6. ASSUME NEW c \in Client, NEW value \in Content \cup {Missing}, Begin(c, value)
      PROVE  SecretIInv'
  BY <1>6, BeginStep
<1>7. ASSUME NEW c \in Client, Execute(c) \/ Answer(c)
      PROVE  SecretIInv'
  BY <1>7, ExecuteStep, AnswerStep
<1>8. ASSUME NEW r \in late, ExecuteLate(r)
      PROVE  SecretIInv'
  BY <1>8, ExecuteLateStep
<1>9. CASE RecoveryEnds
  <2>1. SecretTypeInv'
    BY <1>2, <1>9 DEF RecoveryEnds, SecretTypeInv, counters, Active
  <2>2. \A r \in late' : LateOK(r)'
    BY <1>9 DEF RecoveryEnds, SecretIInv, LateOK, Call, Active, counters
  <2>3. \A c \in Active' : StageOK(c)' /\ WrittenOK(c)' /\ (c \notin troubled' => Undisturbed(c)')
    BY <1>9, BackendAssumption
    DEF RecoveryEnds, SecretIInv, StageOK, WrittenOK, Undisturbed, Exists, Call, Active, counters
  <2>4. /\ ~adapter'.soft => secret' # Deleted
        /\ \A x \in written' : x[2] <= calls'[x[1]]
    BY <1>9, BackendAssumption DEF RecoveryEnds, SecretIInv, counters
  <2>. QED
    BY <2>1, <2>2, <2>3, <2>4 DEF SecretIInv
<1>10. CASE UNCHANGED vars
  BY <1>10
  DEF vars, counters, SecretIInv, SecretTypeInv, LateOK, StageOK, WrittenOK, Undisturbed, Exists, Call, Active
<1>. QED
  BY <1>3, <1>4, <1>5, <1>6, <1>7, <1>8, <1>9, <1>10 DEF Next

LEMMA Invariance == Spec => []SecretIInv
BY InvariantInit, InvariantStep, PTL DEF Spec

-----------------------------------------------------------------------------
(* Rejections.                                                             *)

(* A call that is refused, untroubled, and has no further request.         *)
LEMMA RefusedForGood ==
    ASSUME SecretIInv, NEW c \in Active, c \notin troubled, c \notin executed, Refused(stage[c]), ~GoesOn(c)
    PROVE  \/ content[c] = Missing \/ secret = Deleted
           \/ adapter.json /\ content[c] \in Texts
<1>1. SecretTypeInv /\ StageOK(c) /\ Undisturbed(c) /\ adapter \in Adapters
  BY DEF SecretIInv, SecretTypeInv
<1>2. CASE stage[c] \in {"delete", "parse"}
  BY <1>1, <1>2 DEF StageOK
<1>3. CASE stage[c] = "put"
  BY <1>3 DEF Refused, Accepted
<1>4. CASE stage[c] \in {"addAgain", "patch"}
  BY <1>1, <1>4 DEF Refused, Accepted, Undisturbed
<1>5. CASE stage[c] = "create"
  <2>1. adapter.first = "update"
    BY <1>1, <1>5, AdapterTable DEF StageOK, GoesOn
  <2>2. secret # Missing /\ ~Exists
    BY <1>1, <1>5, <2>1 DEF Refused, Accepted, Undisturbed
  <2>. QED
    BY <1>1, <2>2 DEF Exists, SecretTypeInv
<1>. QED
  BY <1>1, <1>2, <1>3, <1>4, <1>5, AdapterTable DEF StageOK, GoesOn

(* An upsert is only rejected after an error, for a name that is not free  *)
(* yet, for a value that does not parse, or because another program was at *)
(* the entry: its two requests cover whatever state the entry is in.       *)
THEOREM UpsertsAreCovered == Spec => UpsertsComeThrough
<1>1. ASSUME SecretIInv, [Next]_vars, NEW c \in Client,
             outcome[c] # "reject", outcome'[c] = "reject", c \notin troubled'
      PROVE  \/ content[c] = Missing \/ secret = Deleted
             \/ adapter.json /\ content[c] \in Texts
  <2>. USE <1>1
  <2>1. SecretTypeInv
    BY DEF SecretIInv
  <2>2. ASSUME NEW d \in Client, NEW value \in Content \cup {Missing}, Begin(d, value)
        PROVE  FALSE
    BY <2>1, <2>2 DEF Begin, SecretTypeInv
  <2>3. ASSUME NEW d \in Client, Execute(d)
        PROVE  FALSE
    BY <2>3 DEF Execute
  <2>4. ASSUME NEW d \in Client, Answer(d)
        PROVE  FALSE
    <3>1. d \in Active /\ StageOK(d) /\ stage[d] # "parse" /\ Advance(d, TRUE)
      BY <2>1, <2>4 DEF SecretIInv, SecretTypeInv, StageOK, Answer
    <3>. QED
      BY <2>1, <3>1, AnswerLeads DEF SecretTypeInv
  <2>5. ASSUME NEW d \in Active, Advance(d, FALSE)
        PROVE  c = d /\ ~GoesOn(d)
    <3>1. StageOK(d) /\ d \in Client
      BY DEF SecretIInv, Active
    <3>2. CASE GoesOn(d)
      BY <2>1, <2>5, <3>1, <3>2, FailureLeads
    <3>3. CASE ~GoesOn(d)
      BY <2>1, <2>5, <3>1, <3>3, FailureLeads DEF SecretTypeInv
    <3>. QED
      BY <3>2, <3>3
  <2>6. ASSUME NEW d \in Client, Refuse(d)
        PROVE  \/ content[c] = Missing \/ secret = Deleted
               \/ adapter.json /\ content[c] \in Texts
    <3>1. d \in Active \ executed /\ Refused(stage[d]) /\ Advance(d, FALSE) /\ troubled' = troubled
      BY <2>6 DEF Refuse
    <3>2. c = d /\ ~GoesOn(d)
      BY <2>5, <3>1
    <3>. QED
      BY <3>1, <3>2, RefusedForGood
  <2>7. ASSUME NEW d \in Client, RequestFails(d) \/ RequestTimesOut(d)
        PROVE  FALSE
    <3>1. d \in Active /\ Advance(d, FALSE) /\ d \in troubled'
      BY <2>7 DEF RequestFails, RequestTimesOut
    <3>. QED
      BY <2>5, <3>1
  <2>8. ASSUME NEW r \in late, ExecuteLate(r)
        PROVE  FALSE
    BY <2>8 DEF ExecuteLate
  <2>9. CASE RecoveryEnds \/ UNCHANGED vars
    BY <2>9 DEF RecoveryEnds, vars
  <2>. QED
    BY <2>2, <2>3, <2>4, <2>6, <2>7, <2>8, <2>9 DEF Next
<1>2. SecretIInv /\ [Next]_vars =>
        [\A c \in Client :
            outcome[c] # "reject" /\ outcome'[c] = "reject" =>
                \/ c \in troubled'
                \/ content[c] = Missing \/ secret = Deleted
                \/ adapter.json /\ content[c] \in Texts]_vars
  BY <1>1
<1>. QED
  BY <1>2, Invariance, PTL DEF Spec, UpsertsComeThrough

-----------------------------------------------------------------------------
(* The refinement of BackendEntry.                                         *)

OrphanRequests ==
    {x \in late : /\ x.request # "createSecret" /\ x.call \notin written
                  /\ (x.call = Call(x.call[1]) => x.call[1] \notin Active)}

Orphans == {<<r.call, r.content>> : r \in OrphanRequests}

Job(c) ==
    IF c \in Active
    THEN [content |-> content[c], taken |-> Call(c) \in written, active |-> TRUE]
    ELSE [content |-> Missing, taken |-> FALSE, active |-> FALSE]

(* The mapped variables, by the names above. *)
LEMMA EntryStutters ==
    ASSUME Readable' = Readable, \A c \in Client : Job(c)' = Job(c), outcome' = outcome,
           OrphanRequests' = OrphanRequests
    PROVE  UNCHANGED Abstract!entryVars
<1>1. Orphans' = Orphans
  BY DEF Orphans
<1>. QED
  BY <1>1 DEF Abstract!entryVars, Job, Orphans, OrphanRequests

LEMMA LateFacts ==
    ASSUME SecretIInv, NEW x \in late
    PROVE  /\ x \in [call : Client \X Nat, request : Requests, content : Content \cup {Missing}]
           /\ x.call[1] \in Client /\ x.call = <<x.call[1], x.call[2]>>
           /\ LateOK(x)
BY DEF SecretIInv, SecretTypeInv

LEMMA BeginIsAsk ==
    ASSUME SecretIInv, NEW c \in Client, NEW value \in Content \cup {Missing}, Begin(c, value)
    PROVE  Abstract!EntryNext
<1>1. /\ SecretTypeInv /\ stage[c] = "idle" /\ c \notin Active /\ adapter \in Adapters
      /\ UNCHANGED <<adapter, secret, late, written>>
      /\ outcome' = [outcome EXCEPT ![c] = "none"]
  BY DEF SecretIInv, Begin, Active, SecretTypeInv
<1>2. /\ calls'[c] = calls[c] + 1 /\ content'[c] = value /\ stage'[c] # "idle"
      /\ \A d \in Client \ {c} :
            calls'[d] = calls[d] /\ content'[d] = content[d] /\ stage'[d] = stage[d]
  BY <1>1, AdapterTable DEF Begin, SecretTypeInv
<1>3. Active' = Active \cup {c}
  BY <1>2 DEF Active
<1>4. <<c, calls[c] + 1>> \notin written /\ \A x \in late : x.call # <<c, calls[c] + 1>>
  <2>1. calls[c] \in Nat
    BY <1>1 DEF SecretTypeInv
  <2>2. \A x \in late : x.call[2] <= calls[x.call[1]]
    BY LateFacts DEF LateOK
  <2>. QED
    BY <2>1, <2>2 DEF SecretIInv
<1>5. /\ Job(c) = [content |-> Missing, taken |-> FALSE, active |-> FALSE]
      /\ Job(c)' = [content |-> value, taken |-> FALSE, active |-> TRUE]
      /\ \A d \in Client \ {c} : Job(d)' = Job(d)
  <2>1. Call(c)' = <<c, calls[c] + 1>> /\ c \in Active'
    BY <1>2, <1>3 DEF Call
  <2>2. Job(c)' = [content |-> value, taken |-> FALSE, active |-> TRUE]
    <3>1. content'[c] = value /\ (Call(c)' \in written') = FALSE
      BY <1>1, <1>2, <1>4, <2>1
    <3>. QED
      BY <2>1, <3>1 DEF Job
  <2>3. ASSUME NEW d \in Client \ {c} PROVE Job(d)' = Job(d)
    BY <1>1, <1>2, <1>3 DEF Job, Call
  <2>. QED
    BY <1>1, <2>2, <2>3 DEF Job
<1>6. OrphanRequests' = OrphanRequests
  <2>1. ASSUME NEW x \in late
        PROVE  (x.call = Call(x.call[1])' => x.call[1] \notin Active')
                   <=> (x.call = Call(x.call[1]) => x.call[1] \notin Active)
    <3>1. x.call[1] \in Client
      BY LateFacts
    <3>2. CASE x.call[1] = c
      BY <1>1, <1>2, <1>4, <3>2 DEF Call
    <3>3. CASE x.call[1] # c
      BY <1>2, <1>3, <3>1, <3>3 DEF Call
    <3>. QED
      BY <3>2, <3>3
  <2>. QED
    BY <1>1, <2>1 DEF OrphanRequests
<1>7. Orphans' = Orphans
  BY <1>6 DEF Orphans
<1>8. Abstract!Ask(c, value)
  BY <1>1, <1>5, <1>7 DEF Abstract!Ask, Job, Orphans, OrphanRequests, Readable
<1>. QED
  BY <1>8 DEF Abstract!EntryNext

LEMMA ExecuteIsTake ==
    ASSUME SecretIInv, NEW c \in Client, Execute(c)
    PROVE  WritesAgain \/ Abstract!EntryNext \/ UNCHANGED Abstract!entryVars
<1>1. /\ SecretTypeInv /\ c \in Active \ executed /\ StageOK(c) /\ WrittenOK(c)
      /\ Executes(Call(c), stage[c], content[c])
      /\ executed' = executed \cup {c}
      /\ UNCHANGED <<stage, content, late, outcome, calls>>
  BY DEF SecretIInv, Execute, counters
<1>2. /\ stage[c] \in Requests /\ content[c] \in Content \cup {Missing}
      /\ Call(c) \in Client \X Nat
      /\ stage[c] = "delete" <=> content[c] = Missing
  BY <1>1 DEF SecretTypeInv, StageOK, Active, Call
<1>3. /\ stage[c] = "createSecret" => secret = Missing /\ secret' = Bare /\ written' = written
      /\ stage[c] # "createSecret" => written' = written \cup {Call(c)} /\ Readable' = content[c]
  BY <1>1, <1>2, ExecutesFacts
<1>4. Active' = Active /\ \A d \in Client : Call(d)' = Call(d)
  BY <1>1 DEF Active, Call
<1>5. CASE stage[c] = "createSecret"
  <2>1. Readable' = Readable
    BY <1>3, <1>5, BackendAssumption DEF Readable
  <2>2. \A d \in Client : Job(d)' = Job(d)
    <3>1. ASSUME NEW d \in Client PROVE Job(d)' = Job(d)
      BY <1>1, <1>3, <1>4, <1>5 DEF Job
    <3>. QED
      BY <3>1
  <2>3. OrphanRequests' = OrphanRequests
    BY <1>1, <1>3, <1>4, <1>5 DEF OrphanRequests, Call
  <2>. QED
    BY <1>1, <2>1, <2>2, <2>3, EntryStutters
<1>6. CASE stage[c] # "createSecret" /\ Call(c) \in written
  BY <1>1, <1>6 DEF WrittenOK, WritesAgain
<1>7. CASE stage[c] # "createSecret" /\ Call(c) \notin written
  <2>1. /\ Job(c) = [content |-> content[c], taken |-> FALSE, active |-> TRUE]
        /\ Job(c)' = [content |-> content[c], taken |-> TRUE, active |-> TRUE]
    <3>1. /\ content'[c] = content[c] /\ c \in Active /\ c \in Active'
          /\ (Call(c)' \in written') = TRUE /\ (Call(c) \in written) = FALSE
      BY <1>1, <1>3, <1>4, <1>7
    <3>. QED
      BY <3>1 DEF Job
  <2>2. ASSUME NEW d \in Client \ {c} PROVE Job(d)' = Job(d)
    <3>1. Call(d) # Call(c)
      BY DEF Call
    <3>. QED
      <4>1. /\ content'[d] = content[d]
            /\ d \in Active' <=> d \in Active
            /\ (Call(d)' \in written') = (Call(d) \in written)
        BY <1>1, <1>3, <1>4, <1>7, <3>1
      <4>. QED
        BY <4>1 DEF Job
  <2>3. OrphanRequests' = OrphanRequests
    <3>1. ASSUME NEW x \in late, x.call = Call(c)
          PROVE  ~(x.call = Call(x.call[1]) => x.call[1] \notin Active)
      BY <1>1, <3>1 DEF Call
    <3>2. \A x \in late : Call(x.call[1])' = Call(x.call[1])
      BY <1>1 DEF Call
    <3>. QED
      BY <1>1, <1>3, <1>4, <1>7, <3>1, <3>2 DEF OrphanRequests
  <2>4. Orphans' = Orphans
    BY <2>3 DEF Orphans
  <2>5. Abstract!Take(c)
    BY <1>1, <1>3, <1>7, <2>1, <2>2, <2>4 DEF Abstract!Take, Job, Orphans, OrphanRequests, Readable
  <2>. QED
    BY <2>5 DEF Abstract!EntryNext
<1>. QED
  BY <1>5, <1>6, <1>7

LEMMA AnswerIsResolve ==
    ASSUME SecretIInv, NEW c \in Client, Answer(c)
    PROVE  Abstract!EntryNext \/ UNCHANGED Abstract!entryVars
<1>1. /\ SecretTypeInv /\ c \in executed /\ c \in Active /\ StageOK(c) /\ WrittenOK(c)
      /\ stage[c] # "parse"
      /\ UNCHANGED <<secret, content, late, calls, written>>
  BY DEF SecretIInv, SecretTypeInv, Answer, StageOK, counters
<1>2. /\ stage[c] = "createSecret" =>
            stage' = [stage EXCEPT ![c] = "addVersion"] /\ outcome' = outcome
      /\ stage[c] # "createSecret" =>
            /\ stage' = [stage EXCEPT ![c] = "idle"]
            /\ outcome' = [outcome EXCEPT ![c] = "resolve"]
  BY <1>1, AnswerLeads DEF Answer
<1>3. CASE stage[c] = "createSecret"
  <2>1. Active' = Active
    BY <1>1, <1>2, <1>3 DEF Active, SecretTypeInv
  <2>2. \A d \in Client : Job(d)' = Job(d)
    <3>1. ASSUME NEW d \in Client PROVE Job(d)' = Job(d)
      BY <1>1, <2>1 DEF Job, Call
    <3>. QED
      BY <3>1
  <2>3. OrphanRequests' = OrphanRequests
    BY <1>1, <2>1 DEF OrphanRequests, Call
  <2>. QED
    BY <1>1, <1>2, <1>3, <2>2, <2>3, EntryStutters DEF Readable
<1>4. CASE stage[c] # "createSecret"
  <2>1. Active' = Active \ {c}
    BY <1>1, <1>2, <1>4 DEF Active, SecretTypeInv
  <2>2. /\ Call(c) \in written
        /\ Job(c) = [content |-> content[c], taken |-> TRUE, active |-> TRUE]
        /\ Job(c)' = [content |-> Missing, taken |-> FALSE, active |-> FALSE]
    BY <1>1, <1>4, <2>1 DEF Job, WrittenOK
  <2>3. ASSUME NEW d \in Client \ {c} PROVE Job(d)' = Job(d)
    BY <1>1, <2>1 DEF Job, Call
  <2>4. OrphanRequests' = OrphanRequests
    <3>1. ASSUME NEW x \in late, x.call \notin written
          PROVE  x.call = Call(x.call[1]) => x.call[1] # c
      BY <2>2, <3>1
    <3>. QED
      BY <1>1, <2>1, <3>1 DEF OrphanRequests, Call
  <2>5. Orphans' = Orphans
    BY <2>4 DEF Orphans
  <2>6. Abstract!Resolve(c)
    BY <1>1, <1>2, <1>4, <2>2, <2>3, <2>5
    DEF Abstract!Resolve, Abstract!NoJob, Job, Orphans, OrphanRequests, Readable
  <2>. QED
    BY <2>6 DEF Abstract!EntryNext
<1>. QED
  BY <1>3, <1>4

(* A request that does not succeed: the call goes on, or is rejected and   *)
(* leaves behind what may still be written.                                *)
LEMMA FailureIsReject ==
    ASSUME SecretIInv, NEW c \in Active, Advance(c, FALSE),
           UNCHANGED <<secret, content, calls, written>>,
           \/ late' = late
           \/ late' = late \cup {[call |-> Call(c), request |-> stage[c], content |-> content[c]]}
    PROVE  Abstract!EntryNext \/ UNCHANGED Abstract!entryVars
<1>. DEFINE request == [call |-> Call(c), request |-> stage[c], content |-> content[c]]
<1>1. /\ SecretTypeInv /\ c \in Client /\ StageOK(c)
      /\ \A d \in Client : Call(d)' = Call(d)
      /\ Readable' = Readable
  BY DEF SecretIInv, Active, Call, Readable
<1>2. /\ request.call = Call(c) /\ request.content = content[c]
      /\ late \subseteq late' /\ \A x \in late' : x \in late \/ x = request
  OBVIOUS
<1>3. /\ \A x \in late' : x.call[1] \in Client /\ (x.call = Call(c) => x.content = content[c])
  BY <1>1, <1>2, LateFacts DEF LateOK, Call
<1>. HIDE DEF request
<1>4. CASE GoesOn(c)
  <2>1. Active' = Active /\ outcome' = outcome
    <3>1. PICK s \in {"addAgain", "patch", "create"} :
             stage' = [stage EXCEPT ![c] = s] /\ outcome' = outcome
      BY <1>1, <1>4, FailureLeads
    <3>. QED
      BY <3>1 DEF Active, SecretTypeInv
  <2>2. \A d \in Client : Job(d)' = Job(d)
    <3>1. ASSUME NEW d \in Client PROVE Job(d)' = Job(d)
      BY <2>1 DEF Job, Call
    <3>. QED
      BY <3>1
  <2>3. OrphanRequests' = OrphanRequests
    <3>1. \A x \in late' \ late : x.call = Call(x.call[1]) /\ x.call[1] \in Active
      BY <1>2 DEF Call
    <3>2. \A x \in late' : Call(x.call[1])' = Call(x.call[1])
      BY <1>1, <1>3
    <3>. QED
      BY <1>2, <2>1, <3>1, <3>2 DEF OrphanRequests
  <2>. QED
    BY <1>1, <2>1, <2>2, <2>3, EntryStutters
<1>5. CASE ~GoesOn(c)
  <2>1. /\ stage' = [stage EXCEPT ![c] = "idle"]
        /\ outcome' = [outcome EXCEPT ![c] = "reject"]
    BY <1>1, <1>5, FailureLeads
  <2>2. Active' = Active \ {c}
    BY <1>1, <2>1 DEF Active, SecretTypeInv
  <2>3. ASSUME NEW d \in Client \ {c} PROVE Job(d)' = Job(d)
    BY <2>2 DEF Job, Call
  <2>4. /\ Job(c).active = TRUE /\ Job(c).content = content[c]
        /\ Job(c).taken <=> Call(c) \in written
        /\ Job(c)' = [content |-> Missing, taken |-> FALSE, active |-> FALSE]
    BY <2>2 DEF Job
  <2>5. /\ OrphanRequests \subseteq OrphanRequests'
        /\ \A x \in OrphanRequests' \ OrphanRequests : x.call = Call(c) /\ Call(c) \notin written
    <3>1. ASSUME NEW x \in late'
          PROVE  /\ x.call = Call(x.call[1])' <=> x.call = Call(x.call[1])
                 /\ x.call = Call(x.call[1]) /\ x.call[1] = c => x.call = Call(c)
      BY <1>1, <1>3
    <3>2. ASSUME NEW x \in late' \ late PROVE x.call = Call(c)
      BY <1>2, <3>2
    <3>. QED
      BY <1>2, <2>2, <3>1, <3>2 DEF OrphanRequests
  <2>6. OrphanRequests' \subseteq late'
    BY DEF OrphanRequests
  <2>7. \/ Orphans' = Orphans
        \/ /\ Call(c) \notin written
           /\ <<Call(c), content[c]>> \in Orphans'
           /\ Orphans' = Orphans \cup {<<Call(c), content[c]>>}
    <3>1. \A x \in OrphanRequests' \ OrphanRequests :
             Call(c) \notin written /\ <<x.call, x.content>> = <<Call(c), content[c]>>
      BY <1>3, <2>5, <2>6
    <3>2. CASE OrphanRequests' = OrphanRequests
      BY <3>2 DEF Orphans
    <3>3. CASE OrphanRequests' # OrphanRequests
      <4>1. PICK x \in OrphanRequests' : x \notin OrphanRequests
        BY <2>5, <3>3
      <4>. QED
        BY <2>5, <3>1, <4>1 DEF Orphans
    <3>. QED
      BY <3>2, <3>3
  <2>8. Abstract!Reject(c)
    <3>1. \/ Orphans' = Orphans
          \/ /\ ~Job(c).taken
             /\ \E w \in Orphans' : w[2] = Job(c).content /\ Orphans' = Orphans \cup {w}
      BY <2>4, <2>7
    <3>2. [d \in Client |-> Job(d)]' = [[d \in Client |-> Job(d)] EXCEPT ![c] = Abstract!NoJob]
      BY <2>3, <2>4 DEF Abstract!NoJob
    <3>. QED
      BY <1>1, <2>1, <2>4, <3>1, <3>2
      DEF Abstract!Reject, Abstract!NoJob, Job, Orphans, OrphanRequests
  <2>. QED
    BY <1>1, <2>8 DEF Abstract!EntryNext
<1>. QED
  BY <1>4, <1>5

(* A request given up is executed: its call takes effect, late or not. *)
LEMMA LateIsLand ==
    ASSUME SecretIInv, NEW r \in late, ExecuteLate(r)
    PROVE  WritesAgain \/ Abstract!EntryNext \/ UNCHANGED Abstract!entryVars
<1>. DEFINE c == r.call[1]
<1>1. /\ SecretTypeInv /\ LateOK(r) /\ c \in Client
      /\ r \in [call : Client \X Nat, request : Requests, content : Content \cup {Missing}]
      /\ Executes(r.call, r.request, r.content)
      /\ late' = late \ {r}
      /\ UNCHANGED <<stage, content, outcome, calls>>
  BY LateFacts DEF SecretIInv, ExecuteLate, counters
<1>2. /\ r.request = "createSecret" => secret = Missing /\ secret' = Bare /\ written' = written
      /\ r.request # "createSecret" => written' = written \cup {r.call} /\ Readable' = r.content
  <2>1. r.request = "delete" <=> r.content = Missing
    BY <1>1 DEF LateOK
  <2>. QED
    BY <1>1, <2>1, ExecutesFacts
<1>3. Active' = Active /\ \A d \in Client : Call(d)' = Call(d)
  BY <1>1 DEF Active, Call
<1>4. \A x \in late : x.call[1] \in Client /\ Call(x.call[1])' = Call(x.call[1])
  BY <1>3, LateFacts
<1>5. CASE r.request = "createSecret"
  <2>1. Readable' = Readable
    BY <1>2, <1>5, BackendAssumption DEF Readable
  <2>2. ASSUME NEW d \in Client PROVE Job(d)' = Job(d)
    BY <1>1, <1>2, <1>3, <1>5 DEF Job, Call
  <2>3. OrphanRequests' = OrphanRequests
    BY <1>1, <1>2, <1>3, <1>4, <1>5 DEF OrphanRequests
  <2>. QED
    BY <1>1, <2>1, <2>2, <2>3, EntryStutters
<1>6. CASE r.request # "createSecret" /\ r.call \in written
  BY <1>1, <1>6 DEF WritesAgain
<1>7. CASE r.request # "createSecret" /\ r.call \notin written
  <2>1. written' = written \cup {r.call} /\ Readable' = r.content
    BY <1>2, <1>7
  <2>2. CASE c \in Active /\ r.call = Call(c)
    <3>1. r.content = content[c]
      BY <1>1, <2>2 DEF LateOK
    <3>2. /\ Job(c) = [content |-> content[c], taken |-> FALSE, active |-> TRUE]
          /\ Job(c)' = [content |-> content[c], taken |-> TRUE, active |-> TRUE]
      <4>1. /\ content'[c] = content[c] /\ c \in Active /\ c \in Active'
            /\ (Call(c)' \in written') = TRUE /\ (Call(c) \in written) = FALSE
        BY <1>1, <1>3, <1>7, <2>1, <2>2
      <4>. QED
        BY <4>1 DEF Job
    <3>3. ASSUME NEW d \in Client \ {c} PROVE Job(d)' = Job(d)
      <4>1. /\ content'[d] = content[d]
            /\ d \in Active' <=> d \in Active
            /\ (Call(d)' \in written') = (Call(d) \in written)
        BY <1>1, <1>3, <2>1 DEF Call
      <4>. QED
        BY <4>1 DEF Job
    <3>4. OrphanRequests' = OrphanRequests
      <4>1. \A x \in late : x.call = r.call => x \notin OrphanRequests
        BY <2>2 DEF OrphanRequests
      <4>. QED
        BY <1>1, <1>3, <1>4, <2>1, <2>2, <4>1 DEF OrphanRequests
    <3>5. Orphans' = Orphans
      BY <3>4 DEF Orphans
    <3>6. Abstract!Take(c)
      BY <1>1, <2>1, <3>1, <3>2, <3>3, <3>5
      DEF Abstract!Take, Job, Orphans, OrphanRequests, Readable
    <3>. QED
      BY <1>1, <3>6 DEF Abstract!EntryNext
  <2>3. CASE ~(c \in Active /\ r.call = Call(c))
    <3>1. ASSUME NEW d \in Client PROVE Job(d)' = Job(d)
      <4>1. /\ content'[d] = content[d]
            /\ d \in Active' <=> d \in Active
        BY <1>1, <1>3
      <4>2. d \in Active => (Call(d)' \in written') = (Call(d) \in written)
        BY <1>3, <2>1, <2>3 DEF Call
      <4>. QED
        BY <4>1, <4>2 DEF Job
    <3>2. r \in OrphanRequests
      BY <1>7, <2>3 DEF OrphanRequests
    <3>3. OrphanRequests' = {x \in OrphanRequests : x.call # r.call}
      BY <1>1, <1>3, <1>4, <2>1 DEF OrphanRequests
    <3>4. /\ <<r.call, r.content>> \in Orphans
          /\ Orphans' = Orphans \ {<<r.call, r.content>>}
      <4>1. \A x \in OrphanRequests : x.call = r.call => x.content = r.content
        BY <1>1 DEF OrphanRequests, LateOK
      <4>. QED
        BY <3>2, <3>3, <4>1 DEF Orphans
    <3>5. Abstract!Land(<<r.call, r.content>>)
      BY <1>1, <2>1, <3>1, <3>4 DEF Abstract!Land, Job, Orphans, OrphanRequests, Readable
    <3>. QED
      BY <3>4, <3>5 DEF Abstract!EntryNext, Orphans, OrphanRequests
  <2>. QED
    BY <2>2, <2>3
<1>. QED
  BY <1>5, <1>6, <1>7

(* Whatever requests an adapter sends, its calls write the entry once and  *)
(* resolve only when they have: every step is one of BackendEntry, except  *)
(* that a call one of whose requests was given up may write a second time. *)
THEOREM BackendIsEntry == Spec => ImplementsEntry
<1>1. Init => Abstract!EntryInit
  <2>1. SUFFICES ASSUME Init PROVE Abstract!EntryInit
    OBVIOUS
  <2>2. Active = {} /\ late = {}
    BY <2>1 DEF Init, Active
  <2>. QED
    BY <2>1, <2>2 DEF Init, Readable, Abstract!EntryInit, Abstract!NoJob
<1>2. ASSUME SecretIInv, [Next]_vars
      PROVE  WritesAgain \/ Abstract!EntryNext \/ UNCHANGED Abstract!entryVars
  <2>. USE <1>2
  <2>1. ASSUME NEW c \in Client, NEW value \in Content \cup {Missing}, Begin(c, value)
        PROVE  Abstract!EntryNext
    BY <2>1, BeginIsAsk
  <2>2. ASSUME NEW c \in Client, Execute(c)
        PROVE  WritesAgain \/ Abstract!EntryNext \/ UNCHANGED Abstract!entryVars
    BY <2>2, ExecuteIsTake
  <2>3. ASSUME NEW c \in Client, Answer(c)
        PROVE  Abstract!EntryNext \/ UNCHANGED Abstract!entryVars
    BY <2>3, AnswerIsResolve
  <2>4. ASSUME NEW c \in Client, Refuse(c) \/ RequestFails(c) \/ RequestTimesOut(c)
        PROVE  Abstract!EntryNext \/ UNCHANGED Abstract!entryVars
    <3>1. /\ c \in Active /\ Advance(c, FALSE)
          /\ UNCHANGED <<secret, content, calls, written>>
      BY <2>4 DEF Refuse, RequestFails, RequestTimesOut, counters
    <3>2. \/ late' = late
          \/ late' = late \cup {[call |-> Call(c), request |-> stage[c], content |-> content[c]]}
      BY <2>4 DEF Refuse, RequestFails, RequestTimesOut
    <3>. QED
      BY <3>1, <3>2, FailureIsReject
  <2>5. ASSUME NEW r \in late, ExecuteLate(r)
        PROVE  WritesAgain \/ Abstract!EntryNext \/ UNCHANGED Abstract!entryVars
    BY <2>5, LateIsLand
  <2>6. ASSUME UNCHANGED <<stage, content, late, outcome, calls, written>>, Readable' = Readable
        PROVE  UNCHANGED Abstract!entryVars
    <3>1. \A d \in Client : Job(d)' = Job(d)
      BY <2>6 DEF Job, Active, Call
    <3>2. OrphanRequests' = OrphanRequests
      BY <2>6 DEF OrphanRequests, Active, Call
    <3>. QED
      BY <2>6, <3>1, <3>2, EntryStutters
  <2>7. CASE RecoveryEnds
    BY <2>6, <2>7, BackendAssumption DEF RecoveryEnds, counters, Readable
  <2>8. CASE UNCHANGED vars
    BY <2>6, <2>8 DEF vars, counters, Readable
  <2>. QED
    BY <2>1, <2>2, <2>3, <2>4, <2>5, <2>7, <2>8 DEF Next
<1>3. SecretIInv /\ [Next]_vars => [WritesAgain \/ Abstract!EntryNext]_Abstract!entryVars
  BY <1>2
<1>. QED
  BY <1>1, <1>3, Invariance, PTL DEF Spec, ImplementsEntry

-----------------------------------------------------------------------------
(* The proxy and its stores of flags. *)


FlagTexts == Value \cup {Empty, "false", "0", "{}"}

FlagTypeInv ==
    /\ current \in User \cup {Nobody}
    /\ provider \in [User -> {"new", "starting", "ready", "failed", "closed"}]
    /\ phase \in [User -> {"idle", "starting", "getting", "closing", "returned", "rejected"}]
    /\ asking \in [User -> [Key -> Types \cup {"done"}]]
    /\ via \in [User -> [Key -> User \cup {Nobody}]]
    /\ answer \in [User -> [Key -> FlagTexts]]
    /\ disturbed \subseteq User /\ faulted \subseteq User
    /\ \A u \in InUse : current \in User
    /\ \A u \in User, k \in Key : phase[u] = "getting" => via[u][k] \in User

ProxyTypeInv ==
    /\ server \in {"up", "stopping", "down"}
    /\ entry \in [User -> {"new", "constructing", "awaiting", "evaluating", "fulfilled", "rejected"}]
    /\ result \in [User -> [Key -> FlagTexts]]
    /\ reply \in [Request -> {"none", "pending", "200", "500"}]

Clean(u) == u \notin disturbed \cup faulted

(* The types a flag may have when it is asked for as a type. *)
Ahead == [bool |-> Types, number |-> Types \ {"bool"}, string |-> {"string", "object"},
          object |-> {"object"}]

(* What is known of the answer to k before it is there, and when it is.    *)
AskedAs(u, k, type) ==
    IF Flags[u][k] = NoFlag THEN type = "bool" ELSE Flags[u][k].type \in Ahead[type]

(* A store that nothing has disturbed has its own provider in place and    *)
(* asks it, and only it, type after type up to that of the flag.           *)
OwnProvider(u) ==
    Clean(u) =>
        /\ u \in InUse => current = u
        /\ phase[u] = "starting" => provider[u] = "starting"
        /\ phase[u] = "getting" => provider[u] = "ready" /\ \A k \in Key : via[u][k] = u
        /\ phase[u] = "getting" =>
              \A k \in Key : IF asking[u][k] = "done" THEN answer[u][k] = OwnFlag(u, k)
                             ELSE AskedAs(u, k, asking[u][k])
        /\ phase[u] \in {"closing", "returned"} => \A k \in Key : answer[u][k] = OwnFlag(u, k)

Unasked(u) == phase[u] \in {"idle", "starting"} => \A k \in Key : asking[u][k] = "bool"

FlagInv ==
    /\ FlagTypeInv
    /\ \A u \in User : OwnProvider(u) /\ Unasked(u)

(* The value of k that entry u hands on: that of the last entry up to u    *)
(* whose own provider has the flag.                                        *)
HandsOn(u, k) ==
    \/ /\ \A i \in 1..u[2] : OwnFlag(<<u[1], i>>, k) = Empty
       /\ result[u][k] = Empty
    \/ \E i \in 1..u[2] :
          /\ OwnFlag(<<u[1], i>>, k) # Empty
          /\ \A j \in (i + 1)..u[2] : OwnFlag(<<u[1], j>>, k) = Empty
          /\ result[u][k] = OwnFlag(<<u[1], i>>, k)

Chained(u) ==
    /\ entry[u] \in {"evaluating", "fulfilled"} => Previous(u) = "fulfilled"
    /\ entry[u] = "fulfilled" /\ (\A i \in 1..u[2] : Clean(<<u[1], i>>)) =>
          \A k \in Key : HandsOn(u, k)

Answered(r) ==
    /\ reply[r] = "none" => \A u \in EntriesOf(r) : entry[u] = "new"
    /\ reply[r] = "200" => entry[<<r, Length[r]>>] = "fulfilled"

ProxyIInv ==
    /\ FlagInv /\ ProxyTypeInv
    /\ \A u \in User : Chained(u)
    /\ \A r \in Request : Answered(r)

-----------------------------------------------------------------------------
(* The stores of flags. *)

LEMMA FlagForm ==
    ASSUME NEW u \in User, NEW k \in Key
    PROVE  /\ Flags[u][k] = NoFlag \/ (Flags[u][k].type \in Types /\ Flags[u][k].value \in Value)
           /\ Flags[u][k] # NoFlag => Flags[u][k].type \in Types /\ Flags[u][k].value \in Value
           /\ OwnFlag(u, k) \in FlagTexts
<1>1. Flags[u][k] \in [type : Types, value : Value] \cup {NoFlag}
  BY FlagAssumption
<1>. QED
  BY <1>1 DEF OwnFlag, FlagTexts

LEMMA FlagStart == FlagInit => FlagInv
<1>. SUFFICES ASSUME FlagInit PROVE FlagInv
  OBVIOUS
<1>1. FlagTypeInv
  BY DEF FlagInit, FlagTypeInv, InUse, Types, FlagTexts
<1>2. \A u \in User : OwnProvider(u) /\ Unasked(u)
  BY DEF FlagInit, OwnProvider, Unasked, InUse
<1>. QED
  BY <1>1, <1>2 DEF FlagInv

LEMMA SetProviderStep ==
    ASSUME FlagInv, NEW u \in User, SetProvider(u)
    PROVE  FlagInv'
<1>1. /\ phase[u] = "idle" /\ phase' = [phase EXCEPT ![u] = "starting"]
      /\ current' = u /\ disturbed' = disturbed \cup InUse
      /\ provider' = [v \in User |-> IF v = u THEN "starting"
                                     ELSE IF v = current THEN "closed" ELSE provider[v]]
      /\ asking' = asking /\ via' = via /\ answer' = answer /\ faulted' = faulted
  BY DEF SetProvider, Goto
<1>2. FlagTypeInv'
  BY <1>1 DEF FlagInv, FlagTypeInv, InUse
<1>3. ASSUME NEW v \in User PROVE OwnProvider(v)' /\ Unasked(v)'
  <2>1. /\ phase'[u] = "starting" /\ (v # u => phase'[v] = phase[v])
        /\ provider'[u] = "starting"
    BY <1>1 DEF FlagInv, FlagTypeInv
  <2>2. Unasked(v)'
    BY <1>1, <2>1 DEF FlagInv, Unasked
  <2>3. CASE v = u
    BY <1>1, <2>1, <2>2, <2>3 DEF OwnProvider
  <2>4. CASE v # u
    <3>1. Clean(v)' => Clean(v) /\ v \notin InUse
      BY <1>1 DEF Clean
    <3>2. CASE v \in InUse
      BY <2>2, <3>1, <3>2 DEF OwnProvider
    <3>3. CASE v \notin InUse
      <4>1. phase'[v] = phase[v] /\ phase[v] \notin {"starting", "getting", "closing"}
        BY <2>1, <2>4, <3>3 DEF InUse
      <4>2. phase[v] = "returned" /\ Clean(v) => \A k \in Key : answer[v][k] = OwnFlag(v, k)
        BY DEF FlagInv, OwnProvider
      <4>3. v \notin InUse'
        BY <4>1 DEF InUse
      <4>. QED
        BY <1>1, <2>2, <3>1, <4>1, <4>2, <4>3 DEF OwnProvider
    <3>. QED
      BY <3>2, <3>3
  <2>. QED
    BY <2>2, <2>3, <2>4
<1>. QED
  BY <1>2, <1>3 DEF FlagInv

LEMMA StartGetStep ==
    ASSUME FlagInv, NEW u \in User, StartGet(u)
    PROVE  FlagInv'
<1>1. /\ phase[u] = "starting" /\ phase' = [phase EXCEPT ![u] = "getting"]
      /\ provider' = [provider EXCEPT ![u] = IF @ = "closed" THEN @ ELSE "ready"]
      /\ via' = [via EXCEPT ![u] = [k \in Key |-> current]]
      /\ current' = current /\ asking' = asking /\ answer' = answer
      /\ disturbed' = disturbed /\ faulted' = faulted
  BY DEF StartGet, Goto
<1>2. current \in User
  BY <1>1 DEF FlagInv, FlagTypeInv, InUse
<1>3. /\ phase'[u] = "getting" /\ via'[u] = [k \in Key |-> current]
      /\ provider[u] # "closed" => provider'[u] = "ready"
      /\ \A v \in User \ {u} :
            phase'[v] = phase[v] /\ provider'[v] = provider[v] /\ via'[v] = via[v]
  BY <1>1 DEF FlagInv, FlagTypeInv
<1>4. FlagTypeInv'
  <2>1. /\ provider' \in [User -> {"new", "starting", "ready", "failed", "closed"}]
        /\ phase' \in [User -> {"idle", "starting", "getting", "closing", "returned", "rejected"}]
        /\ via' \in [User -> [Key -> User \cup {Nobody}]]
    BY <1>1, <1>2 DEF FlagInv, FlagTypeInv
  <2>2. \A v \in User, k \in Key : phase'[v] = "getting" => via'[v][k] \in User
    BY <1>2, <1>3 DEF FlagInv, FlagTypeInv
  <2>. QED
    BY <1>1, <1>2, <2>1, <2>2 DEF FlagInv, FlagTypeInv
<1>5. ASSUME NEW v \in User PROVE OwnProvider(v)' /\ Unasked(v)'
  <2>1. Unasked(v)'
    BY <1>1, <1>3 DEF FlagInv, Unasked
  <2>2. CASE v # u
    BY <1>1, <1>3, <2>1, <2>2 DEF FlagInv, OwnProvider, InUse, Clean
  <2>3. CASE v = u /\ Clean(u)
    <3>1. current = u /\ provider[u] = "starting" /\ \A k \in Key : asking[u][k] = "bool"
      BY <1>1, <2>3 DEF FlagInv, OwnProvider, InUse, Unasked
    <3>2. \A k \in Key : AskedAs(u, k, "bool")
      BY FlagForm DEF AskedAs, Ahead
    <3>. QED
      BY <1>1, <1>3, <2>1, <2>3, <3>1, <3>2 DEF OwnProvider
  <2>4. CASE ~Clean(u) /\ v = u
    BY <1>1, <2>1, <2>4 DEF OwnProvider, Clean
  <2>. QED
    BY <2>2, <2>3, <2>4
<1>. QED
  BY <1>4, <1>5 DEF FlagInv

LEMMA ProviderFailsStep ==
    ASSUME FlagInv, NEW u \in User, ProviderFails(u)
    PROVE  FlagInv'
<1>1. /\ phase' = [phase EXCEPT ![u] = "rejected"] /\ faulted' = faulted \cup {u}
      /\ provider' = [provider EXCEPT ![u] = IF @ = "closed" THEN @ ELSE "failed"]
      /\ current' = current /\ asking' = asking /\ via' = via /\ answer' = answer
      /\ disturbed' = disturbed
  BY DEF ProviderFails, Goto, Fault
<1>2. /\ phase'[u] = "rejected"
      /\ \A v \in User \ {u} : phase'[v] = phase[v] /\ provider'[v] = provider[v]
  BY <1>1 DEF FlagInv, FlagTypeInv
<1>3. FlagTypeInv'
  BY <1>1 DEF FlagInv, FlagTypeInv, InUse
<1>4. ASSUME NEW v \in User PROVE OwnProvider(v)' /\ Unasked(v)'
  <2>1. Unasked(v)'
    BY <1>1, <1>2 DEF FlagInv, Unasked
  <2>2. CASE v # u
    BY <1>1, <1>2, <2>1, <2>2 DEF FlagInv, OwnProvider, InUse, Clean
  <2>3. CASE v = u
    BY <1>1, <2>1, <2>3 DEF OwnProvider, Clean
  <2>. QED
    BY <2>2, <2>3
<1>. QED
  BY <1>3, <1>4 DEF FlagInv

(* A failure elsewhere in the command of u. *)
LEMMA FaultStep ==
    ASSUME FlagInv, NEW u \in User, faulted' = faulted \cup {u},
           UNCHANGED <<current, provider, phase, asking, via, answer, disturbed>>
    PROVE  FlagInv'
<1>1. FlagTypeInv'
  BY DEF FlagInv, FlagTypeInv, InUse
<1>2. ASSUME NEW v \in User PROVE OwnProvider(v)' /\ Unasked(v)'
  BY DEF FlagInv, OwnProvider, Unasked, InUse, Clean
<1>. QED
  BY <1>1, <1>2 DEF FlagInv

LEMMA EndGetStep ==
    ASSUME FlagInv, NEW u \in User, EndGet(u)
    PROVE  FlagInv'
<1>1. PICK place \in {"closing", "returned"} :
         /\ phase[u] = "getting" /\ phase' = [phase EXCEPT ![u] = place]
         /\ \A k \in Key : asking[u][k] = "done"
         /\ current' = current /\ provider' = provider /\ asking' = asking /\ via' = via
         /\ answer' = answer /\ disturbed' = disturbed /\ faulted' = faulted
  BY DEF EndGet, Goto
<1>2. phase'[u] = place /\ \A v \in User \ {u} : phase'[v] = phase[v]
  BY <1>1 DEF FlagInv, FlagTypeInv
<1>3. FlagTypeInv'
  BY <1>1, <1>2 DEF FlagInv, FlagTypeInv, InUse
<1>4. ASSUME NEW v \in User PROVE OwnProvider(v)' /\ Unasked(v)'
  <2>1. Unasked(v)'
    BY <1>1, <1>2 DEF FlagInv, Unasked
  <2>2. CASE v # u
    BY <1>1, <1>2, <2>1, <2>2 DEF FlagInv, OwnProvider, InUse, Clean
  <2>3. CASE v = u
    BY <1>1, <1>2, <2>1, <2>3 DEF FlagInv, OwnProvider, InUse, Clean
  <2>. QED
    BY <2>2, <2>3
<1>. QED
  BY <1>3, <1>4 DEF FlagInv

LEMMA CloseStep ==
    ASSUME FlagInv, NEW u \in User, Close(u)
    PROVE  FlagInv'
<1>1. /\ phase[u] = "closing" /\ phase' = [phase EXCEPT ![u] = "returned"]
      /\ provider' = [provider EXCEPT ![current] = "closed"]
      /\ disturbed' = disturbed \cup (InUse \ {u})
      /\ current' = current /\ asking' = asking /\ via' = via /\ answer' = answer
      /\ faulted' = faulted
  BY DEF Close, Goto
<1>2. /\ phase'[u] = "returned"
      /\ \A v \in User \ {u} : phase'[v] = phase[v]
  BY <1>1 DEF FlagInv, FlagTypeInv
<1>3. FlagTypeInv'
  BY <1>1, <1>2 DEF FlagInv, FlagTypeInv, InUse
<1>4. ASSUME NEW v \in User PROVE OwnProvider(v)' /\ Unasked(v)'
  <2>1. Unasked(v)'
    BY <1>1, <1>2 DEF FlagInv, Unasked
  <2>2. CASE v # u
    <3>1. Clean(v)' => Clean(v) /\ v \notin InUse
      BY <1>1, <2>2 DEF Clean
    <3>. QED
      BY <1>1, <1>2, <2>1, <2>2, <3>1 DEF FlagInv, OwnProvider, InUse
  <2>3. CASE v = u
    BY <1>1, <1>2, <2>1, <2>3 DEF FlagInv, OwnProvider, InUse, Clean
  <2>. QED
    BY <2>2, <2>3
<1>. QED
  BY <1>3, <1>4 DEF FlagInv

(* What a call for one flag touches. *)
LEMMA GetValueFrame ==
    ASSUME FlagInv, NEW u \in User, NEW k \in Key, Awaits(u, k), NEW details,
           details = "value" => Flags[via[u][k]][k] # NoFlag, GetValue(u, k, details)
    PROVE  /\ asking' \in [User -> [Key -> Types \cup {"done"}]]
           /\ via' \in [User -> [Key -> User \cup {Nobody}]]
           /\ answer' \in [User -> [Key -> FlagTexts]]
           /\ via'[u][k] = current
           /\ asking'[u][k] = IF details = "TYPE_MISMATCH" THEN NextType[asking[u][k]] ELSE "done"
           /\ details = "value" => answer'[u][k] = Flags[via[u][k]][k].value
           /\ details = "FLAG_NOT_FOUND" /\ asking[u][k] = "bool" => answer'[u][k] = Empty
           /\ \A v \in User, j \in Key : v # u \/ j # k =>
                 asking'[v][j] = asking[v][j] /\ via'[v][j] = via[v][j] /\ answer'[v][j] = answer[v][j]
<1>1. asking[u][k] \in Types /\ via[u][k] \in User
  BY DEF Awaits, FlagInv, FlagTypeInv
<1>2. PICK asked, text :
         /\ asking' = [asking EXCEPT ![u][k] = asked]
         /\ answer' = [answer EXCEPT ![u][k] = text]
         /\ asked = IF details = "TYPE_MISMATCH" THEN NextType[asking[u][k]] ELSE "done"
         /\ text = IF details = "value" THEN Flags[via[u][k]][k].value
                   ELSE IF \/ details = "TYPE_MISMATCH"
                           \/ asking[u][k] = "bool" /\ details = "FLAG_NOT_FOUND" THEN Empty
                   ELSE Default(asking[u][k])
  BY DEF GetValue
<1>3. via' = [via EXCEPT ![u][k] = current]
  BY DEF GetValue
<1>4. asked \in Types \cup {"done"}
  BY <1>1, <1>2 DEF NextType, Types
<1>5. Default(asking[u][k]) \in FlagTexts
  BY <1>1 DEF Default, Types, FlagTexts
<1>6. text \in FlagTexts
  BY <1>1, <1>2, <1>5, FlagForm DEF FlagTexts
<1>7. /\ asking \in [User -> [Key -> Types \cup {"done"}]]
      /\ via \in [User -> [Key -> User \cup {Nobody}]]
      /\ answer \in [User -> [Key -> FlagTexts]] /\ current \in User \cup {Nobody}
  BY DEF FlagInv, FlagTypeInv
<1>8. /\ asking' \in [User -> [Key -> Types \cup {"done"}]] /\ asking'[u][k] = asked
      /\ \A v \in User, j \in Key : v # u \/ j # k => asking'[v][j] = asking[v][j]
  BY <1>2, <1>4, <1>7
<1>9. /\ via' \in [User -> [Key -> User \cup {Nobody}]] /\ via'[u][k] = current
      /\ \A v \in User, j \in Key : v # u \/ j # k => via'[v][j] = via[v][j]
  BY <1>3, <1>7
<1>10. /\ answer' \in [User -> [Key -> FlagTexts]] /\ answer'[u][k] = text
       /\ \A v \in User, j \in Key : v # u \/ j # k => answer'[v][j] = answer[v][j]
  BY <1>2, <1>6, <1>7
<1>. QED
  BY <1>2, <1>8, <1>9, <1>10

(* A call for one flag ends, with a value, with the next type to ask for,  *)
(* or with an error that is counted as a failure of u.                     *)
LEMMA GetValueStep ==
    ASSUME FlagInv, NEW u \in User, NEW k \in Key, Awaits(u, k), NEW details,
           details = "value" => Flags[via[u][k]][k] # NoFlag, GetValue(u, k, details),
           UNCHANGED <<current, provider, phase, disturbed>>,
           faulted' \in {faulted, faulted \cup {u}},
           Clean(u)' => details \in Details(via[u][k], k, asking[u][k])
    PROVE  FlagInv'
<1>1. phase[u] = "getting" /\ asking[u][k] \in Types /\ current \in User
  BY DEF Awaits, FlagInv, FlagTypeInv, InUse
<1>2. FlagTypeInv'
  <2>1. /\ asking' \in [User -> [Key -> Types \cup {"done"}]]
        /\ via' \in [User -> [Key -> User \cup {Nobody}]]
        /\ answer' \in [User -> [Key -> FlagTexts]]
    BY GetValueFrame
  <2>2. \A v \in User, j \in Key : phase'[v] = "getting" => via'[v][j] \in User
    <3>. SUFFICES ASSUME NEW v \in User, NEW j \in Key, phase'[v] = "getting"
                  PROVE  via'[v][j] \in User
      OBVIOUS
    <3>1. CASE v = u /\ j = k
      BY <1>1, <3>1, GetValueFrame
    <3>2. CASE v # u \/ j # k
      <4>1. via'[v][j] = via[v][j]
        BY <3>2, GetValueFrame
      <4>. QED
        BY <4>1 DEF FlagInv, FlagTypeInv
    <3>. QED
      BY <3>1, <3>2
  <2>3. faulted' \subseteq User /\ \A v \in InUse' : current' \in User
    BY <1>1 DEF FlagInv, FlagTypeInv
  <2>. QED
    BY <2>1, <2>2, <2>3 DEF FlagInv, FlagTypeInv
<1>3. ASSUME NEW v \in User PROVE Unasked(v)'
  <2>1. CASE v = u
    BY <1>1, <2>1 DEF Unasked
  <2>2. CASE v # u
    <3>1. \A j \in Key : asking'[v][j] = asking[v][j]
      BY <2>2, GetValueFrame
    <3>. QED
      BY <3>1 DEF FlagInv, Unasked
  <2>. QED
    BY <2>1, <2>2
<1>4. ASSUME NEW v \in User, v # u PROVE OwnProvider(v)'
  <2>1. \A j \in Key : asking'[v][j] = asking[v][j] /\ via'[v][j] = via[v][j]
                       /\ answer'[v][j] = answer[v][j]
    BY <1>4, GetValueFrame
  <2>2. OwnProvider(v) /\ (Clean(v)' => Clean(v)) /\ (v \in InUse' => v \in InUse)
    BY DEF FlagInv, Clean, InUse
  <2>. QED
    BY <2>1, <2>2 DEF OwnProvider, AskedAs
<1>5. ASSUME Clean(u)' PROVE OwnProvider(u)'
  <2>1. Clean(u) /\ OwnProvider(u) /\ u \in InUse
    BY <1>1, <1>5 DEF Clean, FlagInv, InUse
  <2>2. /\ current = u /\ provider[u] = "ready" /\ via[u][k] = u
        /\ AskedAs(u, k, asking[u][k])
    BY <1>1, <2>1 DEF OwnProvider, Types
  <2>3. details = IF Flags[u][k] = NoFlag THEN "FLAG_NOT_FOUND"
                  ELSE IF Flags[u][k].type # asking[u][k] THEN "TYPE_MISMATCH" ELSE "value"
    BY <1>5, <2>2 DEF Details
  <2>4. \A j \in Key \ {k} : asking'[u][j] = asking[u][j] /\ via'[u][j] = via[u][j]
                             /\ answer'[u][j] = answer[u][j]
    BY GetValueFrame
  <2>5. IF asking'[u][k] = "done" THEN answer'[u][k] = OwnFlag(u, k)
        ELSE AskedAs(u, k, asking'[u][k])
    <3>1. CASE Flags[u][k] = NoFlag
      BY <2>2, <2>3, <3>1, GetValueFrame DEF AskedAs, OwnFlag
    <3>2. CASE Flags[u][k] # NoFlag /\ Flags[u][k].type = asking[u][k]
      BY <2>2, <2>3, <3>2, GetValueFrame DEF OwnFlag
    <3>3. CASE Flags[u][k] # NoFlag /\ Flags[u][k].type # asking[u][k]
      <4>1. asking'[u][k] = NextType[asking[u][k]]
        BY <2>3, <3>3, GetValueFrame
      <4>2. Flags[u][k].type \in Ahead[asking[u][k]] \ {asking[u][k]}
        BY <2>2, <3>3 DEF AskedAs
      <4>3. NextType[asking[u][k]] # "done" /\ Flags[u][k].type \in Ahead[NextType[asking[u][k]]]
        BY <1>1, <4>2 DEF Ahead, NextType, Types
      <4>. QED
        BY <3>3, <4>1, <4>3 DEF AskedAs
    <3>. QED
      BY <3>1, <3>2, <3>3
  <2>6. via'[u][k] = u
    BY <2>2, GetValueFrame
  <2>7. \A j \in Key : via'[u][j] = u
    BY <1>1, <2>1, <2>4, <2>6 DEF OwnProvider
  <2>8. \A j \in Key : IF asking'[u][j] = "done" THEN answer'[u][j] = OwnFlag(u, j)
                       ELSE AskedAs(u, j, asking'[u][j])
    BY <1>1, <2>1, <2>4, <2>5 DEF OwnProvider
  <2>. QED
    BY <1>1, <2>2, <2>7, <2>8 DEF OwnProvider, AskedAs
<1>6. \A v \in User : OwnProvider(v)'
  BY <1>4, <1>5 DEF OwnProvider
<1>. QED
  BY <1>2, <1>3, <1>6 DEF FlagInv

LEMMA FlagStepKeeps ==
    ASSUME FlagInv, NEW u \in User, FlagStep(u)
    PROVE  FlagInv'
<1>1. ASSUME NEW k \in Key, Evaluate(u, k) PROVE FlagInv'
  <2>1. PICK details \in Details(via[u][k], k, asking[u][k]) : GetValue(u, k, details)
    BY <1>1 DEF Evaluate
  <2>2. Awaits(u, k) /\ UNCHANGED <<current, provider, phase, disturbed>> /\ faulted' = faulted
    BY <1>1 DEF Evaluate
  <2>3. details = "value" => Flags[via[u][k]][k] # NoFlag
    BY <2>1 DEF Details
  <2>. QED
    BY <2>1, <2>2, <2>3, GetValueStep
<1>. QED
  BY <1>1, SetProviderStep, StartGetStep, EndGetStep, CloseStep DEF FlagStep

LEMMA FlagFaultKeeps ==
    ASSUME FlagInv, NEW u \in User, FlagFault(u)
    PROVE  FlagInv'
<1>1. ASSUME NEW k \in Key, EvaluationFails(u, k) PROVE FlagInv'
  <2>1. Awaits(u, k) /\ GetValue(u, k, "error") /\ faulted' = faulted \cup {u}
        /\ UNCHANGED <<current, provider, phase, disturbed>>
    BY <1>1 DEF EvaluationFails, Fault
  <2>2. ~Clean(u)'
    BY <2>1 DEF Clean
  <2>. QED
    BY <2>1, <2>2, GetValueStep
<1>. QED
  BY <1>1, ProviderFailsStep DEF FlagFault

-----------------------------------------------------------------------------
(* The entries of a request. *)

LEMMA EntryForm ==
    /\ \A u \in User : /\ u = <<u[1], u[2]>> /\ u[1] \in Request /\ u[2] \in Nat
                       /\ u[2] \in 1..Length[u[1]]
    /\ \A r \in Request : /\ Length[r] \in Nat \ {0}
                          /\ \A i \in 1..Length[r] : <<r, i>> \in User
<1>1. ASSUME NEW r \in Request PROVE Length[r] \in Nat \ {0}
  BY ProxyAssumption
<1>2. \A u : u \in User <=> \E r \in Request : \E i \in 1..Length[r] : u = <<r, i>>
  BY ProxyAssumption DEF EntriesOf
<1>. QED
  BY <1>1, <1>2

LEMMA PreviousForm ==
    ASSUME NEW u \in User, u[2] # 1
    PROVE  <<u[1], u[2] - 1>> \in User
BY EntryForm

(* A step that lets no entry go on keeps what is known of the entries. *)
LEMMA ChainedKept ==
    ASSUME ProxyIInv,
           \A u \in User : entry[u] = "fulfilled" =>
               entry'[u] = "fulfilled" /\ result'[u] = result[u],
           \A u \in User : entry'[u] \in {"evaluating", "fulfilled"} => entry'[u] = entry[u],
           disturbed \subseteq disturbed', faulted \subseteq faulted'
    PROVE  \A u \in User : Chained(u)'
<1>. SUFFICES ASSUME NEW u \in User PROVE Chained(u)'
  OBVIOUS
<1>1. Chained(u)
  BY DEF ProxyIInv
<1>2. entry'[u] \in {"evaluating", "fulfilled"} => Previous(u)' = "fulfilled"
  <2>1. CASE u[2] = 1
    BY <2>1 DEF Previous
  <2>2. CASE u[2] # 1
    BY <1>1, <2>2, PreviousForm DEF Chained, Previous
  <2>. QED
    BY <2>1, <2>2
<1>3. \A v : Clean(v)' => Clean(v)
  BY DEF Clean
<1>4. ASSUME entry'[u] = "fulfilled", \A i \in 1..u[2] : Clean(<<u[1], i>>)', NEW k \in Key
      PROVE  HandsOn(u, k)'
  <2>1. entry[u] = "fulfilled" /\ result'[u] = result[u]
    BY <1>4
  <2>2. HandsOn(u, k)
    BY <1>1, <1>3, <1>4, <2>1 DEF Chained
  <2>. QED
    BY <2>1, <2>2 DEF HandsOn, OwnFlag
<1>. QED
  BY <1>2, <1>4 DEF Chained

(* No failure or disturbance is forgotten. *)
LEMMA HistoryGrows ==
    ASSUME [ProxyNext]_proxyVars
    PROVE  disturbed \subseteq disturbed' /\ faulted \subseteq faulted'
<1>1. ASSUME NEW u, FlagStep(u) PROVE disturbed \subseteq disturbed' /\ faulted \subseteq faulted'
  BY <1>1 DEF FlagStep, SetProvider, StartGet, EndGet, Close, Evaluate
<1>2. ASSUME NEW u, FlagFault(u) PROVE disturbed \subseteq disturbed' /\ faulted \subseteq faulted'
  BY <1>2 DEF FlagFault, ProviderFails, EvaluationFails, Fault
<1>3. ASSUME NEW u, EntryStep(u) PROVE disturbed \subseteq disturbed' /\ faulted \subseteq faulted'
  BY <1>1, <1>3 DEF EntryStep, Construct, AwaitPrevious, StoreStep, StoreRejects, EndEntry, flagVars
<1>4. ASSUME NEW u, EntryFault(u) PROVE disturbed \subseteq disturbed' /\ faulted \subseteq faulted'
  BY <1>2, <1>4 DEF EntryFault, ConstructFails, StoreFault, EndFails, Fault
<1>. QED
  BY <1>3, <1>4 DEF ProxyNext, proxyVars, flagVars, Receive, Reply, Exit

LEMMA FlagInvStep ==
    ASSUME FlagInv, [ProxyNext]_proxyVars
    PROVE  FlagInv'
<1>1. ASSUME UNCHANGED flagVars PROVE FlagInv'
  <2>1. FlagTypeInv'
    BY <1>1 DEF flagVars, FlagInv, FlagTypeInv, InUse
  <2>2. ASSUME NEW v \in User PROVE OwnProvider(v)' /\ Unasked(v)'
    BY <1>1 DEF flagVars, FlagInv, OwnProvider, Unasked, InUse, Clean
  <2>. QED
    BY <2>1, <2>2 DEF FlagInv
<1>2. ASSUME NEW u \in User, EntryStep(u) PROVE FlagInv'
  <2>1. FlagStep(u) \/ UNCHANGED flagVars
    BY <1>2 DEF EntryStep, Construct, AwaitPrevious, StoreStep, StoreRejects, EndEntry
  <2>. QED
    BY <1>1, <2>1, FlagStepKeeps
<1>3. ASSUME NEW u \in User, EntryFault(u) PROVE FlagInv'
  <2>1. \/ FlagFault(u)
        \/ /\ faulted' = faulted \cup {u}
           /\ UNCHANGED <<current, provider, phase, asking, via, answer, disturbed>>
    BY <1>3 DEF EntryFault, ConstructFails, StoreFault, EndFails, Fault
  <2>. QED
    BY <2>1, FlagFaultKeeps, FaultStep
<1>4. ASSUME NEW r \in Request, Receive(r) \/ Reply(r) PROVE FlagInv'
  BY <1>1, <1>4 DEF Receive, Reply
<1>5. ASSUME Exit \/ UNCHANGED proxyVars PROVE FlagInv'
  BY <1>1, <1>5 DEF Exit, proxyVars
<1>. QED
  BY <1>2, <1>3, <1>4, <1>5 DEF ProxyNext

LEMMA ProxyStart == ProxyInit => ProxyIInv
<1>. SUFFICES ASSUME ProxyInit PROVE ProxyIInv
  OBVIOUS
<1>1. FlagInv
  BY FlagStart DEF ProxyInit
<1>2. ProxyTypeInv
  BY DEF ProxyInit, ProxyTypeInv, FlagTexts
<1>3. \A u \in User : Chained(u)
  BY DEF ProxyInit, Chained
<1>4. \A r \in Request : Answered(r)
  BY ProxyAssumption DEF ProxyInit, Answered
<1>. QED
  BY <1>1, <1>2, <1>3, <1>4 DEF ProxyIInv

EntryPlace == {"new", "constructing", "awaiting", "evaluating", "fulfilled", "rejected"}

(* An entry of a request that has arrived moves, and is not fulfilled. *)
LEMMA EntryMoves ==
    ASSUME ProxyIInv, NEW u \in User, NEW place \in EntryPlace,
           entry' = [entry EXCEPT ![u] = place],
           entry[u] \notin {"new", "fulfilled"}, place # "new",
           server' \in {"up", "stopping", "down"}, reply' = reply,
           result' \in [User -> [Key -> FlagTexts]],
           disturbed \subseteq disturbed', faulted \subseteq faulted'
    PROVE  /\ ProxyTypeInv'
           /\ \A r \in Request : Answered(r)'
           /\ result' = result /\ place \notin {"evaluating", "fulfilled"} =>
                 \A v \in User : Chained(v)'
<1>1. /\ entry'[u] = place /\ entry' \in [User -> EntryPlace]
      /\ \A v \in User \ {u} : entry'[v] = entry[v]
  BY DEF ProxyIInv, ProxyTypeInv, EntryPlace
<1>2. ProxyTypeInv'
  BY <1>1 DEF ProxyIInv, ProxyTypeInv, EntryPlace
<1>3. ASSUME NEW r \in Request PROVE Answered(r)'
  <2>1. Answered(r) /\ <<r, Length[r]>> \in User /\ EntriesOf(r) \subseteq User
    BY ProxyAssumption, EntryForm DEF ProxyIInv, EntriesOf
  <2>2. reply[r] = "none" => u \notin EntriesOf(r)
    BY <2>1 DEF Answered
  <2>3. reply[r] = "none" => \A v \in EntriesOf(r) : entry'[v] = "new"
    BY <1>1, <2>1, <2>2 DEF Answered
  <2>4. reply[r] = "200" => entry'[<<r, Length[r]>>] = "fulfilled"
    BY <1>1, <2>1 DEF Answered
  <2>. QED
    BY <2>3, <2>4 DEF Answered
<1>4. ASSUME result' = result, place \notin {"evaluating", "fulfilled"}
      PROVE  \A v \in User : Chained(v)'
  BY <1>1, <1>4, ChainedKept
<1>. QED
  BY <1>2, <1>3, <1>4

LEMMA ReceiveStep ==
    ASSUME ProxyIInv, NEW r \in Request, Receive(r)
    PROVE  ProxyTypeInv' /\ (\A u \in User : Chained(u)') /\ \A q \in Request : Answered(q)'
<1>1. /\ reply[r] = "none" /\ reply' = [reply EXCEPT ![r] = "pending"]
      /\ entry' = [u \in User |-> IF u[1] = r THEN "constructing" ELSE entry[u]]
      /\ server' = server /\ result' = result /\ UNCHANGED flagVars
  BY DEF Receive
<1>2. ProxyTypeInv'
  BY <1>1 DEF ProxyIInv, ProxyTypeInv
<1>3. \A u \in User : u[1] = r => entry[u] = "new"
  <2>1. \A u \in User : u[1] = r => u \in EntriesOf(r)
    BY EntryForm DEF EntriesOf
  <2>. QED
    BY <1>1, <2>1 DEF ProxyIInv, Answered
<1>4. \A u \in User : Chained(u)'
  BY <1>1, <1>3, ChainedKept DEF flagVars
<1>5. ASSUME NEW q \in Request PROVE Answered(q)'
  <2>1. CASE q = r
    BY <1>1, <2>1 DEF Answered, ProxyIInv, ProxyTypeInv
  <2>2. CASE q # r
    <3>1. \A i \in 1..Length[q] : <<q, i>> \in User /\ entry'[<<q, i>>] = entry[<<q, i>>]
      BY <1>1, <2>2, EntryForm
    <3>2. Length[q] \in 1..Length[q] /\ reply'[q] = reply[q]
      BY <1>1, <2>2, EntryForm DEF ProxyIInv, ProxyTypeInv
    <3>3. Answered(q)
      BY DEF ProxyIInv
    <3>4. reply[q] = "none" => \A u \in EntriesOf(q) : entry'[u] = "new"
      BY <3>1, <3>3 DEF Answered, EntriesOf
    <3>5. reply[q] = "200" => entry'[<<q, Length[q]>>] = "fulfilled"
      BY <3>1, <3>2, <3>3 DEF Answered
    <3>. QED
      BY <3>2, <3>4, <3>5 DEF Answered
  <2>. QED
    BY <2>1, <2>2
<1>. QED
  BY <1>2, <1>4, <1>5

LEMMA ReplyStep ==
    ASSUME ProxyIInv, NEW r \in Request, Reply(r)
    PROVE  ProxyTypeInv' /\ (\A u \in User : Chained(u)') /\ \A q \in Request : Answered(q)'
<1>1. /\ reply[r] = "pending"
      /\ reply' = [reply EXCEPT ![r] =
             IF entry[<<r, Length[r]>>] = "fulfilled" THEN "200" ELSE "500"]
      /\ server' = server /\ entry' = entry /\ result' = result /\ UNCHANGED flagVars
  BY DEF Reply
<1>2. ProxyTypeInv'
  BY <1>1 DEF ProxyIInv, ProxyTypeInv
<1>3. \A u \in User : Chained(u)'
  BY <1>1, ChainedKept DEF flagVars
<1>4. \A q \in Request : Answered(q)'
  BY <1>1 DEF Answered, ProxyIInv, ProxyTypeInv
<1>. QED
  BY <1>2, <1>3, <1>4

(* A callback rejects. *)
LEMMA RejectStep ==
    ASSUME ProxyIInv, NEW u \in User, entry[u] \in {"constructing", "awaiting", "evaluating"},
           Reject(u), UNCHANGED <<result, reply>>,
           disturbed \subseteq disturbed', faulted \subseteq faulted'
    PROVE  ProxyTypeInv' /\ (\A v \in User : Chained(v)') /\ \A q \in Request : Answered(q)'
<1>1. entry' = [entry EXCEPT ![u] = "rejected"] /\ server' \in {"up", "stopping", "down"}
  BY DEF Reject, ProxyIInv, ProxyTypeInv
<1>2. result' \in [User -> [Key -> FlagTexts]] /\ "rejected" \in EntryPlace
  BY DEF ProxyIInv, ProxyTypeInv, EntryPlace
<1>. QED
  BY <1>1, <1>2, EntryMoves

(* An entry whose predecessors are fulfilled begins its evaluation. *)
LEMMA EvaluationBegins ==
    ASSUME ProxyIInv, NEW u \in User, entry[u] = "awaiting", Previous(u) = "fulfilled",
           entry' = [entry EXCEPT ![u] = "evaluating"],
           UNCHANGED <<flagVars, server, result, reply>>
    PROVE  ProxyTypeInv' /\ (\A v \in User : Chained(v)') /\ \A q \in Request : Answered(q)'
<1>1. /\ entry'[u] = "evaluating" /\ \A v \in User \ {u} : entry'[v] = entry[v]
  BY DEF ProxyIInv, ProxyTypeInv
<1>2. /\ result' \in [User -> [Key -> FlagTexts]] /\ "evaluating" \in EntryPlace
      /\ server' \in {"up", "stopping", "down"} /\ disturbed' = disturbed /\ faulted' = faulted
  BY DEF ProxyIInv, ProxyTypeInv, EntryPlace, flagVars
<1>3. ProxyTypeInv' /\ \A q \in Request : Answered(q)'
  BY <1>2, EntryMoves
<1>4. ASSUME NEW v \in User PROVE Chained(v)'
  <2>1. CASE v = u
    <3>1. Previous(u)' = "fulfilled"
      <4>1. CASE u[2] = 1
        BY <4>1 DEF Previous
      <4>2. CASE u[2] # 1
        <5>1. <<u[1], u[2] - 1>> \in User /\ entry[<<u[1], u[2] - 1>>] = "fulfilled"
          BY <4>2, PreviousForm DEF Previous
        <5>2. entry'[<<u[1], u[2] - 1>>] = "fulfilled"
          BY <1>1, <5>1
        <5>. QED
          BY <4>2, <5>2 DEF Previous
      <4>. QED
        BY <4>1, <4>2
    <3>. QED
      BY <1>1, <2>1, <3>1 DEF Chained
  <2>2. CASE v # u
    <3>1. Chained(v) /\ entry'[v] = entry[v]
      BY <1>1, <2>2 DEF ProxyIInv
    <3>2. Previous(v) = "fulfilled" => Previous(v)' = "fulfilled"
      <4>1. CASE v[2] = 1
        BY <4>1 DEF Previous
      <4>2. CASE v[2] # 1
        BY <1>1, <4>2, PreviousForm DEF Previous
      <4>. QED
        BY <4>1, <4>2
    <3>3. \A w : Clean(w)' = Clean(w)
      BY <1>2 DEF Clean
    <3>4. \A k \in Key : HandsOn(v, k) => HandsOn(v, k)'
      BY DEF HandsOn, OwnFlag
    <3>. QED
      BY <3>1, <3>2, <3>3, <3>4 DEF Chained
  <2>. QED
    BY <2>1, <2>2
<1>. QED
  BY <1>3, <1>4

(* What an entry adds to what the entries before it hand on. *)
LEMMA PipeKeepsFlags ==
    ASSUME ProxyIInv, NEW u \in User, entry[u] = "evaluating", phase[u] = "returned",
           \A i \in 1..u[2] : Clean(<<u[1], i>>), NEW k \in Key
    PROVE  LET text == IF answer[u][k] # Empty THEN answer[u][k] ELSE Piped(u)[k]
           IN  \/ /\ \A i \in 1..u[2] : OwnFlag(<<u[1], i>>, k) = Empty
                  /\ text = Empty
               \/ \E i \in 1..u[2] :
                     /\ OwnFlag(<<u[1], i>>, k) # Empty
                     /\ \A j \in (i + 1)..u[2] : OwnFlag(<<u[1], j>>, k) = Empty
                     /\ text = OwnFlag(<<u[1], i>>, k)
<1>. DEFINE text == IF answer[u][k] # Empty THEN answer[u][k] ELSE Piped(u)[k]
            Flag(i) == OwnFlag(<<u[1], i>>, k)
<1>. PICK n \in Nat : n = u[2] /\ n >= 1 /\ u = <<u[1], n>>
  BY EntryForm
<1>1. Clean(u)
  BY EntryForm
<1>2. answer[u][k] = Flag(n)
  BY <1>1 DEF ProxyIInv, FlagInv, OwnProvider
<1>3. CASE Flag(n) # Empty
  <2>1. text = Flag(n) /\ n \in 1..n /\ (n + 1)..n = {}
    BY <1>2, <1>3
  <2>. QED
    BY <1>3, <2>1
<1>4. CASE Flag(n) = Empty /\ n = 1
  BY <1>2, <1>4 DEF Piped
<1>5. CASE Flag(n) = Empty /\ n # 1
  <2>1. PICK v \in User : v = <<u[1], n - 1>>
    BY <1>5, PreviousForm
  <2>2. v[1] = u[1] /\ v[2] = n - 1
    BY <2>1
  <2>3. text = result[v][k] /\ entry[v] = "fulfilled"
    BY <1>2, <1>5, <2>1 DEF Piped, ProxyIInv, Chained, Previous
  <2>4. \A i \in 1..(n - 1) : Clean(<<v[1], i>>)
    BY <2>2
  <2>5. HandsOn(v, k)
    BY <2>2, <2>3, <2>4 DEF ProxyIInv, Chained
  <2>6. \/ (\A i \in 1..(n - 1) : Flag(i) = Empty) /\ text = Empty
        \/ \E i \in 1..(n - 1) :
              /\ Flag(i) # Empty
              /\ \A j \in (i + 1)..(n - 1) : Flag(j) = Empty
              /\ text = Flag(i)
    BY <2>2, <2>3, <2>5 DEF HandsOn
  <2>7. CASE (\A i \in 1..(n - 1) : Flag(i) = Empty) /\ text = Empty
    <3>1. \A i \in 1..n : i = n \/ i \in 1..(n - 1)
      OBVIOUS
    <3>. QED
      BY <1>5, <2>7, <3>1
  <2>8. ASSUME NEW i \in 1..(n - 1), Flag(i) # Empty, text = Flag(i),
               \A j \in (i + 1)..(n - 1) : Flag(j) = Empty
        PROVE  i \in 1..n /\ \A j \in (i + 1)..n : Flag(j) = Empty
    <3>1. i \in 1..n /\ \A j \in (i + 1)..n : j = n \/ j \in (i + 1)..(n - 1)
      OBVIOUS
    <3>. QED
      BY <1>5, <2>8, <3>1
  <2>. QED
    BY <2>6, <2>7, <2>8
<1>. QED
  BY <1>3, <1>4, <1>5

LEMMA EndEntryStep ==
    ASSUME ProxyIInv, NEW u \in User, EndEntry(u)
    PROVE  ProxyTypeInv' /\ (\A v \in User : Chained(v)') /\ \A q \in Request : Answered(q)'
<1>. DEFINE values ==
       [k \in Key |-> IF answer[u][k] # Empty THEN answer[u][k] ELSE Piped(u)[k]]
<1>1. /\ entry[u] = "evaluating" /\ phase[u] = "returned"
      /\ entry' = [entry EXCEPT ![u] = "fulfilled"]
      /\ result' = [result EXCEPT ![u] = values]
      /\ server' = server /\ reply' = reply /\ disturbed' = disturbed /\ faulted' = faulted
  BY DEF EndEntry, flagVars
<1>2. values \in [Key -> FlagTexts]
  <2>1. \A k \in Key : Piped(u)[k] \in FlagTexts
    BY PreviousForm DEF Piped, ProxyIInv, ProxyTypeInv, FlagTexts
  <2>2. \A k \in Key : answer[u][k] \in FlagTexts
    BY DEF ProxyIInv, FlagInv, FlagTypeInv
  <2>. QED
    BY <2>1, <2>2
<1>3. /\ result' \in [User -> [Key -> FlagTexts]] /\ result'[u] = values
      /\ \A v \in User \ {u} : result'[v] = result[v]
  BY <1>1, <1>2 DEF ProxyIInv, ProxyTypeInv
<1>4. /\ entry'[u] = "fulfilled" /\ \A v \in User \ {u} : entry'[v] = entry[v]
  BY <1>1 DEF ProxyIInv, ProxyTypeInv
<1>5. ProxyTypeInv' /\ \A q \in Request : Answered(q)'
  <2>1. "fulfilled" \in EntryPlace /\ server' \in {"up", "stopping", "down"}
    BY <1>1 DEF EntryPlace, ProxyIInv, ProxyTypeInv
  <2>. QED
    BY <1>1, <1>3, <2>1, EntryMoves
<1>6. \A w : Clean(w)' = Clean(w)
  BY <1>1 DEF Clean
<1>7. ASSUME NEW v \in User, Previous(v) = "fulfilled" PROVE Previous(v)' = "fulfilled"
  <2>1. CASE v[2] = 1
    BY <2>1 DEF Previous
  <2>2. CASE v[2] # 1
    BY <1>4, <1>7, <2>2, PreviousForm DEF Previous
  <2>. QED
    BY <2>1, <2>2
<1>8. ASSUME NEW v \in User, v # u PROVE Chained(v)'
  <2>1. Chained(v) /\ entry'[v] = entry[v] /\ result'[v] = result[v]
    BY <1>3, <1>4, <1>8 DEF ProxyIInv
  <2>2. \A k \in Key : HandsOn(v, k) => HandsOn(v, k)'
    BY <2>1 DEF HandsOn, OwnFlag
  <2>. QED
    BY <1>6, <1>7, <2>1, <2>2 DEF Chained
<1>9. Chained(u)'
  <2>1. Previous(u) = "fulfilled"
    BY <1>1 DEF ProxyIInv, Chained
  <2>2. ASSUME \A i \in 1..u[2] : Clean(<<u[1], i>>), NEW k \in Key PROVE HandsOn(u, k)'
    <3>1. result'[u][k] = IF answer[u][k] # Empty THEN answer[u][k] ELSE Piped(u)[k]
      BY <1>3
    <3>. HIDE DEF values
    <3>. QED
      BY <1>1, <2>2, <3>1, PipeKeepsFlags DEF HandsOn, OwnFlag
  <2>. QED
    BY <1>6, <1>7, <2>1, <2>2 DEF Chained
<1>. QED
  BY <1>5, <1>8, <1>9

LEMMA ProxyStep == ProxyIInv /\ [ProxyNext]_proxyVars => ProxyIInv'
<1>. SUFFICES ASSUME ProxyIInv, [ProxyNext]_proxyVars PROVE ProxyIInv'
  OBVIOUS
<1>. DEFINE Goal == /\ ProxyTypeInv' /\ \A u \in User : Chained(u)'
                    /\ \A r \in Request : Answered(r)'
<1>1. FlagInv' /\ disturbed \subseteq disturbed' /\ faulted \subseteq faulted'
  BY FlagInvStep, HistoryGrows DEF ProxyIInv
<1>2. ASSUME UNCHANGED <<server, entry, result, reply>> PROVE Goal
  <2>1. \A u \in User : Chained(u)'
    BY <1>1, <1>2, ChainedKept
  <2>. QED
    BY <1>2, <2>1 DEF ProxyIInv, ProxyTypeInv, Answered
<1>3. ASSUME NEW r \in Request, Receive(r) \/ Reply(r) PROVE Goal
  BY <1>3, ReceiveStep, ReplyStep
<1>4. ASSUME NEW u \in User, EntryStep(u) PROVE Goal
  <2>1. CASE Construct(u)
    <3>1. /\ entry' = [entry EXCEPT ![u] = "awaiting"] /\ entry[u] = "constructing"
          /\ server' = server /\ result' = result /\ reply' = reply /\ "awaiting" \in EntryPlace
      BY <2>1 DEF Construct, EntryPlace
    <3>. QED
      BY <1>1, <3>1, EntryMoves DEF ProxyIInv, ProxyTypeInv
  <2>2. CASE AwaitPrevious(u)
    <3>1. CASE /\ entry[u] = "awaiting" /\ Previous(u) = "fulfilled"
               /\ entry' = [entry EXCEPT ![u] = "evaluating"]
               /\ UNCHANGED <<flagVars, server, result, reply>>
      BY <3>1, EvaluationBegins
    <3>2. CASE /\ entry[u] = "awaiting" /\ Reject(u) /\ UNCHANGED <<result, reply>>
      BY <1>1, <3>2, RejectStep
    <3>. QED
      BY <2>2, <3>1, <3>2 DEF AwaitPrevious
  <2>3. CASE StoreStep(u)
    BY <1>2, <2>3 DEF StoreStep
  <2>4. CASE StoreRejects(u)
    BY <1>1, <2>4, RejectStep DEF StoreRejects
  <2>5. CASE EndEntry(u)
    BY <2>5, EndEntryStep
  <2>. QED
    BY <1>4, <2>1, <2>2, <2>3, <2>4, <2>5 DEF EntryStep
<1>5. ASSUME NEW u \in User, EntryFault(u) PROVE Goal
  <2>1. CASE StoreFault(u)
    BY <1>2, <2>1 DEF StoreFault
  <2>2. CASE ConstructFails(u) \/ EndFails(u)
    BY <1>1, <2>2, RejectStep DEF ConstructFails, EndFails
  <2>. QED
    BY <1>5, <2>1, <2>2 DEF EntryFault
<1>6. ASSUME Exit PROVE Goal
  <2>1. /\ server' \in {"up", "stopping", "down"}
        /\ entry' = entry /\ result' = result /\ reply' = reply
    BY <1>6 DEF Exit
  <2>2. \A u \in User : Chained(u)'
    BY <1>1, <2>1, ChainedKept
  <2>. QED
    BY <2>1, <2>2 DEF ProxyIInv, ProxyTypeInv, Answered
<1>7. Goal
  <2>. HIDE DEF Goal
  <2>. QED
    BY <1>2, <1>3, <1>4, <1>5, <1>6 DEF ProxyNext, proxyVars
<1>. QED
  BY <1>1, <1>7 DEF ProxyIInv

-----------------------------------------------------------------------------

(* In every reachable state a store that nothing disturbed has asked its   *)
(* own provider, and every fulfilled entry hands on what such stores found.*)
THEOREM ProxyInvariant == ProxySpec => []ProxyIInv
BY ProxyStart, ProxyStep, PTL DEF ProxySpec

(* A request whose entries met no failure, and whose providers nobody      *)
(* replaced or closed while they were used, is answered with its own flags,*)
(* for any number of requests, entries, keys and flags (proxy.ts).         *)
THEOREM RepliesAreTheRequests == ProxySpec => []RepliesAreOwn
<1>1. ASSUME ProxyIInv, NEW r \in Request, reply[r] = "200",
             EntriesOf(r) \cap (disturbed \cup faulted) = {}, NEW k \in Key
      PROVE  \/ /\ {u \in EntriesOf(r) : OwnFlag(u, k) # Empty} = {}
                /\ result[<<r, Length[r]>>][k] = Empty
             \/ \E u \in {u \in EntriesOf(r) : OwnFlag(u, k) # Empty} :
                   /\ \A v \in {v \in EntriesOf(r) : OwnFlag(v, k) # Empty} : v[2] <= u[2]
                   /\ result[<<r, Length[r]>>][k] = OwnFlag(u, k)
  <2>1. PICK last \in User : last = <<r, Length[r]>> /\ last[1] = r /\ last[2] = Length[r]
    <3>1. Length[r] \in 1..Length[r]
      BY EntryForm
    <3>2. <<r, Length[r]>> \in User
      BY <3>1, EntryForm
    <3>. QED
      BY <3>2
  <2>2. \A i \in 1..last[2] : Clean(<<last[1], i>>)
    BY <1>1, <2>1 DEF Clean, EntriesOf
  <2>3. entry[last] = "fulfilled" /\ Length[r] \in Nat
    BY <1>1, <2>1, EntryForm DEF ProxyIInv, Answered
  <2>4. HandsOn(last, k)
    BY <1>1, <2>2, <2>3 DEF ProxyIInv, Chained
  <2>5. CASE /\ \A i \in 1..last[2] : OwnFlag(<<last[1], i>>, k) = Empty
             /\ result[last][k] = Empty
    <3>1. \A u \in EntriesOf(r) : OwnFlag(u, k) = Empty
      BY <2>1, <2>5 DEF EntriesOf
    <3>. QED
      BY <2>1, <2>5, <3>1
  <2>6. ASSUME NEW i \in 1..last[2], OwnFlag(<<last[1], i>>, k) # Empty,
               \A j \in (i + 1)..last[2] : OwnFlag(<<last[1], j>>, k) = Empty,
               result[last][k] = OwnFlag(<<last[1], i>>, k)
        PROVE  \E u \in {u \in EntriesOf(r) : OwnFlag(u, k) # Empty} :
                   /\ \A v \in {v \in EntriesOf(r) : OwnFlag(v, k) # Empty} : v[2] <= u[2]
                   /\ result[<<r, Length[r]>>][k] = OwnFlag(u, k)
    <3>1. <<r, i>> \in {u \in EntriesOf(r) : OwnFlag(u, k) # Empty}
      BY <2>1, <2>6 DEF EntriesOf
    <3>2. ASSUME NEW j \in 1..Length[r], OwnFlag(<<r, j>>, k) # Empty PROVE j <= i
      BY <2>1, <2>3, <2>6, <3>2
    <3>3. \A v \in {v \in EntriesOf(r) : OwnFlag(v, k) # Empty} : v[2] <= <<r, i>>[2]
      BY <3>2 DEF EntriesOf
    <3>. QED
      BY <2>1, <2>6, <3>1, <3>3
  <2>. QED
    BY <2>3, <2>4, <2>5, <2>6, <2>1 DEF HandsOn
<1>2. ProxyIInv => RepliesAreOwn
  BY <1>1 DEF RepliesAreOwn
<1>. QED
  BY <1>2, ProxyInvariant, PTL

=============================================================================
