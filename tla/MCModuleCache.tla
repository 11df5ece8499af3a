---------------------------- MODULE MCModuleCache ----------------------------
(* A store on top of another, of one repository, both on the SDK of another*)
(* one.                                                                    *)
EXTENDS ModuleCache, TLC

CONSTANTS t1, t2, sdk, base, store

MCDeps == (sdk :> <<>>) @@ (base :> <<sdk>>) @@ (store :> <<sdk, base>>)
MCNeeds == (sdk :> {sdk}) @@ (base :> {base, sdk}) @@ (store :> {store, base, sdk})
MCArchive == (sdk :> "configu") @@ (base :> "stores") @@ (store :> "stores")

Symmetric == Permutations({t1, t2})

=============================================================================
