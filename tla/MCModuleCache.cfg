\* Two tasks, a fault, a crash and a purge.
CONSTANTS
    t1 = t1  t2 = t2  sdk = sdk  base = base  store = store
    Task = {t1, t2}
    Package = {sdk, base, store}
    Sdk = sdk
    Absent = Absent
    Deps <- MCDeps
    Needs <- MCNeeds
    Archive <- MCArchive
    Wanted = {store, base}
    MaxCalls = 3
    MaxOutages = 1
    MaxKills = 1
    MaxPurges = 1
SPECIFICATION CacheSpec
SYMMETRY Symmetric
CHECK_DEADLOCK FALSE
INVARIANTS
    CachedIsNotFetched
PROPERTY AloneRegisters
