SPECIFICATION FairSpec
CONSTANTS
    v1 = v1
    s1 = s1
    k1 = k1
    Vaults = {v1}
    Items = {s1, k1}
    VaultOf <- OneVault
    TableOf <- SecretAndKey
    Clients = {c1}
    Scheduler = Scheduler
    Existing = {}
    NoVault = NoVault
    NoItem = NoItem
    GlobalPurgeProtection = FALSE
    RetentionDays = 1
    VaultRetention <- GlobalRetention
    SchedulerOn = TRUE
    MayFail = FALSE
    Serial = TRUE
    Workload <- AllOps
    MaxRequests = 5
    MaxTime = 6
INVARIANTS CascadeExact CacheFresh NoStrandedRows
PROPERTIES ExpiredAreRemoved
CHECK_DEADLOCK FALSE
