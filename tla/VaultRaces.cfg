SPECIFICATION Spec
CONSTANTS
    v1 = v1
    s1 = s1
    k1 = k1
    Vaults = {v1}
    Items = {s1}
    VaultOf <- OneVault
    TableOf <- SecretAndKey
    Clients = {c1, c2}
    Scheduler = Scheduler
    Existing = {v1, s1}
    NoVault = NoVault
    NoItem = NoItem
    GlobalPurgeProtection = FALSE
    RetentionDays = 1
    VaultRetention <- GlobalRetention
    SchedulerOn = TRUE
    MayFail = TRUE
    Serial = FALSE
    Workload <- AllOps
    MaxRequests = 3
    MaxTime = 1
INVARIANTS AuditedRemoval
PROPERTIES UserDeletionSticks SweepSparesRecoverable
SYMMETRY ClientSymmetry
CHECK_DEADLOCK FALSE
