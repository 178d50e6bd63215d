SPECIFICATION MCSpec
CONSTANTS
    Jobs = {1, 2, 3}
    None = None
    BatchLimit = 2
    MaxAttempts = 2
    MaxFaults = 2
    VultrAliases = {"vultr a"}
    ProxmoxAliases = {"proxmox a", "proxmox b"}
    OtherAliases = {}
    GivenLabels = {"mine"}
    PageSize = 2
    Viewers = {1, 2}
    CacheTtl = 2
    Orders = {"order 1", "order 2"}
    HostNames = {"web", "db"}
    Vms = {1, 2}
    MaxTries = 2
    MaxOps = 2
    MaxLost = 1
    MaxClock = 3
CHECK_DEADLOCK FALSE
INVARIANTS TablesAreTrue HostsAreTrue
PROPERTIES JobsKeepLedger JobsEnd
