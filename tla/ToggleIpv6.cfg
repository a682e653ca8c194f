SPECIFICATION Spec
CONSTANTS
    Specs = {"ssh"}
    AddrOf <- MCAddrOf
    Acts = {"allow"}
    Policies = {"allow"}
    LogLevels = {"off"}
    Modules = {}
    DefaultSettings <- MCDefaults
    DefaultModules = {}
    MaxFaults = 0
    MaxKills = 0
    Batches <- MCBatches
    Profiles = {}
    Commands = {"setStatus", "setDefaults"}
INVARIANTS
    TogglingIpv6KeepsStatus
