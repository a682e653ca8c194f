SPECIFICATION Spec
CONSTANTS
    Specs = {"ssh", "lan4", "lan6", "mix"}
    AddrOf <- MCAddrOf
    Acts = {"allow"}
    Policies = {"allow"}
    LogLevels = {"off"}
    Modules = {}
    DefaultSettings <- MCDefaults
    DefaultModules = {}
    MaxFaults = 0
    MaxKills = 0
    Batches <- MCBatches
    Profiles = {}
    Commands = {"addRules", "moveRule"}
INVARIANTS
    MoveKeepsRules
