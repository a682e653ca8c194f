SPECIFICATION Spec
CONSTANTS
    Specs = {"ssh", "lan4", "lan6", "mix"}
    AddrOf <- MCAddrOf
    Acts = {"allow"}
    Policies = {"allow"}
    LogLevels = {"off", "low"}
    Modules = {"ftp"}
    DefaultSettings <- MCDefaults
    DefaultModules = {}
    MaxFaults = 1
    MaxKills = 1
    Batches <- MCBatches
    Profiles <- MCProfiles
    Commands = {"setStatus", "setDefaults", "setModules", "setProfile", "reset", "addRules", "removeRule", "moveRule", "editRule", "query"}
INVARIANTS
    TypeOK
    OthersKeepTheirOrder
    OnlySetStatusEnables
    SuccessMeansDone
PROPERTIES
    ImplementsFirewall
    EveryCallIsAnswered
