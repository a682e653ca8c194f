SPECIFICATION Spec
CONSTANTS
    Specs = {"ssh"}
    AddrOf <- MCAddrOf
    Acts = {"allow"}
    Policies = {"allow"}
    LogLevels = {"off"}
    Modules = {}
    DefaultSettings <- MCDefaults
    DefaultModules = {}
    BlankSettings <- MCDefaults
    MaxFaults = 0
    MaxKills = 0
    SavedProfiles = {}
    Gestures = {"rules", "log"}
INVARIANTS
    AddRuleBesideLogViewer
