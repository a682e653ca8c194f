SPECIFICATION Spec
CONSTANTS
    Specs = {"ssh", "lan4", "lan6"}
    AddrOf <- MCAddrOf
    Acts = {"allow"}
    Policies = {"allow"}
    LogLevels = {"off"}
    Modules = {}
    DefaultSettings <- MCDefaults
    DefaultModules = {}
    BlankSettings <- MCDefaults
    MaxFaults = 1
    MaxKills = 0
    SavedProfiles = {}
    Gestures = {"rules", "move", "select", "ipv6", "log"}
INVARIANTS
    TypeOK
    IdleViewIsCurrent
    NumberMeansShownRule
    MoveTargetOnlyDuringMove
    ReleasedWhenIdle
PROPERTIES
    MovedRuleStaysSelected
