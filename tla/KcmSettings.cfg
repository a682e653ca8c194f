SPECIFICATION Spec
CONSTANTS
    Specs = {"ssh"}
    AddrOf <- MCAddrOf
    Acts = {"allow"}
    Policies = {"allow"}
    LogLevels = {"off", "low"}
    Modules = {"ftp"}
    DefaultSettings <- MCDefaults
    DefaultModules = {}
    BlankSettings <- MCDefaults
    MaxFaults = 1
    MaxKills = 1
    SavedProfiles <- MCProfiles
    Gestures = {"status", "ipv6", "combos", "wheel", "modules", "defaults", "refresh", "profiles", "rules"}
INVARIANTS
    IdleViewIsCurrent
    BlockedWhileBusy
PROPERTIES
    EventuallyReleased
