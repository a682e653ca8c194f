SPECIFICATION Spec
CONSTANTS
    Kinds = {"edit"}
    V6Addresses = {"fe80::1", "::/0"}
    PortNumber <- MCPortNumber
    Apps <- MCNoApps
    Services <- MCServices
    ListedRules <- MCMade
    LogLines <- MCLines
    Acts = {"allow", "deny"}
    Logs = {"", "log"}
    Hosts = {"", "1.2.3.4", "fe80::1", "1.2"}
    PortTexts = {"", "ssh", "80,443", "nosuch"}
    Interfaces = {"", "eth0"}
    Addresses = {"1.2.3.4", "5.6.7.8", "fe80::1"}
    Ports = {"ssh", "22", "1234", "4444", "80,443", "6881:6891"}
    Lists = {"80,443", "6881:6891"}
    Squeezed <- MCSqueezed
    MaxTouches = 0
INVARIANTS
    UnchangedRuleIsNotSent
