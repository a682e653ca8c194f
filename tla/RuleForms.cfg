SPECIFICATION Spec
CONSTANTS
    Kinds = {"add", "edit"}
    V6Addresses = {"fe80::1", "::/0"}
    PortNumber <- MCPortNumber
    Apps <- MCApps
    Services <- MCServices
    ListedRules <- MCListed
    LogLines <- MCLines
    Acts = {"allow", "deny"}
    Logs = {"", "log"}
    Hosts = {"", "1.2.3.4", "fe80::1", "1.2"}
    PortTexts = {"", "ssh", "80,443", "nosuch"}
    Interfaces = {"", "eth0"}
    Addresses = {"1.2.3.4", "5.6.7.8", "fe80::1"}
    Ports = {"ssh", "22", "1234", "4444", "80,443", "6881:6891"}
    Lists = {"80,443", "6881:6891"}
    Squeezed <- MCSqueezed
    MaxTouches = 3
INVARIANTS
    TypeOK
    SentRulesAreWellFormed
    EditKeepsEveryPort
    ReadBackIsWhatWasSent
    ListedRuleSurvivesProfile
    EditChangesOnlyWhatWasTouched
