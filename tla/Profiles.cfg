SPECIFICATION Spec
CONSTANTS
    Names = {n1, n2}
    Contents = {c1, c2}
    None = None
    MaxFailures = 1
INVARIANTS
    TypeOK
    RememberedIsListed
    OwnEntriesHaveFiles
PROPERTIES
    RefreshListsEverything
    OwnProfilesStay
