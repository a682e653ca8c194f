SPECIFICATION Spec
CONSTANTS
    MaxLines = 4
INVARIANTS
    TypeOK
    EachLineOnceInOrder
PROPERTIES
    RefreshShowsAll
