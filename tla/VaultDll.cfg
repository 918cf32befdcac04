CONSTANTS
    MaxSectors = 4
    Null = Null
SPECIFICATION Spec
INVARIANTS
    TypeOK
    WalksAgreeWithFlags
PROPERTY
    ImplementsLists
