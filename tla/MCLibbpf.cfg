CONSTANTS
    None = None
    Garbage = Garbage
    key1 = key1
    key2 = key2
    key3 = key3
    val1 = val1
    val2 = val2
SPECIFICATION Spec
INVARIANTS
    TypeOK
    ObjectRight
    ProgramsRight
    TypesRight
PROPERTIES
    LoadEnds
    ImplementsMultimap
CHECK_DEADLOCK FALSE
