\* Two clients; ids in base 3, so that the third id has two digits.
SPECIFICATION TodoSpec
CONSTANTS
    Clients = {c1, c2}
    Radix = 3
    IntHalf = 8
    defaultPageSize = 2
    maxPageSize = 2
    MaxSeq = 4
    MaxWrites = 2
SYMMETRY Symmetry
INVARIANTS
    DeletedStaysDeleted
    PagesPartition
PROPERTY
    UndisturbedUpdateKeepsTitle
CHECK_DEADLOCK FALSE
