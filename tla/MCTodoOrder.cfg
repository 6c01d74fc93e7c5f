\* Decimal ids, as in the code: the tenth todo changes the length of an id.
SPECIFICATION TodoSpec
CONSTANTS
    Clients = {c1}
    Radix = 10
    IntHalf = 64
    defaultPageSize = 2
    maxPageSize = 3
    MaxSeq = 10
    MaxWrites = 0
INVARIANT
    NewestFirst
CHECK_DEADLOCK FALSE
