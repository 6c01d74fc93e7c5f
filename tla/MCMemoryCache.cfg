\* Three clients of one key; a limit of two calls per three time units.
SPECIFICATION Spec
CONSTANTS
    Client = {c1, c2, c3}
    TTL = {0, 1, 2}
    Limit = 2
    Window = 3
    ByteRange = 3
    MaxDelay = 1
SYMMETRY Symmetry
INVARIANTS
    LockExcludes
    LimitHolds
