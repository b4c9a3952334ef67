SPECIFICATION AllocSpec
CONSTANTS
    bitcount = 6
    Caller = {c1, c2, c3}
    None = none
    PageCounts = {1, 2, 3}
INVARIANTS
    HeldDisjoint
