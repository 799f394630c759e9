SPECIFICATION FairSpec
CONSTANTS
    g1 = g1
    g2 = g2
    g3 = g3
    g4 = g4
    Guis = {g1, g2, g3, g4}
    Nil = Nil
    NumDevs = 5
    Setups <- MCSetups
INVARIANTS
    ConnectionsServed
    NotesOnce
    HandlesMatch
    ExitsUnused
PROPERTIES
    EndsWhenAllDie
CHECK_DEADLOCK FALSE
