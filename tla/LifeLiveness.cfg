SPECIFICATION FairSpec
CONSTANTS
    g1 = g1
    g2 = g2
    g3 = g3
    Guis = {g1, g2, g3}
    Nil = Nil
    Setups <- LiveSetups
PROPERTIES
    HandshakeEnds
    FailureEnds
    MidiComesBack
    EngineEnds
CHECK_DEADLOCK FALSE
