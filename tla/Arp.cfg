SPECIFICATION FairSpec
CONSTANTS
    Keys = {1, 2, 3}
    VoiceCount = 3
    Spans = {1, 2}
    SeqMax = 5
    Setups <- MCSetups
INVARIANTS
    KeysListed
PROPERTIES
    EachPlayed
    WalksInTable
CHECK_DEADLOCK FALSE
