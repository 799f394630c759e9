SPECIFICATION FairSpec
CONSTANTS
    Guis <- MCGuis
    Slots = 5
    Setups <- MCSetups
INVARIANTS
    SentAsTaken
PROPERTIES
    AllTakenSent
    SaveReachesAll
