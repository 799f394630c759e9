SPECIFICATION Spec
CONSTANTS
    Keys <- MCKeys
    VoiceCount = 2
    Preferences <- MCPreferences
    Setups <- MCSetups
INVARIANTS
    LegatoKeepsEnvelope
PROPERTIES
    OneSounding
    PlaysHeldKeys
    PedalHolds
