SPECIFICATION FairSpec
CONSTANTS
    VoiceCount = 3
    SynthCount = 2
    OMNI = omni
    Lower = lower
    Channels = {lower}
    Keys <- TwoKeys
    midichannel <- Layered
    voicecount <- LayeredCounts
    Unison = {}
    Expiring = {}
    ReleasePeriods = 1
    RingSlots = 0
    MaxEvents = 5
    Direct = TRUE
    MidiWait = TRUE
    SlowAudio = FALSE
INVARIANTS
    VoicesPartitioned
    VoiceLimit
    NoStuckNote
    TriggersSeen
PROPERTIES
    SilentAfterNotesOff
    EventuallySilent
