SPECIFICATION FairSpec
CONSTANTS
    VoiceCount = 2
    SynthCount = 2
    OMNI = omni
    Lower = lower
    Channels = {lower}
    Keys <- OneKey
    midichannel <- OmniLayer
    voicecount <- LayeredCounts
    Unison = {2}
    Expiring = {1}
    ReleasePeriods = 1
    RingSlots = 1
    MaxEvents = 3
    Direct = FALSE
    MidiWait = TRUE
    SlowAudio = FALSE
INVARIANTS
    ListInv
    NoFreedOwner
PROPERTIES
    OrphansReclaimed
