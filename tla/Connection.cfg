SPECIFICATION Spec
CONSTANTS
    Word64 = 1048576
    Word32 = 65536
    MaxGroups = 3
    Configs <- MCConfigs
    WellFormed <- MCWellFormed
    Supported <- MCSupported
    Complete <- MCComplete
    Hellos <- MCHellos
    Unknown <- MCUnknown
    MoreResponses <- MCMoreResponses
    LastResponses <- MCLastResponses
    MaxResponses = 3
    DefaultHello <- MCDefaultHello
    SampleRate = 16000
    RingBytes = 300000
    FrameMax = 100
    SocketBytes = 16
INVARIANTS HelloIsUnderstood JobsAreServable RingIsShared
PROPERTIES ImplementsConversation ClientLearns
CHECK_DEADLOCK FALSE
