SPECIFICATION ClientSpec
CONSTANTS
    s1 = s1
    s2 = s2
    w1 = w1
    w2 = w2
    Sessions = {s1}
    Workers = {w1}
    MaxChunks = 7
    ChunkQueue = 1
    ResponseQueue = 1
    JobQueue = 1
    MaxActive = 2
    MaxInFlight = 2
    WindowLen = 1
    HasVad = FALSE
    VadWindow = 1
    MinSpeech = 1
    MinSilence = 1
    SpeechPad = 0
    SilenceTimeout = 2
    Faults = {}
    StreamUnits = 7
    ChunkUnits = 1
    RingUnits = 1
    SocketResponses = 1
    Split = FALSE
    LoadFailures = FALSE
    TaskFailures = FALSE
PROPERTIES ClientIsAnswered
CHECK_DEADLOCK FALSE
