SPECIFICATION ClientSpec
CONSTANTS
    s1 = s1
    s2 = s2
    w1 = w1
    w2 = w2
    Sessions = {s1}
    Workers = {w1}
    MaxChunks = 4
    ChunkQueue = 1
    ResponseQueue = 1
    JobQueue = 1
    MaxActive = 2
    MaxInFlight = 2
    WindowLen = 3
    HasVad = TRUE
    VadWindow = 2
    MinSpeech = 1
    MinSilence = 1
    SpeechPad = 1
    SilenceTimeout = 2
    Faults = {"cancel", "bad signal", "leave", "bad stream"}
    StreamUnits = 7
    ChunkUnits = 2
    RingUnits = 3
    SocketResponses = 1
    Split = TRUE
    LoadFailures = FALSE
    TaskFailures = FALSE
INVARIANTS StreamIsDelivered
PROPERTIES ClientIsAnswered
CHECK_DEADLOCK FALSE
