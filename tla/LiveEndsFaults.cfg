SPECIFICATION FairSpec
CONSTANTS
    s1 = s1
    s2 = s2
    w1 = w1
    w2 = w2
    Sessions = {s1, s2}
    Workers = {w1}
    MaxChunks = 1
    ChunkQueue = 1
    ResponseQueue = 1
    JobQueue = 1
    MaxActive = 2
    MaxInFlight = 2
    WindowLen = 2
    HasVad = FALSE
    VadWindow = 1
    MinSpeech = 1
    MinSilence = 1
    SpeechPad = 0
    SilenceTimeout = 2
    Faults = {"leave", "bad stream", "no thread"}
    LoadFailures = FALSE
    TaskFailures = TRUE
PROPERTIES SessionsEnd JobsEnd
