SPECIFICATION Spec
CONSTANTS
    s1 = s1
    s2 = s2
    w1 = w1
    w2 = w2
    Sessions = {s1}
    Workers = {w1, w2}
    MaxChunks = 5
    ChunkQueue = 1
    ResponseQueue = 2
    JobQueue = 1
    MaxActive = 2
    MaxInFlight = 2
    WindowLen = 3
    HasVad = TRUE
    VadWindow = 1
    MinSpeech = 1
    MinSilence = 1
    SpeechPad = 1
    SilenceTimeout = 2
    Faults = {"cancel", "bad signal", "leave", "bad stream"}
    LoadFailures = TRUE
    TaskFailures = FALSE
SYMMETRY Symmetry
INVARIANTS WindowsFit VadResultsFit SpeechComesFirst
PROPERTIES ImplementsPromise
