SPECIFICATION Spec
CONSTANTS
    VadWindow = 2
    MinSpeech = 2
    MinSilence = 2
    SpeechPad = 2
    MaxLen = 21
    N_SAMPLES = 12
INVARIANTS SegmentsAreReference SpeechIsCovered WindowsAreFull
PROPERTY SegmentsAreStable
CHECK_DEADLOCK FALSE
