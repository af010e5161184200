SPECIFICATION BeamSpec
CONSTANTS
  TextIds = 2
  Blanks = {1}
  Timestamps = 4
  Requests <- MCRequests
  T_CACHE = 7
  Reserve = 2
  MinRoom = 0
  MaxPasses = 3
  RepeatLen = 1
  Size = 2
INVARIANTS RoomToGenerate AttendsToContext EveryPassAdvances WordsAreKept
PROPERTIES ImplementsDecoding
CHECK_DEADLOCK FALSE
