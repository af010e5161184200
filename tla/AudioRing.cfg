CONSTANTS
    Capacity = 3
    StreamLen = 8
SPECIFICATION FairSpec
INVARIANTS TypeOK NoOverrun DrainedInOrder NoDataRace
PROPERTIES ImplementsStream EverythingDrained
