SPECIFICATION FairWatchSpec
CONSTANTS
    MaxWrites = 6
INVARIANTS
    ClosedIsQuiet
PROPERTIES
    ChangesLoaded
