SPECIFICATION CommandSpec
CONSTANTS
    Windows <- MCWindows
    LastDay = 9
    MaxInclusiveDays = 3
INVARIANTS TypeOK ManifestTruthful RunAccounted Tiled OverflowOnlyAtEnd
PROPERTIES DoneNotRepeated RunEnds
