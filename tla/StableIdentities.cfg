SPECIFICATION IdentitySpec
CONSTANTS
    Items = {x, y, z}
    NoItem = NoItem
    Less <- MCLess
    MaxItems = 3
    MaxRuns = 3
INVARIANTS CollisionFree RepeatIsStable
PROPERTY SiblingsKept
CHECK_DEADLOCK FALSE
