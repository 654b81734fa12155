SPECIFICATION FairSpec
CONSTANTS
    seed = seed
    backfill = backfill
    job = job
    v1 = v1
    v2 = v2
    Blank = Blank
    None = None
    Keys <- MCFacilities
    Facilities <- MCFacilities
    Values = {v1, v2}
    Batches = {seed, backfill, job}
    BackfillBatch = backfill
    OtherBatch = job
    Operations <- MCOperations
    Observed <- MCObserved
    Stored <- MCStored
    MaxFacilities = 1
    MaxAttempts = 1
    MaxRefreshes = 1
INVARIANTS TypeOK CheckpointTruthful
PROPERTIES RepeatKeepsValues ReplacedValueTraced RunAccounted RunEnds
