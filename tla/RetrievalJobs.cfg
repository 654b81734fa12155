SPECIFICATION FairSpec
CONSTANTS
    seed = seed
    r1 = r1
    r2 = r2
    r3 = r3
    ann = ann
    bob = bob
    fac = fac
    d1 = d1
    v1 = v1
    v2 = v2
    Blank = Blank
    None = None
    Requests = {r1, r2, r3}
    Batches = {seed, r1, r2, r3}
    Actors = {ann, bob}
    Keys = {fac, d1}
    Values = {v1, v2}
    RateLimit = 1
    ActorOf <- MCActorOf
    Reports <- MCReports
    Stored <- MCStored
INVARIANTS TypeOK ImportAtomic LocksOwned
PROPERTY JobsEnd
CHECK_DEADLOCK FALSE
