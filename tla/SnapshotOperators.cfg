SPECIFICATION FairSpec
CONSTANTS
    o1 = o1
    o2 = o2
    t1 = t1
    t2 = t2
    r1 = r1
    m1 = m1
    None = None
    Operators = {o1, o2}
    SnapshotIds = {t1, t2}
    RowIds = {r1}
    Fingerprints = {m1}
    Digests <- MCDigests
    Packages <- MCPackages
INVARIANTS TypeOK OnlyValidatedServed
PROPERTIES LockedGuardHolds EvidenceImmutable LockReleased
