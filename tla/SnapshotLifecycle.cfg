SPECIFICATION Spec
CONSTANTS
    f1 = f1
    f2 = f2
    l1 = l1
    t1 = t1
    t2 = t2
    t3 = t3
    r1 = r1
    r2 = r2
    m1 = m1
    m2 = m2
    v1 = v1
    v2 = v2
    None = None
    SnapshotIds = {f1, f2, l1, t1, t2, t3}
    RowIds = {r1, r2}
    Fingerprints = {m1, m2}
    Digests <- MCDigests
    Packages <- MCPackages
    Values = {v1, v2}
    ValueOf <- MCValueOf
    OtherSources <- MCOtherSources
INVARIANTS TypeOK PointerSafe LineageSound RollbackAvailable
PROPERTIES HistoryKept ValuesKept
CHECK_DEADLOCK FALSE
