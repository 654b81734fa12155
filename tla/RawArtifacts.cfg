SPECIFICATION Spec
CONSTANTS
    v1 = v1
    v2 = v2
    f1 = f1
    f2 = f2
    Jobs = {j1, j2}
    Backfills = {b}
    ReportCount = 1
    Versions = {v1, v2}
    Fields = {f1, f2}
    Filled <- MCFilled
    Partial = Partial
    None = None
INVARIANT TraceSound
PROPERTY EvidenceAtCommit
