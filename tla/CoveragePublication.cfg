SPECIFICATION Spec
CONSTANTS
    None = None
    Publishers = {p1, p2}
    Readers = {q1}
    ReportIds = {r1, r2}
    Times = {1}
    MaxPackages = 2
INVARIANTS TypeOK PreviousNamed OneGeneration
PROPERTIES HistoryRetained
