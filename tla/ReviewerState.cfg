SPECIFICATION Spec
CONSTANTS
    None = None
    Requests = {r1, r2, r3}
    Statuses = {reviewed, in_review}
    PageSize = 2
    MaxRows = 3
SYMMETRY Symmetry
INVARIANTS AuditPaired AllOrNothing SavedStatusShown
