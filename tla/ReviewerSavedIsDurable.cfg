SPECIFICATION Spec
CONSTANTS
    None = None
    Requests = {r1, r2}
    Statuses = {reviewed, in_review}
    PageSize = 2
    MaxRows = 3
INVARIANT SavedIsDurable
CHECK_DEADLOCK FALSE
