\* A commit of the completion whose reply is lost.
SPECIFICATION Spec
CONSTANTS
    Docs = {d1}
    JobIds = {j1, j2, j3}
    Slots = {s1}
    MaxAttempts = 2
    AttemptsCap = 4
    ContextEnabled = TRUE
    LostReplies = TRUE
    NoRow = NoRow
    Idle = Idle
SYMMETRY Symmetry
INVARIANT NoneQueuedWithoutJob
