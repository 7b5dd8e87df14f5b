\* One document and two places: tasks of one document side by side.
SPECIFICATION Spec
CONSTANTS
    Docs = {d1}
    JobIds = {j1, j2, j3}
    Slots = {s1, s2}
    MaxAttempts = 1
    AttemptsCap = 2
    ContextEnabled = TRUE
    LostReplies = TRUE
    NoRow = NoRow
    Idle = Idle
SYMMETRY Symmetry
INVARIANTS
    TypeOK
    OneProcessingTask
    JobsAreOrdered
