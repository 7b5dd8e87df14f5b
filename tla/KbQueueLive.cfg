\* Fair scheduling, crashes at any moment; no symmetry under liveness.
SPECIFICATION FairSpec
CONSTANTS
    Docs = {d1}
    JobIds = {j1, j2, j3}
    Slots = {s1}
    MaxAttempts = 1
    AttemptsCap = 3
    ContextEnabled = FALSE
    LostReplies = FALSE
    NoRow = NoRow
    Idle = Idle
INVARIANT StatusFollowsJobs
PROPERTIES
    EverythingIsSettled
    YieldedStaysFree
