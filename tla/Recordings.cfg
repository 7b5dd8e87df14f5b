\* One recording of each kind, two places, every fault the code handles.
SPECIFICATION FairSpec
CONSTANTS
    Recordings = {r1}
    AudioKeys = {k1}
    Places = {p1, p2}
    MaxAttempts = 2
    Faults = {"commit", "reply", "crash"}
    None = None
INVARIANT TypeOK
PROPERTIES
    FilesOfRows
    OutcomeIsKept
    NothingIsLeftOver
