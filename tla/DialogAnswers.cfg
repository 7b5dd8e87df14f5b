\* One dialog of each kind, two requests at once, every fault the code handles.
SPECIFICATION FairSpec
CONSTANTS
    Answers = {a1, a2}
    Requests = {r1, r2}
    Kinds = {"chat", "sql", "code", "docparse"}
    Blocks = {b1, b2}
    Faults = {"commit", "reply", "save", "crash"}
    None = None
    Sizes = {0, 1, 2}
    Limits <- MCLimits
    Turns = 3
    Pairs = 2
    KeepRecent = 1
    ImageSize = 1
    MaxImages = 1
INVARIANTS
    TypeOK
    OneThingAtATime
    HistoryIsGivenWhole
PROPERTIES
    NothingSavedIsOverwritten
    IdleAgain
