SPECIFICATION Spec
CONSTANTS
    P1 = P1
    P2 = P2
    C1 = C1
    C2 = C2
    Paths = {P1, P2}
    Clashing <- MCClashing
    Contents = {C1, C2}
    Texts <- MCTexts
    FileIds = {f1, f2}
    Answers = {a1}
    Builds = {b1}
    MaxFiles = 2
    MaxSnapshots = 2
    MaxRevision = 4
    None = None
SYMMETRY Symmetry
PROPERTY AcceptedIsSeen
CHECK_DEADLOCK FALSE
