\* One request of the owner at a time and an administrator.
SPECIFICATION AccountSpec
CONSTANTS
    Sessions = {s1, s2}
    OwnerRequests = {q1}
    BackupCodes = {c1}
    MaxFailures = 2
    MaxPasswords = 3
    MaxKeys = 1
    MaxStep = 1
    Absent = Absent
SYMMETRY Symmetry
PROPERTY BlockCallsOffTheChange
