\* Three checks of two blocks at two places, the model corrects a query once; three requests
\* to one place at each of two servers, one change of the login; two requests of the owner of
\* an account and an administrator.
SPECIFICATION AllSpec
CONSTANTS
    r1 = r1
    r2 = r2
    r3 = r3
    u1 = u1
    u2 = u2
    s1 = s1
    s2 = s2
    Places = {1, 2}
    Checks = {r1, r2, r3}
    CheckUsers = {u1, u2}
    CheckUserOf <- TwoOfOneUser
    Blocks = {1, 2}
    FixAttempts = 1
    NoPlace = NoPlace
    Requests = {r1, r2, r3}
    Users = {u1, u2}
    UserOf <- TwoOfOneUser
    Servers = {s1, s2}
    MaxConfig = 2
    ServerOf <- OtherServer
    MaxPlaces = 1
    None = None
    OwnerRequests = {r1, r2}
    Sessions = {a1, a2}
    BackupCodes = {c1}
    MaxFailures = 2
    MaxPasswords = 3
    MaxKeys = 2
    MaxStep = 2
    Absent = Absent
CONSTRAINTS
    OneBlockOfTheOther
    TwoAtOnce
    PasswordsOrKeys
SYMMETRY Symmetry
INVARIANTS
    SandboxTypeOK
    ChecksStayAlone
    TypeOK
    EverythingComesBack
    AccountTypeOK
PROPERTIES
    NobodyIsForgotten
    RightsAreOfTheLogin
    RefreshesTakeTurns
    SessionsFitTheAccount
    AttemptsAreLimited
