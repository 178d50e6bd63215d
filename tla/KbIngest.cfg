SPECIFICATION BaseSpec
CONSTANTS
    d1 = d1
    op = op
    rd = rd
    int = int
    Docs = {d1}
    NoDoc = NoDoc
    MaxReingests = 2
    MaxCrashes = 2
    MaxLosses = 1
    AskReqs = {q1, q2}
    Askers = {op, rd}
    RoleOf <- MCRoleOf
    Library = {int}
    NamespaceOf <- MCNamespaceOf
    RateLimit = 1
    TopK = 1
    MaxAskFaults = 2
CHECK_DEADLOCK FALSE
INVARIANTS IndexIsWhole AsksAreAccounted
PROPERTIES IngestEnds
