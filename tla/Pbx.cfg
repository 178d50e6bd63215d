SPECIFICATION MCSpec
CONSTANTS
    Targets = {t1, t2}
    Names = {n1, n2}
    None = None
    Runners = {w1}
    MaxOps = 3
    Credentials <- MCCredentials
    MaxSlow = 2
    MaxNodeChanges = 1
SYMMETRY Symm
CHECK_DEADLOCK FALSE
INVARIANTS CredentialsAreOwn ViewsAreOwn ProbesAreTrue
PROPERTIES JobsKeepLedger
