SPECIFICATION FairSpec
CONSTANTS
    Requests = {r1, r2}
    Keys = {k1, k2}
    Channels = {tg}
    DefaultRoute = {tg}
    Want <- MCWant
    Sensitive = {r2}
    MaxAttempts = 2
    MaxPosts = 1
    MaxDispatches = 2
    MaxMishaps = 1
CHECK_DEADLOCK FALSE
INVARIANTS NeverResend TablesAreTrue
PROPERTIES DispatchEnds
