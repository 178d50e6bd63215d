SPECIFICATION AgentSpec
CONSTANTS
    r1 = r1  r2 = r2  r3 = r3  svc = svc  adm = adm  i1 = i1  i2 = i2  i3 = i3
    a = a  b = b  s = s  t = t  grant = grant  deny = deny
    Reqs = {r1, r2, r3}
    Services = {svc, adm}
    Admins = {adm}
    Stranger = Stranger
    Ids = {i1, i2, i3}
    Aliases = {a, b}
    Scopes = {s, t}
    None = None
    PolicyIds = {grant, deny}
    Policy <- MCPolicy
    Calls <- MCCalls
    InitPolicies = {grant}
    SeedIds = {i1, i2}
    SeedName <- MCSeedName
    MaxErrors = 1
    ServiceReqs = {q1, q2}
    Callers = {c1}
    MaxServiceOps = 3
    MaxServiceFaults = 1
SYMMETRY Symmetry
CHECK_DEADLOCK FALSE
INVARIANTS RowsAreSound  ServiceKeysHold
PROPERTIES DeletedStaysDeleted
