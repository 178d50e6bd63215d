SPECIFICATION OperationsSpec
CONSTANTS
    h1 = h1
    h2 = h2
    a1 = a1
    m1 = m1
    m2 = m2
    Hosts = {h1, h2}
    Mentions <- MCMentions
    CfgName <- MCCfgName
    Needed = {h2}
    Reqs = {r1, r2}
    MaxSeconds = 1
    MaxRequests = 2
    MaxFaults = 1
    Agents = {a1}
    SeedList <- MCSeedList
    Tenants = {t1}
    Global = Global
    Interval = 2
    Threshold = 3
    MaxDeployments = 2
    MaxLost = 2
    Mailboxes = {m1, m2}
    AliasOf <- MCAliasOf
    MailReqs = {q1, q2}
    MaxMailOps = 3
    MaxMailFaults = 1
    MaxWaiting = 2
    Readers = {e1, e2}
    PageLength = 2
    Senders = {x1}
    MaxMessages = 2
    MaxReads = 2
    MaxReadFaults = 1
    MaxSentWaits = 2
CHECK_DEADLOCK FALSE
INVARIANT RegistryAndMailAreTrue
PROPERTIES  RegistryAndListSettle
