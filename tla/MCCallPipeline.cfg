CONSTANTS
    Calls = {c1, c2}
    t1 = t1
    t2 = t2
    g1 = g1
    u1 = u1
    u2 = u2
    alice = alice
    bob = bob
    None = None
    Tools <- MCTools
    Groups <- MCGroups
    Upstreams <- MCUpstreams
    Subjects <- MCSubjects
    Accepted <- MCAccepted
    Requests <- MCRequests
    Configs <- MCConfigs
    Refreshes <- MCRefreshes
    MaxChanges = 1
    MaxWindows = 1
SPECIFICATION Spec
INVARIANTS
    PerUserIsolation
    AnswerOfOwnConfiguration
    OnlySuccessesCached
    LimitHolds
    BypassOnlyIfPublic
    ValidatedForUpstream
