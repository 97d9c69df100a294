\* Two export jobs at the same time mint two identities for one lead.
SPECIFICATION Spec
CONSTANTS
    j1 = j1
    j2 = j2
    c1 = c1
    c2 = c2
    k1 = k1
    k2 = k2
    k3 = k3
    NoCampaign = NoCampaign
    NoCharge = NoCharge
    NoLead = NoLead
    NoId = NoId
    Lead = {1}
    Job = {j1, j2}
    Desk = {}
    Correlation = {k1, k2}
    Campaign = {c1}
    OldCharge <- NoOldCharge
    Invalid = {}
    Sites <- GoodSite
    Limit = 1
    MaxAttempts = 2
    MaxCrashes = 0
PROPERTIES FrozenIdentity
CHECK_DEADLOCK FALSE
