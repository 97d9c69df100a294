\* One export job at a time on a site that is reconfigured, with a death of the job, a
\* lead frozen under v1 and one that can never be sent.
SPECIFICATION FairSpec
CONSTANTS
    j1 = j1
    j2 = j2
    c1 = c1
    c2 = c2
    k1 = k1
    k2 = k2
    k3 = k3
    NoCampaign = NoCampaign
    NoCharge = NoCharge
    NoLead = NoLead
    NoId = NoId
    Lead = {1, 2, 3, 4}
    Job = {j1}
    Desk = {}
    Correlation = {k1, k2, k3}
    Campaign = {c1, c2}
    OldCharge <- OldestIsV1
    Invalid = {2}
    Sites <- AnySite
    Limit = 3
    MaxAttempts = 2
    MaxCrashes = 1
INVARIANTS TypeOK AtMostOneProspect NoConflict
PROPERTIES FrozenIdentity ImplementsDelivery EveryLeadSettles
CHECK_DEADLOCK FALSE
