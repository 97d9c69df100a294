\* Two export jobs at the same time, and an operator who archives under them.
SPECIFICATION Spec
CONSTANTS
    j1 = j1
    j2 = j2
    c1 = c1
    c2 = c2
    k1 = k1
    k2 = k2
    k3 = k3
    NoCampaign = NoCampaign
    NoCharge = NoCharge
    NoLead = NoLead
    NoId = NoId
    Lead = {1, 2}
    Job = {j1, j2}
    Desk = {1}
    Correlation = {k1, k2}
    Campaign = {c1}
    OldCharge <- NoOldCharge
    Invalid = {}
    Sites <- GoodSite
    Limit = 1
    MaxAttempts = 2
    MaxCrashes = 0
SYMMETRY Symmetry
INVARIANTS ExportedIsReal ProspectIsTheLeads
PROPERTIES ArchivedStaysOut
CHECK_DEADLOCK FALSE
