\* Two publishers at the same time, approvals and verdicts changing under them, on a
\* draft older than layers and fingerprints.
SPECIFICATION Spec
CONSTANTS
    d1 = d1
    d2 = d2
    r1 = r1
    r2 = r2
    ann = ann
    bob = bob
    NoDraft = NoDraft
    NoRender = NoRender
    Nobody = Nobody
    NoAddress = NoAddress
    Draft = {d1}
    Render = {r1, r2}
    Address = {1}
    Person = {ann, bob}
    Clerk = {1}
    Channel = {"cli"}
    Judge = {1}
    Publisher = {1, 2}
    OldDraft = {d1}
    OldApprover = ann
    MaxHistory = 2
    MaxVerdicts = 2
    MaxVersion = 3
SYMMETRY Symmetry
INVARIANTS OneLive VersionsAreASequence LatestVerdictGoverns NoDecisionErased
PROPERTIES ImplementsPages
CHECK_DEADLOCK FALSE
