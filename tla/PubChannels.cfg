\* Two approval commands at the same time, through both channels, and a publisher.
SPECIFICATION Spec
CONSTANTS
    d1 = d1
    d2 = d2
    r1 = r1
    r2 = r2
    ann = ann
    bob = bob
    NoDraft = NoDraft
    NoRender = NoRender
    Nobody = Nobody
    NoAddress = NoAddress
    Draft = {d1}
    Render = {r1, r2}
    Address = {1}
    Person = {ann}
    Clerk = {1, 2}
    Channel = {"cli", "api"}
    Judge = {}
    Publisher = {1}
    OldDraft = {}
    OldApprover = ann
    MaxHistory = 1
    MaxVerdicts = 2
    MaxVersion = 1
SYMMETRY Symmetry
INVARIANTS TypeOK SnapshotWasApproved
CHECK_DEADLOCK FALSE
