\* Approving again makes the history name the new render for the old decision.
SPECIFICATION Spec
CONSTANTS
    d1 = d1
    d2 = d2
    r1 = r1
    r2 = r2
    ann = ann
    bob = bob
    NoDraft = NoDraft
    NoRender = NoRender
    Nobody = Nobody
    NoAddress = NoAddress
    Draft = {d1}
    Render = {r1, r2}
    Address = {1}
    Person = {ann, bob}
    Clerk = {1}
    Channel = {"cli"}
    Judge = {}
    Publisher = {}
    OldDraft = {d1}
    OldApprover = ann
    MaxHistory = 2
    MaxVerdicts = 2
    MaxVersion = 2
SYMMETRY Symmetry
INVARIANTS TrailNamesTheRender
CHECK_DEADLOCK FALSE
