\* A staged snapshot goes live after its draft failed a re-judgement.
SPECIFICATION Spec
CONSTANTS
    d1 = d1
    d2 = d2
    r1 = r1
    r2 = r2
    ann = ann
    bob = bob
    NoDraft = NoDraft
    NoRender = NoRender
    Nobody = Nobody
    NoAddress = NoAddress
    Draft = {d1}
    Render = {r1, r2}
    Address = {1}
    Person = {ann, bob}
    Clerk = {1}
    Channel = {"cli"}
    Judge = {1}
    Publisher = {1}
    OldDraft = {}
    OldApprover = ann
    MaxHistory = 2
    MaxVerdicts = 2
    MaxVersion = 1
SYMMETRY Symmetry
PROPERTIES NoSupersededVerdict
CHECK_DEADLOCK FALSE
