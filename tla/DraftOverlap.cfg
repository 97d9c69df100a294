\* Two stages of different keywords, one after the other or at the same time, with
\* decisions, failures of the model and deaths in between.
SPECIFICATION Spec
CONSTANTS
    s1 = s1
    s2 = s2
    t1 = t1
    t2 = t2
    price = price
    grant = grant
    NoDraft = NoDraft
    Stage = {s1, s2}
    Keyword = {price, grant}
    KeywordOf <- OwnKeyword
    Title = {t1, t2}
    MaxAttempts = 3
    MaxFindings = 1
SYMMETRY Symmetry
INVARIANTS TypeOK NoCannibals NeverWorse StatusAgrees CallsAreBooked
CHECK_DEADLOCK FALSE
