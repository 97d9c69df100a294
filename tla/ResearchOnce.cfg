\* A job and a later one of the same correlation id; two commands on their packages,
\* one after the other or at the same time.
SPECIFICATION Spec
CONSTANTS
    j1 = j1
    j2 = j2
    c1 = c1
    c2 = c2
    q1 = q1
    q2 = q2
    first = first
    NoPackage = NoPackage
    Job = {j1, j2}
    Correlation = {first}
    CorrelationOf <- SameCorrelation
    Command = {c1, c2}
    Query = {q1, q2}
    MaxQueries = 1
    MaxCalls <- Ceilings
SYMMETRY Symmetry
INVARIANTS TypeOK PaidOnce FailureHasACause
PROPERTIES RunSettles
CHECK_DEADLOCK FALSE
