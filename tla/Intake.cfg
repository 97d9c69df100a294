\* Two visits across a deployment, an operator working through the report.
SPECIFICATION FairSpec
CONSTANTS
    r1 = r1
    r2 = r2
    d1 = d1
    d2 = d2
    NoForm = NoForm
    NoLead = NoLead
    Request = {r1, r2}
    Desk = {d1}
    Sites <- Forms
    ReportLimit = 1
    MaxLeads = 2
    MaxRestarts = 1
INVARIANTS TypeOK GrantWasTicked AnswerIsTrue OffTheListWasContacted
PROPERTIES NotesAreKept EveryLeadIsContacted
CHECK_DEADLOCK FALSE
