CONSTANTS
    Resumes = {x1, x2}
    Records = {e1, e2}
    Clerks = {c1, c2}
    Tokens = {t1, t2}
    NoResume = NoResume
    NoRecord = NoRecord
    NoToken = NoToken
    MaxAsked = 2
    MaxFaults = 2
    MaxDeaths = 1
SPECIFICATION Spec
CHECK_DEADLOCK FALSE
INVARIANTS StampsAgree
PROPERTIES DecidedOnce ClaimsEnd
