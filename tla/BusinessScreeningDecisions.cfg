CONSTANTS
    r1 = r1
    r2 = r2
    i1 = i1
    i2 = i2
    Resumes = {r1}
    Interviewers = {i1, i2}
    Responsible <- BothResponsible
    Staff = {p1}
    Deciders = {d1, d2}
    t1 = t1
    t2 = t2
    Stamps = {t1, t2}
    Nobody = Nobody
    MaxBatches = 2
    Offered = {"push", "resend", "eliminate", "consolidate", "reject"}
    MaxAsked = 2
    MaxDecisions = 2
    MaxDeaths = 1
SPECIFICATION Spec
CHECK_DEADLOCK FALSE
SYMMETRY Symmetry
INVARIANTS OneApplied SiblingsAgree DecisionIsReported
PROPERTIES DecisionStands HrRejectionHolds
