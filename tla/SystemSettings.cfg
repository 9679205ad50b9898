CONSTANTS
    m1 = m1
    m2 = m2
    Models = {m1, m2}
    NoKey = NoKey
    NoScore = NoScore
    NoRules = NoRules
    Unset = Unset
    None = None
    Builtin <- MCBuiltin
    RuleChoices <- MCRuleChoices
    WeightChoices <- MCWeightChoices
    Answers <- MCAnswers
    Starts <- MCStarts
    Legacy <- MCLegacy
    Admins = {a1, a2}
    MaxRows = 2
    MaxIds = 5
    MaxSaves = 2
    MaxEdits = 1
SPECIFICATION Spec
CHECK_DEADLOCK FALSE
SYMMETRY Symmetry
INVARIANTS VerdictStands
PROPERTIES SaveKeepsModels
