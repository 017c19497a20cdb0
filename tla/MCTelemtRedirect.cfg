SPECIFICATION RedirectFairSpec
CONSTANTS
    v1 = v1
    v2 = v2
    wrong = wrong
    Settings = {v1, v2, wrong}
    Valid = {v1, v2}
    None = none
    Attempts = 3
INVARIANTS
    RedirectTypeOK
    RulesFollowUnit
PROPERTIES
    RulesNeedListener
    UnitSettles
