SPECIFICATION Spec
CONSTANTS
    t1 = t1
    t2 = t2
    r1 = r1
    r2 = r2
    Nobody = Nobody
    Tabs = {t1, t2}
    Reqs = {r1, r2}
    MaxAttempts = 2
    MaxLogins = 2
    MaxSecrets = 2
    MaxTokens = 1
SYMMETRY Sym
INVARIANTS LoginInv GuessesBounded
PROPERTIES SpentTokenIsRefused ReplacedOnlyByOverlap
CHECK_DEADLOCK FALSE
