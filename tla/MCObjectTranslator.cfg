CONSTANTS
    t1 = t1
    t2 = t2
    Thread = {t1, t2}
    Address <- MCAddress
    MaxId = 2
    MaxLen = 2
    MaxOps = 2
SPECIFICATION TranslatorSpec
INVARIANT TranslatorTypeOK
INVARIANT TranslationsAgree
CHECK_DEADLOCK FALSE
SYMMETRY Symmetry
