SPECIFICATION Spec
SYMMETRY RequestSymmetry
CHECK_DEADLOCK FALSE
CONSTANTS
    None = None
    r1 = r1
    r2 = r2
    root = root
    mail = mail
    Requests = {r1, r2}
    Emails = {root, mail}
    Seeded = root
    MaxUsers = 2
    MaxTokens = 3
INVARIANT TypeOK
INVARIANT EmailsAreUnique
INVARIANT OneLiveTokenPerLogin
PROPERTY OverStaysOver
