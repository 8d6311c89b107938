SPECIFICATION BrowserSpec
SYMMETRY CallSymmetry
CHECK_DEADLOCK FALSE
CONSTANTS
    None = None
    call1 = call1
    call2 = call2
    device = device
    tab = tab
    root = root
    mail = mail
    Requests = {call1, call2, device}
    Calls = {call1, call2}
    Tabs = {tab}
    TabOf <- MCTabOf
    Emails = {root, mail}
    Seeded = root
    MaxUsers = 2
    MaxTokens = 3
    ReloadInterrupts = FALSE
INVARIANT BrowserTypeOK
INVARIANT NeverReplays
INVARIANT RefreshesAreShared
INVARIANT SignedInHasTokens
