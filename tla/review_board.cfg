SPECIFICATION Spec
CONSTANTS
    None = None
    author = author
    admin = admin
    admin2 = admin2
    alice = alice
    alice2 = alice2
    bob = bob
    bea = bea
    k1 = k1
    k2 = k2
    k3 = k3
    c1 = c1
    c2 = c2
    Users = {author, admin, admin2}
    Admins = {admin, admin2}
    UserOf <- MCUserOf
    KeyOwner <- MCKeyOwner
    Contents = {c1, c2}
CHECK_DEADLOCK FALSE
SYMMETRY TextSymmetry
CONSTANTS
    Sessions = {alice, bob, bea}
    Keys = {k1}
    Does <- DoesOnBoard
    MaxPatents = 1
    MaxVersion = 3
    MaxReviews = 3
INVARIANT ApprovedIsAnnounced
INVARIANT TrailExplainsStatus
INVARIANT ApprovalsAlternate
PROPERTY FrozenUnderReview
PROPERTY CorpusFollowsStatus
PROPERTY VersionsIdentifyText
PROPERTY ImplementsLifecycle
