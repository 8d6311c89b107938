SPECIFICATION Spec
CONSTANTS
    None = None
    author = author
    admin = admin
    admin2 = admin2
    reader = reader
    alice = alice
    alice2 = alice2
    bob = bob
    bea = bea
    k1 = k1
    k2 = k2
    k3 = k3
    c1 = c1
    c2 = c2
    Users = {author, admin, reader}
    Admins = {admin}
    UserOf <- MCUserOf
    KeyOwner <- MCKeyOwner
    Contents = {c1, c2}
CHECK_DEADLOCK FALSE
SYMMETRY TextSymmetry
CONSTANTS
    Sessions = {alice, bob}
    Keys = {k1, k2}
    Does <- DoesByRole
    MaxPatents = 2
    MaxVersion = 2
    MaxReviews = 2
    Times = {1, 2}
    Limits = {1}
    Filters <- MCFilters
INVARIANT NoDanglingDocument
INVARIANT ListingIsExact
