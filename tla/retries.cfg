SPECIFICATION IdemSpec
SYMMETRY TabSymmetry
CHECK_DEADLOCK FALSE
CONSTANTS
    None = None
    author = author
    alice = alice
    alice2 = alice2
    k1 = k1
    k2 = k2
    c1 = c1
    tag = tag
    Sessions = {alice, alice2}
    Users = {author}
    Admins = {}
    UserOf <- MCUserOf
    Does <- MCDoes
    Keys = {k1, k2}
    KeyOwner <- MCKeyOwner
    Contents = {c1}
    Tags = {tag}
    MaxPatents = 2
    MaxVersion = 2
    MaxReviews = 0
INVARIANT TypeOK
INVARIANT OneDocumentOnePatent
INVARIANT OneAnswerPerKey
INVARIANT InFlightIsOwned
INVARIANT AnsweredIsRecorded
