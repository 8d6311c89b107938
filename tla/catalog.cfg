SPECIFICATION Spec
SYMMETRY TextSymmetry
CHECK_DEADLOCK FALSE
CONSTANTS
    None = None
    author = author
    admin = admin
    alice = alice
    bob = bob
    mail = mail
    mail2 = mail2
    chem = chem
    Chem = Chem
    Sessions = {alice, bob}
    Users = {author, admin}
    Admins = {admin}
    UserOf <- MCUserOf
    Does <- MCDoes
    Emails = {mail, mail2}
    Names = {chem, Chem}
    Folded <- MCFolded
    Lists <- MCLists
    MaxInventors = 2
    MaxCategories = 2
    MaxPatents = 1
INVARIANT TypeOK
INVARIANT OneProfilePerAccount
INVARIANT CreditsComeFromOneRequest
INVARIANT LinksReferToRows
INVARIANT NamesDifferIgnoringCase
PROPERTY SubmittedLinksOnlyShrink
