SPECIFICATION Spec
CHECK_DEADLOCK FALSE
CONSTANTS
    PageSize = 1
    Roles = {"admin"}
    LeftForms = {"admin"}
    MaxUsers = 2
    MaxFetches = 2
    MaxPosts = 2
INVARIANT ConsoleTypeOK
INVARIANT ShownAnswersView
INVARIANT ListShowsCreated
 
INVARIANT OneSaveAtATime
PROPERTY PageSettles
