CONSTANTS
    ann = ann
    bob = bob
    p1 = p1
    SavedBefore <- AccountsBefore
    g1 = g1
    c1 = c1
    c2 = c2
    GroupName = {g1}
    FitName = {g1}
    MaxGroups = 2
    UserName = {ann, bob, empty}
    Password = {p1, empty}
    EmptyString = empty
    ClientID = {c1, c2}
    NoClient = NoClient
    MaxJoins = 1
    MaxUnread = 2
SYMMETRY Symmetry
SPECIFICATION ChatSystemSpec
INVARIANTS
    ChatSystemTypeOK
    NeverWaitsInVain
    AnswersInStep
    SessionAgrees
PROPERTY
    OpensWhereServerSays
CHECK_DEADLOCK FALSE
