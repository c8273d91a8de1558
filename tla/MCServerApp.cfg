CONSTANTS
    GroupName = {g1, g2, tiny}
    FitName = {g1, g2}
    MaxGroups = 2
    UserName = {ann, bob, empty}
    Password = {p1, empty}
    EmptyString = empty
    ClientID = {c1, c2}
SPECIFICATION ServerAppSpec
INVARIANTS
    ServerAppTypeOK
    SeatsMatchLists
PROPERTY
    ImplementsMembership
    LogoutDisconnects
