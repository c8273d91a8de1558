CONSTANTS
    GroupName = {g1}
    FitName = {g1}
    MaxGroups = 1
    UserName = {ann, empty}
    Password = {p1, empty}
    EmptyString = empty
    ClientID = {4, 5, 6}
    ListenSock = 3
    BackLog = 1
    MaxClients = 2
SPECIFICATION ChatServerSpec
PROPERTY
    RequestsTreated
