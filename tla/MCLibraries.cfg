CONSTANTS
    GroupName = {g1, g2, g3, g4, tiny}
    FitName = {g1, g2, g3, g4}
    MaxGroups = 3
    MaxSeats = 3
    UserName = {ann, bob, empty}
    Password = {p1, p2, empty}
    EmptyString = empty
    MaxLines = 3
    ListedGroup = {g1}
    n1 = n1
    n2 = n2
    n3 = n3
    n4 = n4
    d1 = d1
    d2 = d2
    i1 = i1
    i2 = i2
    Data = {d1, d2}
    Null = Null
    Iterator = {i1, i2}
    Node = {n1, n2, n3, n4}
    HeadNode = HeadNode
    TailNode = TailNode
    Freed = Freed
SYMMETRY Symmetry
SPECIFICATION MCSpec
INVARIANTS
    GroupMngTypeOK
    AddressPoolIntact
    CounterGuardsQueue
    UserMngTypeOK
    NoGroupsWithoutSession
    FileMatchesAccounts
    DoubleLLTypeOK
    LinksAgree
    RangesMissNothing
PROPERTIES
    ImplementsDirectory
    SavedAccountsStable
    ImplementsList
