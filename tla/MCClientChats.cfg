CONSTANTS
    g1 = g1
    g1b = g1b
    GroupName = {g1, g1b}
    LongerName <- NamePairs
    NoFile = NoFile
    MaxChats = 2
SPECIFICATION ClientChatsSpec
INVARIANTS
    FilesTellWindows
    ClientChatsTypeOK
    CrashTellsLeave
    LogoutClosesChats
PROPERTY
    KillsWholeChat
