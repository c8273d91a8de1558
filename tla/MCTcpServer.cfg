CONSTANTS
    ClientID = {4, 5, 6, 7}
    ListenSock = 3
    BackLog = 1
    MaxClients = 3
    MaxMsgs = 2
SPECIFICATION MCSpec
CHECK_DEADLOCK FALSE
INVARIANTS
    TcpServerTypeOK
    BooksAgree
    NoDescriptorLeaks
    IteratorValid
    NeverBlocksInRecv
PROPERTY
    RequestsTreated
