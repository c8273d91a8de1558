CONSTANTS
    c1 = c1
    c2 = c2
    ClientID = {c1, c2}
    UserText <- UserTexts
    PassText <- PassTexts
    GroupText <- GroupTexts
    Details <- GroupPlace
    GroupLists <- Lists
    NotWritten = {0, 97}
    BufferSize = 44
    NoRequest = NoRequest
    MaxRequests = 2
    MaxPieces = 1
SYMMETRY Symmetry
SPECIFICATION MessageStreamSpec
INVARIANT
    CheckTells
CHECK_DEADLOCK FALSE
