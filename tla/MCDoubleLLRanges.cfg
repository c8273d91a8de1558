CONSTANTS
    n1 = n1
    n2 = n2
    n3 = n3
    n4 = n4
    d1 = d1
    d2 = d2
    i1 = i1
    i2 = i2
    Data = {d1, d2}
    Null = Null
    Iterator = {i1, i2}
    Node = {n1, n2, n3, n4}
    HeadNode = HeadNode
    TailNode = TailNode
    Freed = Freed
SYMMETRY Symmetry
SPECIFICATION DoubleLLSpec
INVARIANT
    RangesAsPromised
