\* ByPosition(Find(x), false) for live ids, zero-length entries included.
CONSTANTS
    Zero = Zero
    NoId = NoId
    HeadNode = HeadNode
    Nil = Nil
    a = a  b = b  c = c
    n1 = n1  n2 = n2  n3 = n3  n4 = n4
    i1 = i1  i2 = i2
    Ids <- CoreIds
    Nodes <- MCNodes
    Iters <- CoreIters
    Lens <- MCLens
    MaxHeight = 3
    PoolSize = 1

SPECIFICATION Spec
SYMMETRY CoreSymm

INVARIANT FindByPositionRoundTrip
