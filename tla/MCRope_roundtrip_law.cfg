\* Insert then Delete of the same entry, positive lengths, three ids, heights 1..2.
CONSTANTS
    Zero = Zero
    NoId = NoId
    HeadNode = HeadNode
    Nil = Nil
    a = a  b = b  c = c
    n1 = n1  n2 = n2  n3 = n3  n4 = n4
    i1 = i1  i2 = i2
    Ids <- CoreIds
    Nodes <- MCNodes
    Iters <- CoreIters
    Lens <- PositiveLens
    MaxHeight = 2
    PoolSize = 1

SPECIFICATION TripSpec
SYMMETRY CoreSymm

PROPERTY InsertDeleteRoundTrip
