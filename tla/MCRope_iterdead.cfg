\* An iterator resumed after its cursor target was deleted and the node
\* behind it recycled.
CONSTANTS
    Zero = Zero
    NoId = NoId
    HeadNode = HeadNode
    Nil = Nil
    a = a  b = b  c = c
    n1 = n1  n2 = n2  n3 = n3  n4 = n4
    i1 = i1  i2 = i2
    Ids <- IterIds
    Nodes <- MCNodes
    Iters <- IterIters
    Lens <- IterLens
    MaxHeight = 1
    PoolSize = 1

SPECIFICATION Spec
SYMMETRY IterSymm

PROPERTY YieldsLiveEntry
