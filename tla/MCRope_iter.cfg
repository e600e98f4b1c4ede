\* Two iterators interleaved with splices over two entries: the shared,
\* counted iterRef across yields, deletes and pooling.
CONSTANTS
    Zero = Zero
    NoId = NoId
    HeadNode = HeadNode
    Nil = Nil
    a = a  b = b  c = c
    n1 = n1  n2 = n2  n3 = n3  n4 = n4
    i1 = i1  i2 = i2
    Ids <- IterIds
    Nodes <- MCNodes
    Iters <- IterIters
    Lens <- IterLens
    MaxHeight = 1
    PoolSize = 1

SPECIFICATION Spec
SYMMETRY IterSymm

INVARIANT CursorCountExact
