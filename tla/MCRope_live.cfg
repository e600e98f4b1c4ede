\* Iteration ends under fair resumption once mutation stops: two iterators,
\* three nodes, no symmetry (liveness).
CONSTANTS
    Zero = Zero
    NoId = NoId
    HeadNode = HeadNode
    Nil = Nil
    a = a  b = b  c = c
    n1 = n1  n2 = n2  n3 = n3  n4 = n4
    i1 = i1  i2 = i2
    Ids <- IterIds
    Nodes <- LiveNodes
    Iters <- IterIters
    Lens <- IterLens
    MaxHeight = 1
    PoolSize = 1

SPECIFICATION LiveSpec

PROPERTY IterationEnds
