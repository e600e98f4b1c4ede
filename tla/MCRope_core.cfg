\* The splice engine and the queries over every skip list of up to three
\* entries of length 0 or 2 (and rejected length -1), heights 1..3.
CONSTANTS
    Zero = Zero
    NoId = NoId
    HeadNode = HeadNode
    Nil = Nil
    a = a  b = b  c = c
    n1 = n1  n2 = n2  n3 = n3  n4 = n4
    i1 = i1  i2 = i2
    Ids <- CoreIds
    Nodes <- MCNodes
    Iters <- CoreIters
    Lens <- MCLens
    MaxHeight = 3
    PoolSize = 1

SPECIFICATION Spec
SYMMETRY CoreSymm

INVARIANT TypeOK
INVARIANT SpineConsistent
INVARIANT FindAgrees
INVARIANT ByPositionAgrees
INVARIANT CompareAgrees
