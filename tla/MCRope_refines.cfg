\* Splice on the skip list implements Splice of RopeSeq (two entries,
\* no iterator).
CONSTANTS
    Zero = Zero
    NoId = NoId
    HeadNode = HeadNode
    Nil = Nil
    a = a  b = b  c = c
    n1 = n1  n2 = n2  n3 = n3  n4 = n4
    i1 = i1  i2 = i2
    Ids <- RefIds
    Nodes <- MCNodes
    Iters <- CoreIters
    Lens <- MCLens
    MaxHeight = 2
    PoolSize = 1

SPECIFICATION CallSpec
SYMMETRY RefSymm

PROPERTY AbsSpec
