SPECIFICATION Spec
CONSTANTS
    Nodes = {n1, n2, n3}
    Objects = {o1, o2}
    Null = Null
    ClientMax = 3
    ObjectMax = 2
SYMMETRY Symmetry
INVARIANT ListsWellFormed
INVARIANT NothingUsedAfterFree
INVARIANT ObjectsTracked
PROPERTY ChildrenReleasedFirst
