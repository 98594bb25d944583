\* Three nodes, three items, a pool of four blocks, two threads.  Behaviours
\* end where the locks are freed, or where one uses what is gone.
SPECIFICATION Spec
SYMMETRY Symmetry
CHECK_DEADLOCK FALSE
CONSTANTS
    Nodes = {n1, n2, n3}
    ListHead = ListHead
    NULL = NULL
    ZcqTasks = {w1, w2}
    Items = {i1, i2, i3}
    CmpTasks = {w1, w2}
    CmpNoTask = NoTask
    PointerSize = 2
    CmpMemory = 8
    CmpSizes = {1, 3}
    CmpAlignments = {2, 3}
    CmpCounts = {1, 2}
    CmpBuffers = {5}
    NoTask = NoTask
    Objects = {o1, o2}
    Callers = {c0, c1, c2}
    Main = c0
    MaxWaits = 2
INVARIANTS
    CreationAllOrNothing
    ItemsHaveOneOwner
    CppItemsDisjoint
    OneTaskPerThread
    NothingDangles
PROPERTIES
    ListsImplementSequences
    CppPoolImplementsMemoryPool
