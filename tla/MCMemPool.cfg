\* Two tasks, at most four blocks at two sizes and two alignments; one alignment
\* that is no power of two; static buffers with room for no, one and two blocks.
SPECIFICATION Spec
CONSTANTS
    NoTask = NoTask
    t1 = t1
    t2 = t2
    Tasks = {t1, t2}
    PtrSize = 4
    MemorySize = 32
    Requests = {1, 5}
    Alignments = {1, 6, 8}
    Counts = {1, 2}
    StaticSizes = {7, 16}
SYMMETRY Symmetry
INVARIANTS
    BlocksConserved
    PayloadsDisjoint
PROPERTY
    ImplementsMemoryPool
\* The behaviour ends where AddExtraMemoryToPoolStatic overruns its buffer.
CHECK_DEADLOCK FALSE
