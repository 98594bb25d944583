\* mem_pool.h:110: the size of the buffer that is passed in.
SPECIFICATION Spec
CONSTANTS
    NoTask = NoTask
    t1 = t1
    t2 = t2
    Tasks = {t1, t2}
    PtrSize = 4
    MemorySize = 32
    Requests = {1, 5}
    Alignments = {1, 6, 8}
    Counts = {1, 2}
    StaticSizes = {7, 16}
SYMMETRY Symmetry
INVARIANT
    StaysInBuffer
CHECK_DEADLOCK FALSE
