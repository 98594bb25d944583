\* thread.hpp:283: Run returns, and the object is deleted then.
SPECIFICATION Spec
CONSTANTS
    Tasks = {t1, t2}
    NoTask = NoTask
    Worker = w
    Items = {d1, d2, s1}
    Dynamic = {d1, d2}
    NULL = NULL
    MaxWorkItems = 3
CHECK_DEADLOCK FALSE
INVARIANT TaskDeletedOnce
