\* Three tasks and the work items queue one static and two dynamic items in
\* three places.  Everything stops when the work queue is gone or could not be created,
\* and when a work item waits for a place in the full queue.
SPECIFICATION FairSpec
CONSTANTS
    Tasks = {t1, t2, t3}
    NoTask = NoTask
    Worker = w
    Items = {d1, d2, s1}
    Dynamic = {d1, d2}
    NULL = NULL
    MaxWorkItems = 3
CHECK_DEADLOCK FALSE
INVARIANTS
    ItemsConserved
    NoUseAfterDelete
PROPERTY DestructorReturns
