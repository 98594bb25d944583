\* Three tasks and the work functions queue and destroy, at any time.  Everything
\* stops when the work queue has been destroyed, or could not be created.
SPECIFICATION FairSpec
CONSTANTS
    NoTask = NoTask
    NoItem = NoItem
    Worker = w
    Tasks = {t1, t2, t3}
    Items = {i1, i2, i3}
CHECK_DEADLOCK FALSE
INVARIANTS
    ItemsConserved
    NoLostWakeup
    GoneWithoutTrace
PROPERTIES
    FreedItemsRan
    EveryItemRuns
    DestroyCompletes
