\* Waits with and without a timeout: two waiters, one of which also signals and
\* broadcasts, and a thread that only does that.
SPECIFICATION FairSpec
CONSTANTS
    NoTask = NoTask
    Waiters = {t1, t2}
    Notifiers = {t2, t3}
    Cvs = {c1}
    Timeouts = TRUE
    MaxWaitList = 3
INVARIANTS
    SleepersAreListed
    ListedAreWaiting
    NoSignalLeftOver
PROPERTY BroadcastWakesAll
