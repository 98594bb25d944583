\* Waits with a timeout, one condition variable.
SPECIFICATION Spec
CONSTANTS
    NoTask = NoTask
    Waiters = {t1, t2}
    Notifiers = {t3}
    Cvs = {c1}
    Timeouts = TRUE
    MaxWaitList = 3
PROPERTY SignalReachesAWaiter
