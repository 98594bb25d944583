SPECIFICATION FairSpec
CHECK_DEADLOCK FALSE
CONSTANTS
    Tasks = {u1}
    Daemon = Daemon
    Tasklets = {k1}
    Timers = {m1}
    Hooks = {h1}
    None = None
    QueueLength = 2
    MaxCallbacks = 1
INVARIANTS
    TaskletAccounted
    NothingGoneIsUsed
PROPERTIES
    CommandsExecuted
