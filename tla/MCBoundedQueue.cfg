\* Two producers and two consumers, as many items as there are consumers.
SPECIFICATION BqFairSpec
CONSTANTS
    NoTask = NoTask
    Producers = {p1, p2}
    Consumers = {k1, k2}
    MaxSize = 2
INVARIANTS
    QueueAsserts
    NoLostWakeup
PROPERTY ItemsKeepFlowing
