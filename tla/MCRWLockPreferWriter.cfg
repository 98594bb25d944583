\* Four tasks, each free to call as a reader or as a writer, forever.
SPECIFICATION FairSpec
CONSTANTS
    NoTask = NoTask
    Readers = {t1, t2, t3, t4}
    Writers = {t1, t2, t3, t4}
INVARIANTS
    CountsExact
    SemaphoresAccounted
PROPERTIES
    NoReaderOvertakes
    ImplementsReadWriteLock
    CallsReturn
    WriterNotStarved
