-------------------------- MODULE RWLockPreferReader --------------------------
(***************************************************************************)
(* The reader/writer lock that prefers readers: c/Source/read_write_lock.c *)
(* with Type = RwPreferReader (and ReadWriteLockPreferReader, the same     *)
(* algorithm in c++/Source/cread_write_lock.cpp).                          *)
(*                                                                         *)
(* One action per semaphore call, and two for ReadCount++ and ReadCount--, *)
(* which load the count and store it back: that no update is lost is what  *)
(* ReadLock is for.  A task calls the lock any number of times, as a       *)
(* reader if it is in Readers, as a writer if it is in Writers; it may be  *)
(* in both.                                                                *)
(***************************************************************************)
EXTENDS FreeRTOSSemaphore, Integers, FiniteSets

CONSTANTS Readers, Writers

Tasks == Readers \cup Writers

ASSUME TasksAssumption == IsFiniteSet(Tasks) /\ NoTask \notin Tasks

VARIABLES
    pc,             \* where each task is: the call it is about to make
    loaded,         \* the count each task loaded, in ++ or --, or 0
    ReadCount,      \* lock->ReadCount
    ReadLock,       \* lock->ReadLock, a mutex
    ResourceLock    \* lock->ResourceLock, a binary semaphore

vars == <<pc, loaded, ReadCount, ReadLock, ResourceLock>>

(* ReaderLock: take ReadLock, count, perhaps take ResourceLock, give       *)
(* ReadLock.  ReaderUnlock: the same, and perhaps give ResourceLock.       *)
ReaderLockPCs   == {"rl_take", "rl_load", "rl_store", "rl_resource", "rl_give"}
ReaderUnlockPCs == {"ru_take", "ru_load", "ru_store", "ru_resource", "ru_give"}
PCs == {"idle", "reading", "wl_resource", "writing"}
         \cup ReaderLockPCs \cup ReaderUnlockPCs

TypeOK ==
    /\ pc \in [Tasks -> PCs]
    /\ loaded \in [Tasks -> Nat]
    /\ ReadCount \in Nat
    /\ ReadLock \in Tasks \cup {NoTask}
    /\ ResourceLock \in {0, 1}

Go(t, from, to) == pc[t] = from /\ pc' = [pc EXCEPT ![t] = to]

-----------------------------------------------------------------------------

(* CreateReadWriteLockPreferReader: the mutex is created free, the binary  *)
(* semaphore empty and then given once.                                    *)
Init ==
    /\ pc = [t \in Tasks |-> "idle"]
    /\ loaded = [t \in Tasks |-> 0]
    /\ ReadCount = 0
    /\ ReadLock = NoTask
    /\ ResourceLock = 1

-----------------------------------------------------------------------------
(* The steps the calls are made of, each a change of pc and of one thing.  *)

Invoke(t, from, to) ==
    Go(t, from, to) /\ UNCHANGED <<loaded, ReadCount, ReadLock, ResourceLock>>

TakeReadLock(t, from, to) ==
    Go(t, from, to) /\ TakeMutex(ReadLock, t) /\ UNCHANGED <<loaded, ReadCount, ResourceLock>>

GiveReadLock(t, from, to) ==
    Go(t, from, to) /\ GiveMutex(ReadLock) /\ UNCHANGED <<loaded, ReadCount, ResourceLock>>

TakeResource(t, from, to) ==
    Go(t, from, to) /\ Take(ResourceLock) /\ UNCHANGED <<loaded, ReadCount, ReadLock>>

GiveResource(t, from, to) ==
    Go(t, from, to) /\ Give(ResourceLock) /\ UNCHANGED <<loaded, ReadCount, ReadLock>>

(* ReadCount++ and ReadCount-- are a load and a store.                     *)
LoadCount(t, from, to) ==
    /\ Go(t, from, to)
    /\ loaded' = [loaded EXCEPT ![t] = ReadCount]
    /\ UNCHANGED <<ReadCount, ReadLock, ResourceLock>>

StoreCount(t, from, value, to) ==
    /\ Go(t, from, to)
    /\ ReadCount' = value
    /\ loaded' = [loaded EXCEPT ![t] = 0]
    /\ UNCHANGED <<ReadLock, ResourceLock>>

-----------------------------------------------------------------------------
(* ReaderLock *)

CallReaderLock(t) == t \in Readers /\ Invoke(t, "idle", "rl_take")

RlTakeReadLock(t) == TakeReadLock(t, "rl_take", "rl_load")
RlLoadCount(t)    == LoadCount(t, "rl_load", "rl_store")

(* The first reader takes ResourceLock for all of them.                    *)
FirstReader(count) == IF count = 1 THEN "rl_resource" ELSE "rl_give"

(* Mutants: the first reader is tested for before it is counted; every     *)
(* reader takes ResourceLock.                                              *)
RlStoreCountTestsEarly(t) == StoreCount(t, "rl_store", loaded[t] + 1, FirstReader(loaded[t]))
RlStoreCountAlwaysTakes(t) == StoreCount(t, "rl_store", loaded[t] + 1, "rl_resource")

RlStoreCount(t) == StoreCount(t, "rl_store", loaded[t] + 1, FirstReader(loaded[t] + 1))

RlTakeResource(t) == TakeResource(t, "rl_resource", "rl_give")
RlGiveReadLock(t) == GiveReadLock(t, "rl_give", "reading")

-----------------------------------------------------------------------------
(* ReaderUnlock *)

CallReaderUnlock(t) == Invoke(t, "reading", "ru_take")

(* Mutant: ReaderUnlock works on the count without ReadLock.               *)
RuTakeReadLockNot(t) == Invoke(t, "ru_take", "ru_load")

RuTakeReadLock(t) == TakeReadLock(t, "ru_take", "ru_load")
RuLoadCount(t)    == LoadCount(t, "ru_load", "ru_store")

(* The last reader gives ResourceLock back.                                *)
LastReader(count) == IF count = 0 THEN "ru_resource" ELSE "ru_give"

(* Mutant: an off-by-one in the test for the last reader.                  *)
RuStoreCountOffByOne(t) == StoreCount(t, "ru_store", loaded[t] - 1, LastReader(loaded[t] - 2))

RuStoreCount(t) == StoreCount(t, "ru_store", loaded[t] - 1, LastReader(loaded[t] - 1))

RuGiveResource(t) == GiveResource(t, "ru_resource", "ru_give")

(* Mutant: ReaderUnlock keeps ReadLock.                                    *)
RuGiveReadLockNot(t) == Invoke(t, "ru_give", "idle")

RuGiveReadLock(t) == GiveReadLock(t, "ru_give", "idle")

-----------------------------------------------------------------------------
(* WriterLock and WriterUnlock *)

CallWriterLock(t) == t \in Writers /\ Invoke(t, "idle", "wl_resource")
WlTakeResource(t) == TakeResource(t, "wl_resource", "writing")
WriterUnlock(t)   == GiveResource(t, "writing", "idle")

-----------------------------------------------------------------------------

(* A new call, which a task may or may not make.                           *)
Call(t) == CallReaderLock(t) \/ CallWriterLock(t)

(* A step of a call that was made.  A task that holds the lock gives it    *)
(* back in the end, as every user of the code does.                        *)
Step(t) ==
    \/ RlTakeReadLock(t) \/ RlLoadCount(t) \/ RlStoreCount(t) \/ RlTakeResource(t) \/ RlGiveReadLock(t)
    \/ CallReaderUnlock(t)
    \/ RuTakeReadLock(t) \/ RuLoadCount(t) \/ RuStoreCount(t) \/ RuGiveResource(t) \/ RuGiveReadLock(t)
    \/ WlTakeResource(t) \/ WriterUnlock(t)

Next == \E t \in Tasks : Call(t) \/ Step(t)

Spec == Init /\ [][Next]_vars

(* The scheduler runs every ready task: preemption and time slicing are on *)
(* in every FreeRTOSConfig.h of the repository.  A task that waits for a   *)
(* semaphore others keep taking first is never owed it.                    *)
Fairness == \A t \in Tasks : WF_vars(Step(t))

FairSpec == Spec /\ Fairness

-----------------------------------------------------------------------------
(* Properties *)

(* The tasks that ReadCount has to count: those past the increment of      *)
(* ReaderLock and not past the decrement of ReaderUnlock.                  *)
ActiveReaders ==
    {t \in Tasks : pc[t] \in {"rl_resource", "rl_give", "reading", "ru_take", "ru_load", "ru_store"}}

(* The tasks between the take and the give of ReadLock.                    *)
ReadLockPCs == (ReaderLockPCs \cup ReaderUnlockPCs) \ {"rl_take", "ru_take"}

(* The tasks for which ResourceLock is held: a writer that took it, or the *)
(* readers, of whom one took it for all.                                   *)
ResourceUsers ==
    {t \in Tasks : pc[t] \in {"rl_give", "reading", "ru_take", "ru_load", "ru_store",
                              "ru_resource", "writing"}}

(* The purpose of the lock: a writer is alone, also with respect to the    *)
(* readers that are on their way in or out and already rely on the         *)
(* resource being theirs.                                                  *)
WriterAlone ==
    \A t, u \in Tasks : pc[t] = "writing" /\ u \in ResourceUsers => u = t

(* ReadLock protects ReadCount: whoever is between its take and its give   *)
(* is the holder, so no two tasks work on the count at once, and the give  *)
(* is done by the holder, as the kernel demands of a mutex.                *)
CountGuarded ==
    \A t \in Tasks : pc[t] \in ReadLockPCs <=> ReadLock = t

(* ReadCount is exact: the number of active readers in any interleaving.   *)
ReadCountExact == ReadCount = Cardinality(ActiveReaders)

(* The binary semaphore is accounted for: it is empty exactly while some   *)
(* task relies on it.  So the last reader or the writer never gives it     *)
(* twice (the code ignores the pdFAIL), and it is never lost.              *)
ResourceAccounted == (ResourceLock = 0) <=> (ResourceUsers # {})

(* Readers never wait for each other's work: while one is reading, a       *)
(* reader that came in does not have to take ResourceLock (only the holder *)
(* of ReadLock, for a few steps, stands in its way).                       *)
ReadersShare ==
    (\E t \in Tasks : pc[t] = "reading") => \A u \in Tasks : pc[u] # "rl_resource"

(* The refinement: what each task holds, seen from outside.                *)
Holds == [t \in Tasks |-> IF pc[t] = "reading" THEN "read"
                          ELSE IF pc[t] = "writing" THEN "write" ELSE "nothing"]

RW == INSTANCE ReadWriteLock WITH holds <- Holds

(* Every behaviour is one the abstract lock allows.                        *)
ImplementsReadWriteLock == RW!Spec

Pending(t) == pc[t] \notin {"idle", "reading", "writing"}

(* No call is lost: once the tasks stop making new calls, every call that  *)
(* was made returns, in whatever order they were made.                     *)
CallsReturn ==
    <>[][\A t \in Tasks : ~Call(t)]_vars => <>[](\A t \in Tasks : ~Pending(t))

=============================================================================
