-------------------------- MODULE RWLockPreferWriter --------------------------
(***************************************************************************)
(* The reader/writer lock that prefers writers: c/Source/read_write_lock.c *)
(* with Type = RwPreferWriter (and ReadWriteLockPreferWriter, the same     *)
(* algorithm in c++/Source/cread_write_lock.cpp).                          *)
(*                                                                         *)
(* One action per semaphore call, and two for each ++ and --, which load   *)
(* the count and store it back.  A task calls the lock any number of       *)
(* times, as a reader if it is in Readers, as a writer if it is in         *)
(* Writers; it may be in both.                                             *)
(***************************************************************************)
EXTENDS FreeRTOSSemaphore, Integers, FiniteSets

CONSTANTS Readers, Writers

Tasks == Readers \cup Writers

ASSUME TasksAssumption == IsFiniteSet(Tasks) /\ NoTask \notin Tasks

VARIABLES
    pc,                 \* where each task is: the call it is about to make
    loaded,             \* the count each task loaded, in ++ or --, or 0
    ReadCount,          \* lock->ReadCount
    WriteCount,         \* lock->WriteCount
    ReadLock,           \* lock->ReadLock, a mutex
    WriteLock,          \* lock->WriteLock, a mutex
    ResourceLock,       \* lock->ResourceLock, a binary semaphore
    BlockReadersLock    \* lock->BlockReadersLock, a binary semaphore

counts == <<loaded, ReadCount, WriteCount>>
locks  == <<ReadLock, WriteLock, ResourceLock, BlockReadersLock>>
vars   == <<pc, counts, locks>>

ReaderLockPCs ==
    {"rl_block", "rl_take", "rl_load", "rl_store", "rl_resource", "rl_give", "rl_unblock"}
ReaderUnlockPCs == {"ru_take", "ru_load", "ru_store", "ru_resource", "ru_give"}
WriterLockPCs ==
    {"wl_take", "wl_load", "wl_store", "wl_block", "wl_give", "wl_resource"}
WriterUnlockPCs == {"wu_take", "wu_load", "wu_store", "wu_unblock", "wu_give"}
PCs == {"idle", "reading", "writing"}
         \cup ReaderLockPCs \cup ReaderUnlockPCs \cup WriterLockPCs \cup WriterUnlockPCs

TypeOK ==
    /\ pc \in [Tasks -> PCs]
    /\ loaded \in [Tasks -> Nat]
    /\ ReadCount \in Nat
    /\ WriteCount \in Nat
    /\ ReadLock \in Tasks \cup {NoTask}
    /\ WriteLock \in Tasks \cup {NoTask}
    /\ ResourceLock \in {0, 1}
    /\ BlockReadersLock \in {0, 1}

Go(t, from, to) == pc[t] = from /\ pc' = [pc EXCEPT ![t] = to]

-----------------------------------------------------------------------------

(* CreateReadWriteLockPreferWriter: mutexes are created free, the binary   *)
(* semaphores empty and then given once.                                   *)
Init ==
    /\ pc = [t \in Tasks |-> "idle"]
    /\ loaded = [t \in Tasks |-> 0]
    /\ ReadCount = 0 /\ WriteCount = 0
    /\ ReadLock = NoTask /\ WriteLock = NoTask
    /\ ResourceLock = 1 /\ BlockReadersLock = 1

-----------------------------------------------------------------------------
(* The steps the calls are made of, each a change of pc and of one thing.  *)

Invoke(t, from, to) == Go(t, from, to) /\ UNCHANGED <<counts, locks>>

TakeReadLock(t, from, to) ==
    Go(t, from, to) /\ TakeMutex(ReadLock, t) /\ UNCHANGED <<counts, WriteLock, ResourceLock, BlockReadersLock>>
GiveReadLock(t, from, to) ==
    Go(t, from, to) /\ GiveMutex(ReadLock) /\ UNCHANGED <<counts, WriteLock, ResourceLock, BlockReadersLock>>

TakeWriteLock(t, from, to) ==
    Go(t, from, to) /\ TakeMutex(WriteLock, t) /\ UNCHANGED <<counts, ReadLock, ResourceLock, BlockReadersLock>>
GiveWriteLock(t, from, to) ==
    Go(t, from, to) /\ GiveMutex(WriteLock) /\ UNCHANGED <<counts, ReadLock, ResourceLock, BlockReadersLock>>

TakeResource(t, from, to) ==
    Go(t, from, to) /\ Take(ResourceLock) /\ UNCHANGED <<counts, ReadLock, WriteLock, BlockReadersLock>>
GiveResource(t, from, to) ==
    Go(t, from, to) /\ Give(ResourceLock) /\ UNCHANGED <<counts, ReadLock, WriteLock, BlockReadersLock>>

TakeBlockReaders(t, from, to) ==
    Go(t, from, to) /\ Take(BlockReadersLock) /\ UNCHANGED <<counts, ReadLock, WriteLock, ResourceLock>>
GiveBlockReaders(t, from, to) ==
    Go(t, from, to) /\ Give(BlockReadersLock) /\ UNCHANGED <<counts, ReadLock, WriteLock, ResourceLock>>

(* ++ and -- are a load and a store.                                       *)
LoadCount(t, from, count, to) ==
    /\ Go(t, from, to)
    /\ loaded' = [loaded EXCEPT ![t] = count]
    /\ UNCHANGED <<ReadCount, WriteCount, locks>>

StoreReadCount(t, from, value, to) ==
    /\ Go(t, from, to)
    /\ ReadCount' = value
    /\ loaded' = [loaded EXCEPT ![t] = 0]
    /\ UNCHANGED <<WriteCount, locks>>

StoreWriteCount(t, from, value, to) ==
    /\ Go(t, from, to)
    /\ WriteCount' = value
    /\ loaded' = [loaded EXCEPT ![t] = 0]
    /\ UNCHANGED <<ReadCount, locks>>

-----------------------------------------------------------------------------
(* ReaderLock *)

CallReaderLock(t) == t \in Readers /\ Invoke(t, "idle", "rl_block")

(* Mutant: ReaderLock passes BlockReadersLock without taking it.           *)
RlTakeBlockReadersNot(t) == Invoke(t, "rl_block", "rl_take")

RlTakeBlockReaders(t) == TakeBlockReaders(t, "rl_block", "rl_take")
RlTakeReadLock(t)     == TakeReadLock(t, "rl_take", "rl_load")
RlLoadCount(t)        == LoadCount(t, "rl_load", ReadCount, "rl_store")

(* The first reader takes ResourceLock for all of them.                    *)
FirstReader(count) == IF count = 1 THEN "rl_resource" ELSE "rl_give"

(* Mutant: the first reader is tested for before it is counted.            *)
RlStoreCountTestsEarly(t) == StoreReadCount(t, "rl_store", loaded[t] + 1, FirstReader(loaded[t]))

RlStoreCount(t)       == StoreReadCount(t, "rl_store", loaded[t] + 1, FirstReader(loaded[t] + 1))
RlTakeResource(t)     == TakeResource(t, "rl_resource", "rl_give")
RlGiveReadLock(t)     == GiveReadLock(t, "rl_give", "rl_unblock")
RlGiveBlockReaders(t) == GiveBlockReaders(t, "rl_unblock", "reading")

-----------------------------------------------------------------------------
(* ReaderUnlock *)

CallReaderUnlock(t) == Invoke(t, "reading", "ru_take")
RuTakeReadLock(t)   == TakeReadLock(t, "ru_take", "ru_load")
RuLoadCount(t)      == LoadCount(t, "ru_load", ReadCount, "ru_store")

(* The last reader gives ResourceLock back.                                *)
LastReader(count) == IF count = 0 THEN "ru_resource" ELSE "ru_give"

RuStoreCount(t)     == StoreReadCount(t, "ru_store", loaded[t] - 1, LastReader(loaded[t] - 1))
RuGiveResource(t)   == GiveResource(t, "ru_resource", "ru_give")
RuGiveReadLock(t)   == GiveReadLock(t, "ru_give", "idle")

-----------------------------------------------------------------------------
(* WriterLock *)

CallWriterLock(t)  == t \in Writers /\ Invoke(t, "idle", "wl_take")
WlTakeWriteLock(t) == TakeWriteLock(t, "wl_take", "wl_load")
WlLoadCount(t)     == LoadCount(t, "wl_load", WriteCount, "wl_store")

(* The first writer closes the gate to readers, for all writers.           *)
FirstWriter(count) == IF count = 1 THEN "wl_block" ELSE "wl_give"

WlStoreCount(t)       == StoreWriteCount(t, "wl_store", loaded[t] + 1, FirstWriter(loaded[t] + 1))
WlTakeBlockReaders(t) == TakeBlockReaders(t, "wl_block", "wl_give")
WlGiveWriteLock(t)    == GiveWriteLock(t, "wl_give", "wl_resource")
WlTakeResource(t)     == TakeResource(t, "wl_resource", "writing")

-----------------------------------------------------------------------------
(* WriterUnlock *)

WuGiveResource(t) == GiveResource(t, "writing", "wu_take")

(* Mutant: WriterUnlock works on the count without WriteLock.              *)
WuTakeWriteLockNot(t) == Invoke(t, "wu_take", "wu_load")

WuTakeWriteLock(t) == TakeWriteLock(t, "wu_take", "wu_load")
WuLoadCount(t)     == LoadCount(t, "wu_load", WriteCount, "wu_store")

(* The last writer opens the gate.                                         *)
LastWriter(count) == IF count = 0 THEN "wu_unblock" ELSE "wu_give"

(* Mutants: an off-by-one in the test for the last writer; the last writer *)
(* leaves the gate closed.                                                 *)
WuStoreCountOffByOne(t)  == StoreWriteCount(t, "wu_store", loaded[t] - 1, LastWriter(loaded[t] - 2))
WuStoreCountKeepsGate(t) == StoreWriteCount(t, "wu_store", loaded[t] - 1, "wu_give")

WuStoreCount(t)       == StoreWriteCount(t, "wu_store", loaded[t] - 1, LastWriter(loaded[t] - 1))
WuGiveBlockReaders(t) == GiveBlockReaders(t, "wu_unblock", "wu_give")
WuGiveWriteLock(t)    == GiveWriteLock(t, "wu_give", "idle")

-----------------------------------------------------------------------------

(* A new call, which a task may or may not make.                           *)
Call(t) == CallReaderLock(t) \/ CallWriterLock(t)

(* A step of a call that was made.  A task that holds the lock gives it    *)
(* back in the end, as every user of the code does.                        *)
ReaderStep(t) ==
    \/ RlTakeBlockReaders(t) \/ RlTakeReadLock(t) \/ RlLoadCount(t) \/ RlStoreCount(t)
    \/ RlTakeResource(t) \/ RlGiveReadLock(t) \/ RlGiveBlockReaders(t)
    \/ CallReaderUnlock(t)
    \/ RuTakeReadLock(t) \/ RuLoadCount(t) \/ RuStoreCount(t)
    \/ RuGiveResource(t) \/ RuGiveReadLock(t)

WriterStep(t) ==
    \/ WlTakeWriteLock(t) \/ WlLoadCount(t) \/ WlStoreCount(t)
    \/ WlTakeBlockReaders(t) \/ WlGiveWriteLock(t) \/ WlTakeResource(t)
    \/ WuGiveResource(t)
    \/ WuTakeWriteLock(t) \/ WuLoadCount(t) \/ WuStoreCount(t)
    \/ WuGiveBlockReaders(t) \/ WuGiveWriteLock(t)

Step(t) == ReaderStep(t) \/ WriterStep(t)

Next == \E t \in Tasks : Call(t) \/ Step(t)

Spec == Init /\ [][Next]_vars

(* The scheduler runs every ready task: preemption and time slicing are on *)
(* in every FreeRTOSConfig.h of the repository.  A task that waits for a   *)
(* semaphore others keep taking first is never owed it.                    *)
Fairness == \A t \in Tasks : WF_vars(Step(t))

FairSpec == Spec /\ Fairness

-----------------------------------------------------------------------------
(* Properties *)

(* The tasks that ReadCount has to count, and those WriteCount has to.     *)
ActiveReaders ==
    {t \in Tasks : pc[t] \in {"rl_resource", "rl_give", "rl_unblock", "reading",
                              "ru_take", "ru_load", "ru_store"}}
CountedWriters ==
    {t \in Tasks : pc[t] \in {"wl_block", "wl_give", "wl_resource", "writing",
                              "wu_take", "wu_load", "wu_store"}}

(* The tasks between the take and the give of ReadLock, of WriteLock.      *)
ReadLockPCs == {"rl_load", "rl_store", "rl_resource", "rl_give",
                "ru_load", "ru_store", "ru_resource", "ru_give"}
WriteLockPCs == {"wl_load", "wl_store", "wl_block", "wl_give",
                 "wu_load", "wu_store", "wu_unblock", "wu_give"}

(* The tasks that rely on ResourceLock being held.                         *)
ResourceUsers ==
    {t \in Tasks : pc[t] \in {"rl_give", "rl_unblock", "reading", "ru_take", "ru_load",
                              "ru_store", "ru_resource", "writing"}}

(* The tasks that rely on BlockReadersLock being held: a reader on its way *)
(* in, or the writers, of whom one took it for all.                        *)
GateUsers ==
    {t \in Tasks : pc[t] \in {"rl_take", "rl_load", "rl_store", "rl_resource", "rl_give",
                              "rl_unblock", "wl_give", "wl_resource", "writing", "wu_take",
                              "wu_load", "wu_store", "wu_unblock"}}

(* The purpose of the lock: a writer is alone, also with respect to the    *)
(* readers that are on their way in or out and already rely on the         *)
(* resource being theirs.                                                  *)
WriterAlone ==
    \A t, u \in Tasks : pc[t] = "writing" /\ u \in ResourceUsers => u = t

(* Each mutex is held by whoever is between its take and its give: no two  *)
(* tasks work on a count at once, and only the holder gives a mutex.       *)
CountsGuarded ==
    \A t \in Tasks : /\ pc[t] \in ReadLockPCs <=> ReadLock = t
                     /\ pc[t] \in WriteLockPCs <=> WriteLock = t

(* Both counts are exact in any interleaving: "How many active readers are *)
(* there" and "Number of Writers waiting for the Resource Lock, including  *)
(* any current Writer already holding it".                                 *)
CountsExact ==
    /\ ReadCount = Cardinality(ActiveReaders)
    /\ WriteCount = Cardinality(CountedWriters)

(* The binary semaphores are accounted for: empty exactly while some task  *)
(* relies on it, so neither is given twice (the code ignores the pdFAIL)   *)
(* and neither is lost.                                                    *)
ResourceAccounted == ResourceLock = 0 <=> ResourceUsers # {}
GateAccounted     == BlockReadersLock = 0 <=> GateUsers # {}
SemaphoresAccounted == ResourceAccounted /\ GateAccounted

(* The preference: while a writer that got through the gate waits or       *)
(* writes, no reader gets into the lock; those inside are only on their    *)
(* way out.  It holds through every hand-over from writer to writer.       *)
WritersThroughGate ==
    \E t \in Tasks : pc[t] \in {"wl_give", "wl_resource", "writing", "wu_take"}
NoReaderOvertakes ==
    [][WritersThroughGate => Cardinality(ActiveReaders') <= Cardinality(ActiveReaders)]_vars

(* The refinement: what each task holds, seen from outside.                *)
Holds == [t \in Tasks |-> IF pc[t] = "reading" THEN "read"
                          ELSE IF pc[t] = "writing" THEN "write" ELSE "nothing"]

RW == INSTANCE ReadWriteLock WITH holds <- Holds

(* Every behaviour is one the abstract lock allows.                        *)
ImplementsReadWriteLock == RW!Spec

Pending(t) == pc[t] \notin {"idle", "reading", "writing"}

(* No call is lost: once the tasks stop making new calls, every call that  *)
(* was made returns, in whatever order they were made.                     *)
CallsReturn ==
    <>[][\A t \in Tasks : ~Call(t)]_vars => <>[](\A t \in Tasks : ~Pending(t))

WriteCallPCs == WriteLockPCs \cup {"wl_take", "wl_resource", "writing", "wu_take"}

(* Readers cannot starve a writer, however aggressive they are: once the   *)
(* other writers are done, its call returns although the readers never     *)
(* stop calling.  For that the writer needs the highest priority: the      *)
(* kernel wakes the highest-priority waiter of a semaphore that is given,  *)
(* and it preempts the giver at once, so nobody takes the gate in between, *)
(* and a take that is possible again and again happens.                    *)
WriterNotStarved ==
    \A t \in Writers :
        /\ <>[](\A u \in Tasks \ {t} : pc[u] \notin WriteCallPCs)
        /\ SF_vars(WlTakeBlockReaders(t))
        => (pc[t] = "wl_take" ~> pc[t] = "writing")

=============================================================================
