---------------------- MODULE RWLockPreferWriter_proofs ----------------------
(***************************************************************************)
(* Proofs about RWLockPreferWriter, for any finite sets of readers and     *)
(* writers: the lock's invariants, that no reader overtakes a writer, and  *)
(* that the code implements ReadWriteLock.                                 *)
(***************************************************************************)
EXTENDS RWLockPreferWriter, FiniteSetTheorems, TLAPS

-----------------------------------------------------------------------------
(* The inductive invariant.                                                *)

(* What a task loaded is still the count when the task stores: nobody else *)
(* can store in between.                                                   *)
LoadedCurrent ==
    \A t \in Tasks : /\ pc[t] \in {"rl_store", "ru_store"} => loaded[t] = ReadCount
                     /\ pc[t] \in {"wl_store", "wu_store"} => loaded[t] = WriteCount

(* The task that takes a semaphore for its group is the only one of the    *)
(* group; the one that gives it back was the last.                         *)
FirstIsAlone ==
    \A t, u \in Tasks :
        /\ pc[t] = "rl_resource" /\ u \in ActiveReaders => u = t
        /\ pc[t] = "wl_block" /\ u \in CountedWriters => u = t
LastIsLast ==
    \A t \in Tasks :
        /\ pc[t] = "ru_resource" => ActiveReaders = {}
        /\ pc[t] = "wu_unblock" => CountedWriters = {}

(* A reader on its way in has the gate for itself.                         *)
InGate == {t \in Tasks : pc[t] \in ReaderLockPCs \ {"rl_block"}}
ReaderAloneInGate ==
    \A t \in InGate : \A u \in GateUsers : u = t

IInv ==
    /\ TypeOK
    /\ CountsGuarded
    /\ LoadedCurrent
    /\ CountsExact
    /\ FirstIsAlone
    /\ LastIsLast
    /\ ResourceAccounted
    /\ WriterAlone
    /\ GateAccounted
    /\ ReaderAloneInGate

(* The definitions a step is made of.                                      *)
USE DEF Go, Invoke, TakeReadLock, GiveReadLock, TakeWriteLock, GiveWriteLock,
        TakeResource, GiveResource, TakeBlockReaders, GiveBlockReaders,
        LoadCount, StoreReadCount, StoreWriteCount, counts, locks,
        Take, Give, TakeMutex, GiveMutex, FirstReader, LastReader, FirstWriter, LastWriter

-----------------------------------------------------------------------------
(* How the number of active readers and of counted writers changes.        *)

(* Sets of tasks are finite, and counted by naturals.                      *)
LEMMA SubsetsFinite ==
    ASSUME NEW S, S \subseteq Tasks
    PROVE  IsFiniteSet(S) /\ Cardinality(S) \in Nat /\ (Cardinality(S) = 0 <=> S = {})
BY TasksAssumption, FS_Subset, FS_CardinalityType, FS_EmptySet

(* A task that joins a set of tasks adds one to its size.                  *)
LEMMA OneMore ==
    ASSUME NEW S, S \subseteq Tasks, NEW t, t \notin S
    PROVE  Cardinality(S \cup {t}) = Cardinality(S) + 1
BY SubsetsFinite, FS_AddElement

(* A task that leaves one takes one away.                                  *)
LEMMA OneLess ==
    ASSUME NEW S, S \subseteq Tasks, NEW t, t \in S
    PROVE  Cardinality(S \ {t}) = Cardinality(S) - 1
BY SubsetsFinite, FS_RemoveElement

(* Both counts are about sets of tasks.                                    *)
LEMMA CountedAreTasks == ActiveReaders \subseteq Tasks /\ CountedWriters \subseteq Tasks
BY DEF ActiveReaders, CountedWriters

(* What is counted, and the counts.                                        *)
Counted == <<ActiveReaders, ReadCount, CountedWriters, WriteCount>>

(* Every step but the stores leaves both sets alone, a store adds the task *)
(* to one of them or removes it.                                           *)
LEMMA CountedChange ==
    ASSUME TypeOK, NEW t \in Tasks
    PROVE  /\ RlStoreCount(t) => /\ t \notin ActiveReaders /\ ActiveReaders' = ActiveReaders \cup {t}
                                /\ UNCHANGED <<CountedWriters, WriteCount>>
           /\ RuStoreCount(t) => /\ t \in ActiveReaders /\ ActiveReaders' = ActiveReaders \ {t}
                                /\ UNCHANGED <<CountedWriters, WriteCount>>
           /\ WlStoreCount(t) => /\ t \notin CountedWriters /\ CountedWriters' = CountedWriters \cup {t}
                                /\ UNCHANGED <<ActiveReaders, ReadCount>>
           /\ WuStoreCount(t) => /\ t \in CountedWriters /\ CountedWriters' = CountedWriters \ {t}
                                /\ UNCHANGED <<ActiveReaders, ReadCount>>
           /\ (Call(t) \/ Step(t)) /\ ~RlStoreCount(t) /\ ~RuStoreCount(t)
                  /\ ~WlStoreCount(t) /\ ~WuStoreCount(t) => UNCHANGED Counted
<1> USE DEF TypeOK, ActiveReaders, CountedWriters, Counted
<1>1. CallReaderLock(t) => UNCHANGED Counted
  BY DEF CallReaderLock
<1>2. RlTakeBlockReaders(t) => UNCHANGED Counted
  BY DEF RlTakeBlockReaders
<1>3. RlTakeReadLock(t) => UNCHANGED Counted
  BY DEF RlTakeReadLock
<1>4. RlLoadCount(t) => UNCHANGED Counted
  BY DEF RlLoadCount
<1>5. RlStoreCount(t) => /\ t \notin ActiveReaders /\ ActiveReaders' = ActiveReaders \cup {t}
                      /\ UNCHANGED <<CountedWriters, WriteCount>>
  BY DEF RlStoreCount
<1>6. RlTakeResource(t) => UNCHANGED Counted
  BY DEF RlTakeResource
<1>7. RlGiveReadLock(t) => UNCHANGED Counted
  BY DEF RlGiveReadLock
<1>8. RlGiveBlockReaders(t) => UNCHANGED Counted
  BY DEF RlGiveBlockReaders
<1>9. CallReaderUnlock(t) => UNCHANGED Counted
  BY DEF CallReaderUnlock
<1>10. RuTakeReadLock(t) => UNCHANGED Counted
  BY DEF RuTakeReadLock
<1>11. RuLoadCount(t) => UNCHANGED Counted
  BY DEF RuLoadCount
<1>12. RuStoreCount(t) => /\ t \in ActiveReaders /\ ActiveReaders' = ActiveReaders \ {t}
                      /\ UNCHANGED <<CountedWriters, WriteCount>>
  BY DEF RuStoreCount
<1>13. RuGiveResource(t) => UNCHANGED Counted
  BY DEF RuGiveResource
<1>14. RuGiveReadLock(t) => UNCHANGED Counted
  BY DEF RuGiveReadLock
<1>15. CallWriterLock(t) => UNCHANGED Counted
  BY DEF CallWriterLock
<1>16. WlTakeWriteLock(t) => UNCHANGED Counted
  BY DEF WlTakeWriteLock
<1>17. WlLoadCount(t) => UNCHANGED Counted
  BY DEF WlLoadCount
<1>18. WlStoreCount(t) => /\ t \notin CountedWriters /\ CountedWriters' = CountedWriters \cup {t}
                      /\ UNCHANGED <<ActiveReaders, ReadCount>>
  BY DEF WlStoreCount
<1>19. WlTakeBlockReaders(t) => UNCHANGED Counted
  BY DEF WlTakeBlockReaders
<1>20. WlGiveWriteLock(t) => UNCHANGED Counted
  BY DEF WlGiveWriteLock
<1>21. WlTakeResource(t) => UNCHANGED Counted
  BY DEF WlTakeResource
<1>22. WuGiveResource(t) => UNCHANGED Counted
  BY DEF WuGiveResource
<1>23. WuTakeWriteLock(t) => UNCHANGED Counted
  BY DEF WuTakeWriteLock
<1>24. WuLoadCount(t) => UNCHANGED Counted
  BY DEF WuLoadCount
<1>25. WuStoreCount(t) => /\ t \in CountedWriters /\ CountedWriters' = CountedWriters \ {t}
                      /\ UNCHANGED <<ActiveReaders, ReadCount>>
  BY DEF WuStoreCount
<1>26. WuGiveBlockReaders(t) => UNCHANGED Counted
  BY DEF WuGiveBlockReaders
<1>27. WuGiveWriteLock(t) => UNCHANGED Counted
  BY DEF WuGiveWriteLock
<1> QED
  BY <1>1, <1>2, <1>3, <1>4, <1>5, <1>6, <1>7, <1>8, <1>9, <1>10, <1>11, <1>12, <1>13, <1>14,
     <1>15, <1>16, <1>17, <1>18, <1>19, <1>20, <1>21, <1>22, <1>23, <1>24, <1>25, <1>26, <1>27
  DEF Call, Step, ReaderStep, WriterStep

(* So both counts stay exact.                                              *)
LEMMA CountsPreserved ==
    ASSUME IInv, NEW t \in Tasks, Call(t) \/ Step(t) PROVE CountsExact'
<1>1. /\ TypeOK /\ LoadedCurrent
      /\ ReadCount = Cardinality(ActiveReaders) /\ WriteCount = Cardinality(CountedWriters)
  BY DEF IInv, CountsExact
<1>2. CASE RlStoreCount(t)
  <2>1. ReadCount' = ReadCount + 1
    BY <1>1, <1>2 DEF LoadedCurrent, RlStoreCount
  <2>2. Cardinality(ActiveReaders') = Cardinality(ActiveReaders) + 1
    BY <1>1, <1>2, CountedChange, CountedAreTasks, OneMore
  <2> QED
    BY <1>1, <1>2, <2>1, <2>2, CountedChange DEF CountsExact
<1>3. CASE RuStoreCount(t)
  <2>1. ReadCount' = ReadCount - 1
    BY <1>1, <1>3 DEF LoadedCurrent, RuStoreCount
  <2>2. Cardinality(ActiveReaders') = Cardinality(ActiveReaders) - 1
    BY <1>1, <1>3, CountedChange, CountedAreTasks, OneLess
  <2> QED
    BY <1>1, <1>3, <2>1, <2>2, CountedChange DEF CountsExact
<1>4. CASE WlStoreCount(t)
  <2>1. WriteCount' = WriteCount + 1
    BY <1>1, <1>4 DEF LoadedCurrent, WlStoreCount
  <2>2. Cardinality(CountedWriters') = Cardinality(CountedWriters) + 1
    BY <1>1, <1>4, CountedChange, CountedAreTasks, OneMore
  <2> QED
    BY <1>1, <1>4, <2>1, <2>2, CountedChange DEF CountsExact
<1>5. CASE WuStoreCount(t)
  <2>1. WriteCount' = WriteCount - 1
    BY <1>1, <1>5 DEF LoadedCurrent, WuStoreCount
  <2>2. Cardinality(CountedWriters') = Cardinality(CountedWriters) - 1
    BY <1>1, <1>5, CountedChange, CountedAreTasks, OneLess
  <2> QED
    BY <1>1, <1>5, <2>1, <2>2, CountedChange DEF CountsExact
<1>6. CASE ~RlStoreCount(t) /\ ~RuStoreCount(t) /\ ~WlStoreCount(t) /\ ~WuStoreCount(t)
  BY <1>1, <1>6, CountedChange DEF CountsExact, Counted
<1> QED
  BY <1>2, <1>3, <1>4, <1>5, <1>6

(* A count is zero exactly when there is nobody to count.                  *)
LEMMA CountZero ==
    IInv => /\ ReadCount = 0 <=> ActiveReaders = {}
            /\ WriteCount = 0 <=> CountedWriters = {}
BY SubsetsFinite, CountedAreTasks DEF IInv, CountsExact

-----------------------------------------------------------------------------

(* The invariant holds when CreateReadWriteLock has returned.              *)
LEMMA Initially == Init => IInv
<1> SUFFICES ASSUME Init PROVE IInv
  OBVIOUS
<1>1. TypeOK
  BY DEF Init, TypeOK, PCs
<1>2. /\ ActiveReaders = {} /\ CountedWriters = {}
      /\ ResourceUsers = {} /\ GateUsers = {} /\ InGate = {}
  BY DEF Init, ActiveReaders, CountedWriters, ResourceUsers, GateUsers, InGate, ReaderLockPCs
<1>3. CountsExact
  BY <1>2, FS_EmptySet DEF Init, CountsExact
<1>4. CountsGuarded
  BY TasksAssumption DEF Init, CountsGuarded, ReadLockPCs, WriteLockPCs
<1> QED
  BY <1>1, <1>2, <1>3, <1>4
     DEF Init, IInv, LoadedCurrent, FirstIsAlone, LastIsLast, ResourceAccounted, GateAccounted,
         WriterAlone, ReaderAloneInGate

(* Every step of every call preserves the invariant.                       *)
LEMMA StepPreserves ==
    ASSUME IInv, NEW t \in Tasks, Call(t) \/ Step(t) PROVE IInv'
<1> USE DEF TypeOK, PCs, ReadLockPCs, WriteLockPCs, ReaderLockPCs, ReaderUnlockPCs, WriterLockPCs,
            WriterUnlockPCs
<1>0. CountsExact'
  BY CountsPreserved
<1>1. CASE CallReaderLock(t)
  <2>1. TypeOK' /\ CountsGuarded' /\ LoadedCurrent'
    BY <1>1, TasksAssumption, CountZero DEF CallReaderLock, IInv, CountsGuarded, LoadedCurrent
  <2>2. FirstIsAlone' /\ LastIsLast'
    BY <1>1, CountZero
       DEF CallReaderLock, ActiveReaders, CountedWriters, IInv, FirstIsAlone, LastIsLast,
       CountsGuarded, LoadedCurrent
  <2>3. ResourceAccounted' /\ WriterAlone'
    BY <1>1, CountZero
       DEF CallReaderLock, IInv, FirstIsAlone, LastIsLast, CountsGuarded, LoadedCurrent,
       ResourceAccounted, WriterAlone, ResourceUsers, ActiveReaders
  <2>4. GateAccounted' /\ ReaderAloneInGate'
    BY <1>1, CountZero
       DEF CallReaderLock, IInv, FirstIsAlone, LastIsLast, CountsGuarded, LoadedCurrent,
       GateAccounted, ReaderAloneInGate, GateUsers, InGate, CountedWriters
  <2> QED
    BY <1>0, <2>1, <2>2, <2>3, <2>4 DEF IInv
<1>2. CASE RlTakeBlockReaders(t)
  <2>1. TypeOK' /\ CountsGuarded' /\ LoadedCurrent'
    BY <1>2, TasksAssumption, CountZero
       DEF RlTakeBlockReaders, IInv, CountsGuarded, LoadedCurrent
  <2>2. FirstIsAlone' /\ LastIsLast'
    BY <1>2, CountZero
       DEF RlTakeBlockReaders, ActiveReaders, CountedWriters, IInv, FirstIsAlone,
         LastIsLast,
       CountsGuarded, LoadedCurrent
  <2>3. ResourceAccounted' /\ WriterAlone'
    BY <1>2, CountZero
       DEF RlTakeBlockReaders, IInv, FirstIsAlone, LastIsLast, CountsGuarded, LoadedCurrent,
       ResourceAccounted, WriterAlone, ResourceUsers, ActiveReaders
  <2>4. GateAccounted' /\ ReaderAloneInGate'
    BY <1>2, CountZero
       DEF RlTakeBlockReaders, IInv, FirstIsAlone, LastIsLast, CountsGuarded, LoadedCurrent,
       GateAccounted, ReaderAloneInGate, GateUsers, InGate, CountedWriters
  <2> QED
    BY <1>0, <2>1, <2>2, <2>3, <2>4 DEF IInv
<1>3. CASE RlTakeReadLock(t)
  <2>1. TypeOK' /\ CountsGuarded' /\ LoadedCurrent'
    BY <1>3, TasksAssumption, CountZero DEF RlTakeReadLock, IInv, CountsGuarded, LoadedCurrent
  <2>2. FirstIsAlone' /\ LastIsLast'
    BY <1>3, CountZero
       DEF RlTakeReadLock, ActiveReaders, CountedWriters, IInv, FirstIsAlone, LastIsLast,
       CountsGuarded, LoadedCurrent
  <2>3. ResourceAccounted' /\ WriterAlone'
    BY <1>3, CountZero
       DEF RlTakeReadLock, IInv, FirstIsAlone, LastIsLast, CountsGuarded, LoadedCurrent,
       ResourceAccounted, WriterAlone, ResourceUsers, ActiveReaders
  <2>4. GateAccounted' /\ ReaderAloneInGate'
    BY <1>3, CountZero
       DEF RlTakeReadLock, IInv, FirstIsAlone, LastIsLast, CountsGuarded, LoadedCurrent,
       GateAccounted, ReaderAloneInGate, GateUsers, InGate, CountedWriters
  <2> QED
    BY <1>0, <2>1, <2>2, <2>3, <2>4 DEF IInv
<1>4. CASE RlLoadCount(t)
  <2>1. TypeOK' /\ CountsGuarded' /\ LoadedCurrent'
    BY <1>4, TasksAssumption, CountZero DEF RlLoadCount, IInv, CountsGuarded, LoadedCurrent
  <2>2. FirstIsAlone' /\ LastIsLast'
    BY <1>4, CountZero
       DEF RlLoadCount, ActiveReaders, CountedWriters, IInv, FirstIsAlone, LastIsLast,
       CountsGuarded, LoadedCurrent
  <2>3. ResourceAccounted' /\ WriterAlone'
    BY <1>4, CountZero
       DEF RlLoadCount, IInv, FirstIsAlone, LastIsLast, CountsGuarded, LoadedCurrent,
       ResourceAccounted, WriterAlone, ResourceUsers, ActiveReaders
  <2>4. GateAccounted' /\ ReaderAloneInGate'
    BY <1>4, CountZero
       DEF RlLoadCount, IInv, FirstIsAlone, LastIsLast, CountsGuarded, LoadedCurrent,
       GateAccounted, ReaderAloneInGate, GateUsers, InGate, CountedWriters
  <2> QED
    BY <1>0, <2>1, <2>2, <2>3, <2>4 DEF IInv
<1>5. CASE RlStoreCount(t)
  <2>1. TypeOK' /\ CountsGuarded' /\ LoadedCurrent'
    BY <1>5, TasksAssumption, CountZero DEF RlStoreCount, IInv, CountsGuarded, LoadedCurrent
  <2>2. FirstIsAlone' /\ LastIsLast'
    BY <1>5, CountZero
       DEF RlStoreCount, ActiveReaders, CountedWriters, IInv, FirstIsAlone, LastIsLast,
       CountsGuarded, LoadedCurrent
  <2>3. ResourceAccounted' /\ WriterAlone'
    BY <1>5, CountZero
       DEF RlStoreCount, IInv, FirstIsAlone, LastIsLast, CountsGuarded, LoadedCurrent,
       ResourceAccounted, WriterAlone, ResourceUsers, ActiveReaders
  <2>4. GateAccounted' /\ ReaderAloneInGate'
    BY <1>5, CountZero
       DEF RlStoreCount, IInv, FirstIsAlone, LastIsLast, CountsGuarded, LoadedCurrent,
       GateAccounted, ReaderAloneInGate, GateUsers, InGate, CountedWriters
  <2> QED
    BY <1>0, <2>1, <2>2, <2>3, <2>4 DEF IInv
<1>6. CASE RlTakeResource(t)
  <2>1. TypeOK' /\ CountsGuarded' /\ LoadedCurrent'
    BY <1>6, TasksAssumption, CountZero DEF RlTakeResource, IInv, CountsGuarded, LoadedCurrent
  <2>2. FirstIsAlone' /\ LastIsLast'
    BY <1>6, CountZero
       DEF RlTakeResource, ActiveReaders, CountedWriters, IInv, FirstIsAlone, LastIsLast,
       CountsGuarded, LoadedCurrent
  <2>3. ResourceAccounted' /\ WriterAlone'
    BY <1>6, CountZero
       DEF RlTakeResource, IInv, FirstIsAlone, LastIsLast, CountsGuarded, LoadedCurrent,
       ResourceAccounted, WriterAlone, ResourceUsers, ActiveReaders
  <2>4. GateAccounted' /\ ReaderAloneInGate'
    BY <1>6, CountZero
       DEF RlTakeResource, IInv, FirstIsAlone, LastIsLast, CountsGuarded, LoadedCurrent,
       GateAccounted, ReaderAloneInGate, GateUsers, InGate, CountedWriters
  <2> QED
    BY <1>0, <2>1, <2>2, <2>3, <2>4 DEF IInv
<1>7. CASE RlGiveReadLock(t)
  <2>1. TypeOK' /\ CountsGuarded' /\ LoadedCurrent'
    BY <1>7, TasksAssumption, CountZero DEF RlGiveReadLock, IInv, CountsGuarded, LoadedCurrent
  <2>2. FirstIsAlone' /\ LastIsLast'
    BY <1>7, CountZero
       DEF RlGiveReadLock, ActiveReaders, CountedWriters, IInv, FirstIsAlone, LastIsLast,
       CountsGuarded, LoadedCurrent
  <2>3. ResourceAccounted' /\ WriterAlone'
    BY <1>7, CountZero
       DEF RlGiveReadLock, IInv, FirstIsAlone, LastIsLast, CountsGuarded, LoadedCurrent,
       ResourceAccounted, WriterAlone, ResourceUsers, ActiveReaders
  <2>4. GateAccounted' /\ ReaderAloneInGate'
    BY <1>7, CountZero
       DEF RlGiveReadLock, IInv, FirstIsAlone, LastIsLast, CountsGuarded, LoadedCurrent,
       GateAccounted, ReaderAloneInGate, GateUsers, InGate, CountedWriters
  <2> QED
    BY <1>0, <2>1, <2>2, <2>3, <2>4 DEF IInv
<1>8. CASE RlGiveBlockReaders(t)
  <2>1. TypeOK' /\ CountsGuarded' /\ LoadedCurrent'
    BY <1>8, TasksAssumption, CountZero
       DEF RlGiveBlockReaders, IInv, CountsGuarded, LoadedCurrent
  <2>2. FirstIsAlone' /\ LastIsLast'
    BY <1>8, CountZero
       DEF RlGiveBlockReaders, ActiveReaders, CountedWriters, IInv, FirstIsAlone,
         LastIsLast,
       CountsGuarded, LoadedCurrent
  <2>3. ResourceAccounted' /\ WriterAlone'
    BY <1>8, CountZero
       DEF RlGiveBlockReaders, IInv, FirstIsAlone, LastIsLast, CountsGuarded, LoadedCurrent,
       ResourceAccounted, WriterAlone, ResourceUsers, ActiveReaders
  <2>4. GateAccounted' /\ ReaderAloneInGate'
    BY <1>8, CountZero
       DEF RlGiveBlockReaders, IInv, FirstIsAlone, LastIsLast, CountsGuarded, LoadedCurrent,
       GateAccounted, ReaderAloneInGate, GateUsers, InGate, CountedWriters
  <2> QED
    BY <1>0, <2>1, <2>2, <2>3, <2>4 DEF IInv
<1>9. CASE CallReaderUnlock(t)
  <2>1. TypeOK' /\ CountsGuarded' /\ LoadedCurrent'
    BY <1>9, TasksAssumption, CountZero DEF CallReaderUnlock, IInv, CountsGuarded, LoadedCurrent
  <2>2. FirstIsAlone' /\ LastIsLast'
    BY <1>9, CountZero
       DEF CallReaderUnlock, ActiveReaders, CountedWriters, IInv, FirstIsAlone, LastIsLast,
       CountsGuarded, LoadedCurrent
  <2>3. ResourceAccounted' /\ WriterAlone'
    BY <1>9, CountZero
       DEF CallReaderUnlock, IInv, FirstIsAlone, LastIsLast, CountsGuarded, LoadedCurrent,
       ResourceAccounted, WriterAlone, ResourceUsers, ActiveReaders
  <2>4. GateAccounted' /\ ReaderAloneInGate'
    BY <1>9, CountZero
       DEF CallReaderUnlock, IInv, FirstIsAlone, LastIsLast, CountsGuarded, LoadedCurrent,
       GateAccounted, ReaderAloneInGate, GateUsers, InGate, CountedWriters
  <2> QED
    BY <1>0, <2>1, <2>2, <2>3, <2>4 DEF IInv
<1>10. CASE RuTakeReadLock(t)
  <2>1. TypeOK' /\ CountsGuarded' /\ LoadedCurrent'
    BY <1>10, TasksAssumption, CountZero DEF RuTakeReadLock, IInv, CountsGuarded, LoadedCurrent
  <2>2. FirstIsAlone' /\ LastIsLast'
    BY <1>10, CountZero
       DEF RuTakeReadLock, ActiveReaders, CountedWriters, IInv, FirstIsAlone, LastIsLast,
       CountsGuarded, LoadedCurrent
  <2>3. ResourceAccounted' /\ WriterAlone'
    BY <1>10, CountZero
       DEF RuTakeReadLock, IInv, FirstIsAlone, LastIsLast, CountsGuarded, LoadedCurrent,
       ResourceAccounted, WriterAlone, ResourceUsers, ActiveReaders
  <2>4. GateAccounted' /\ ReaderAloneInGate'
    BY <1>10, CountZero
       DEF RuTakeReadLock, IInv, FirstIsAlone, LastIsLast, CountsGuarded, LoadedCurrent,
       GateAccounted, ReaderAloneInGate, GateUsers, InGate, CountedWriters
  <2> QED
    BY <1>0, <2>1, <2>2, <2>3, <2>4 DEF IInv
<1>11. CASE RuLoadCount(t)
  <2>1. TypeOK' /\ CountsGuarded' /\ LoadedCurrent'
    BY <1>11, TasksAssumption, CountZero DEF RuLoadCount, IInv, CountsGuarded, LoadedCurrent
  <2>2. FirstIsAlone' /\ LastIsLast'
    BY <1>11, CountZero
       DEF RuLoadCount, ActiveReaders, CountedWriters, IInv, FirstIsAlone, LastIsLast,
       CountsGuarded, LoadedCurrent
  <2>3. ResourceAccounted' /\ WriterAlone'
    BY <1>11, CountZero
       DEF RuLoadCount, IInv, FirstIsAlone, LastIsLast, CountsGuarded, LoadedCurrent,
       ResourceAccounted, WriterAlone, ResourceUsers, ActiveReaders
  <2>4. GateAccounted' /\ ReaderAloneInGate'
    BY <1>11, CountZero
       DEF RuLoadCount, IInv, FirstIsAlone, LastIsLast, CountsGuarded, LoadedCurrent,
       GateAccounted, ReaderAloneInGate, GateUsers, InGate, CountedWriters
  <2> QED
    BY <1>0, <2>1, <2>2, <2>3, <2>4 DEF IInv
<1>12. CASE RuStoreCount(t)
  <2>0. t \in ActiveReaders /\ ActiveReaders' = ActiveReaders \ {t} /\ UNCHANGED <<CountedWriters, WriteCount>>
    BY <1>12, CountedChange DEF IInv
  <2>1. /\ pc[t] = "ru_store" /\ ReadLock = t
        /\ loaded[t] = ReadCount /\ ReadCount >= 1 /\ ReadCount' = ReadCount - 1
    BY <1>12, <2>0, CountZero DEF RuStoreCount, IInv, CountsGuarded, LoadedCurrent
  <2>2. ReadCount' = 0 <=> ActiveReaders' = {}
    BY <1>0, <2>0, SubsetsFinite, CountedAreTasks DEF CountsExact
  <2>3. /\ pc' = [pc EXCEPT ![t] = IF ReadCount' = 0 THEN "ru_resource" ELSE "ru_give"]
        /\ loaded' = [loaded EXCEPT ![t] = 0]
        /\ UNCHANGED locks
    BY <1>12, <2>1 DEF RuStoreCount
  <2>4. TypeOK' /\ CountsGuarded' /\ LoadedCurrent'
    BY <2>0, <2>1, <2>3, TasksAssumption DEF IInv, CountsGuarded, LoadedCurrent
  <2>5. FirstIsAlone' /\ LastIsLast'
    BY <2>0, <2>1, <2>2, <2>3 DEF IInv, CountsGuarded, FirstIsAlone, LastIsLast
  <2>6. ResourceUsers # {} /\ ResourceUsers' # {}
    <3>1. CASE ReadCount' = 0
      BY <2>1, <2>3, <3>1 DEF IInv, ResourceUsers
    <3>2. CASE ReadCount' # 0
      <4>1. PICK u \in Tasks : u # t /\ u \in ActiveReaders
        BY <2>0, <2>2, <3>2, CountedAreTasks
      <4> QED
        BY <2>1, <2>3, <4>1 DEF IInv, CountsGuarded, ActiveReaders, ResourceUsers
    <3> QED
      BY <3>1, <3>2
  <2>7. ResourceAccounted' /\ WriterAlone'
    BY <2>1, <2>3, <2>6 DEF IInv, ResourceAccounted, WriterAlone, ResourceUsers
  <2>8. GateAccounted' /\ ReaderAloneInGate'
    BY <2>1, <2>3, <2>6 DEF IInv, GateAccounted, ReaderAloneInGate, GateUsers, InGate
  <2> QED
    BY <1>0, <2>4, <2>5, <2>7, <2>8 DEF IInv
<1>13. CASE RuGiveResource(t)
  <2>1. TypeOK' /\ CountsGuarded' /\ LoadedCurrent'
    BY <1>13, TasksAssumption, CountZero DEF RuGiveResource, IInv, CountsGuarded, LoadedCurrent
  <2>2. FirstIsAlone' /\ LastIsLast'
    BY <1>13, CountZero
       DEF RuGiveResource, ActiveReaders, CountedWriters, IInv, FirstIsAlone, LastIsLast,
       CountsGuarded, LoadedCurrent
  <2>3. ResourceAccounted' /\ WriterAlone'
    BY <1>13, CountZero
       DEF RuGiveResource, IInv, FirstIsAlone, LastIsLast, CountsGuarded, LoadedCurrent,
       ResourceAccounted, WriterAlone, ResourceUsers, ActiveReaders
  <2>4. GateAccounted' /\ ReaderAloneInGate'
    BY <1>13, CountZero
       DEF RuGiveResource, IInv, FirstIsAlone, LastIsLast, CountsGuarded, LoadedCurrent,
       GateAccounted, ReaderAloneInGate, GateUsers, InGate, CountedWriters
  <2> QED
    BY <1>0, <2>1, <2>2, <2>3, <2>4 DEF IInv
<1>14. CASE RuGiveReadLock(t)
  <2>1. TypeOK' /\ CountsGuarded' /\ LoadedCurrent'
    BY <1>14, TasksAssumption, CountZero DEF RuGiveReadLock, IInv, CountsGuarded, LoadedCurrent
  <2>2. FirstIsAlone' /\ LastIsLast'
    BY <1>14, CountZero
       DEF RuGiveReadLock, ActiveReaders, CountedWriters, IInv, FirstIsAlone, LastIsLast,
       CountsGuarded, LoadedCurrent
  <2>3. ResourceAccounted' /\ WriterAlone'
    BY <1>14, CountZero
       DEF RuGiveReadLock, IInv, FirstIsAlone, LastIsLast, CountsGuarded, LoadedCurrent,
       ResourceAccounted, WriterAlone, ResourceUsers, ActiveReaders
  <2>4. GateAccounted' /\ ReaderAloneInGate'
    BY <1>14, CountZero
       DEF RuGiveReadLock, IInv, FirstIsAlone, LastIsLast, CountsGuarded, LoadedCurrent,
       GateAccounted, ReaderAloneInGate, GateUsers, InGate, CountedWriters
  <2> QED
    BY <1>0, <2>1, <2>2, <2>3, <2>4 DEF IInv
<1>15. CASE CallWriterLock(t)
  <2>1. TypeOK' /\ CountsGuarded' /\ LoadedCurrent'
    BY <1>15, TasksAssumption, CountZero DEF CallWriterLock, IInv, CountsGuarded, LoadedCurrent
  <2>2. FirstIsAlone' /\ LastIsLast'
    BY <1>15, CountZero
       DEF CallWriterLock, ActiveReaders, CountedWriters, IInv, FirstIsAlone, LastIsLast,
       CountsGuarded, LoadedCurrent
  <2>3. ResourceAccounted' /\ WriterAlone'
    BY <1>15, CountZero
       DEF CallWriterLock, IInv, FirstIsAlone, LastIsLast, CountsGuarded, LoadedCurrent,
       ResourceAccounted, WriterAlone, ResourceUsers, ActiveReaders
  <2>4. GateAccounted' /\ ReaderAloneInGate'
    BY <1>15, CountZero
       DEF CallWriterLock, IInv, FirstIsAlone, LastIsLast, CountsGuarded, LoadedCurrent,
       GateAccounted, ReaderAloneInGate, GateUsers, InGate, CountedWriters
  <2> QED
    BY <1>0, <2>1, <2>2, <2>3, <2>4 DEF IInv
<1>16. CASE WlTakeWriteLock(t)
  <2>1. TypeOK' /\ CountsGuarded' /\ LoadedCurrent'
    BY <1>16, TasksAssumption, CountZero DEF WlTakeWriteLock, IInv, CountsGuarded, LoadedCurrent
  <2>2. FirstIsAlone' /\ LastIsLast'
    BY <1>16, CountZero
       DEF WlTakeWriteLock, ActiveReaders, CountedWriters, IInv, FirstIsAlone, LastIsLast,
       CountsGuarded, LoadedCurrent
  <2>3. ResourceAccounted' /\ WriterAlone'
    BY <1>16, CountZero
       DEF WlTakeWriteLock, IInv, FirstIsAlone, LastIsLast, CountsGuarded, LoadedCurrent,
       ResourceAccounted, WriterAlone, ResourceUsers, ActiveReaders
  <2>4. GateAccounted' /\ ReaderAloneInGate'
    BY <1>16, CountZero
       DEF WlTakeWriteLock, IInv, FirstIsAlone, LastIsLast, CountsGuarded, LoadedCurrent,
       GateAccounted, ReaderAloneInGate, GateUsers, InGate, CountedWriters
  <2> QED
    BY <1>0, <2>1, <2>2, <2>3, <2>4 DEF IInv
<1>17. CASE WlLoadCount(t)
  <2>1. TypeOK' /\ CountsGuarded' /\ LoadedCurrent'
    BY <1>17, TasksAssumption, CountZero DEF WlLoadCount, IInv, CountsGuarded, LoadedCurrent
  <2>2. FirstIsAlone' /\ LastIsLast'
    BY <1>17, CountZero
       DEF WlLoadCount, ActiveReaders, CountedWriters, IInv, FirstIsAlone, LastIsLast,
       CountsGuarded, LoadedCurrent
  <2>3. ResourceAccounted' /\ WriterAlone'
    BY <1>17, CountZero
       DEF WlLoadCount, IInv, FirstIsAlone, LastIsLast, CountsGuarded, LoadedCurrent,
       ResourceAccounted, WriterAlone, ResourceUsers, ActiveReaders
  <2>4. GateAccounted' /\ ReaderAloneInGate'
    BY <1>17, CountZero
       DEF WlLoadCount, IInv, FirstIsAlone, LastIsLast, CountsGuarded, LoadedCurrent,
       GateAccounted, ReaderAloneInGate, GateUsers, InGate, CountedWriters
  <2> QED
    BY <1>0, <2>1, <2>2, <2>3, <2>4 DEF IInv
<1>18. CASE WlStoreCount(t)
  <2>1. TypeOK' /\ CountsGuarded' /\ LoadedCurrent'
    BY <1>18, TasksAssumption, CountZero DEF WlStoreCount, IInv, CountsGuarded, LoadedCurrent
  <2>2. FirstIsAlone' /\ LastIsLast'
    BY <1>18, CountZero
       DEF WlStoreCount, ActiveReaders, CountedWriters, IInv, FirstIsAlone, LastIsLast,
       CountsGuarded, LoadedCurrent
  <2>3. ResourceAccounted' /\ WriterAlone'
    BY <1>18, CountZero
       DEF WlStoreCount, IInv, FirstIsAlone, LastIsLast, CountsGuarded, LoadedCurrent,
       ResourceAccounted, WriterAlone, ResourceUsers, ActiveReaders
  <2>4. GateAccounted' /\ ReaderAloneInGate'
    BY <1>18, CountZero
       DEF WlStoreCount, IInv, FirstIsAlone, LastIsLast, CountsGuarded, LoadedCurrent,
       GateAccounted, ReaderAloneInGate, GateUsers, InGate, CountedWriters
  <2> QED
    BY <1>0, <2>1, <2>2, <2>3, <2>4 DEF IInv
<1>19. CASE WlTakeBlockReaders(t)
  <2>1. TypeOK' /\ CountsGuarded' /\ LoadedCurrent'
    BY <1>19, TasksAssumption, CountZero
       DEF WlTakeBlockReaders, IInv, CountsGuarded, LoadedCurrent
  <2>2. FirstIsAlone' /\ LastIsLast'
    BY <1>19, CountZero
       DEF WlTakeBlockReaders, ActiveReaders, CountedWriters, IInv, FirstIsAlone,
         LastIsLast,
       CountsGuarded, LoadedCurrent
  <2>3. ResourceAccounted' /\ WriterAlone'
    BY <1>19, CountZero
       DEF WlTakeBlockReaders, IInv, FirstIsAlone, LastIsLast, CountsGuarded, LoadedCurrent,
       ResourceAccounted, WriterAlone, ResourceUsers, ActiveReaders
  <2>4. GateAccounted' /\ ReaderAloneInGate'
    BY <1>19, CountZero
       DEF WlTakeBlockReaders, IInv, FirstIsAlone, LastIsLast, CountsGuarded, LoadedCurrent,
       GateAccounted, ReaderAloneInGate, GateUsers, InGate, CountedWriters
  <2> QED
    BY <1>0, <2>1, <2>2, <2>3, <2>4 DEF IInv
<1>20. CASE WlGiveWriteLock(t)
  <2>1. TypeOK' /\ CountsGuarded' /\ LoadedCurrent'
    BY <1>20, TasksAssumption, CountZero DEF WlGiveWriteLock, IInv, CountsGuarded, LoadedCurrent
  <2>2. FirstIsAlone' /\ LastIsLast'
    BY <1>20, CountZero
       DEF WlGiveWriteLock, ActiveReaders, CountedWriters, IInv, FirstIsAlone, LastIsLast,
       CountsGuarded, LoadedCurrent
  <2>3. ResourceAccounted' /\ WriterAlone'
    BY <1>20, CountZero
       DEF WlGiveWriteLock, IInv, FirstIsAlone, LastIsLast, CountsGuarded, LoadedCurrent,
       ResourceAccounted, WriterAlone, ResourceUsers, ActiveReaders
  <2>4. GateAccounted' /\ ReaderAloneInGate'
    BY <1>20, CountZero
       DEF WlGiveWriteLock, IInv, FirstIsAlone, LastIsLast, CountsGuarded, LoadedCurrent,
       GateAccounted, ReaderAloneInGate, GateUsers, InGate, CountedWriters
  <2> QED
    BY <1>0, <2>1, <2>2, <2>3, <2>4 DEF IInv
<1>21. CASE WlTakeResource(t)
  <2>1. TypeOK' /\ CountsGuarded' /\ LoadedCurrent'
    BY <1>21, TasksAssumption, CountZero DEF WlTakeResource, IInv, CountsGuarded, LoadedCurrent
  <2>2. FirstIsAlone' /\ LastIsLast'
    BY <1>21, CountZero
       DEF WlTakeResource, ActiveReaders, CountedWriters, IInv, FirstIsAlone, LastIsLast,
       CountsGuarded, LoadedCurrent
  <2>3. ResourceAccounted' /\ WriterAlone'
    BY <1>21, CountZero
       DEF WlTakeResource, IInv, FirstIsAlone, LastIsLast, CountsGuarded, LoadedCurrent,
       ResourceAccounted, WriterAlone, ResourceUsers, ActiveReaders
  <2>4. GateAccounted' /\ ReaderAloneInGate'
    BY <1>21, CountZero
       DEF WlTakeResource, IInv, FirstIsAlone, LastIsLast, CountsGuarded, LoadedCurrent,
       GateAccounted, ReaderAloneInGate, GateUsers, InGate, CountedWriters
  <2> QED
    BY <1>0, <2>1, <2>2, <2>3, <2>4 DEF IInv
<1>22. CASE WuGiveResource(t)
  <2>1. TypeOK' /\ CountsGuarded' /\ LoadedCurrent'
    BY <1>22, TasksAssumption, CountZero DEF WuGiveResource, IInv, CountsGuarded, LoadedCurrent
  <2>2. FirstIsAlone' /\ LastIsLast'
    BY <1>22, CountZero
       DEF WuGiveResource, ActiveReaders, CountedWriters, IInv, FirstIsAlone, LastIsLast,
       CountsGuarded, LoadedCurrent
  <2>3. ResourceAccounted' /\ WriterAlone'
    BY <1>22, CountZero
       DEF WuGiveResource, IInv, FirstIsAlone, LastIsLast, CountsGuarded, LoadedCurrent,
       ResourceAccounted, WriterAlone, ResourceUsers, ActiveReaders
  <2>4. GateAccounted' /\ ReaderAloneInGate'
    BY <1>22, CountZero
       DEF WuGiveResource, IInv, FirstIsAlone, LastIsLast, CountsGuarded, LoadedCurrent,
       GateAccounted, ReaderAloneInGate, GateUsers, InGate, CountedWriters
  <2> QED
    BY <1>0, <2>1, <2>2, <2>3, <2>4 DEF IInv
<1>23. CASE WuTakeWriteLock(t)
  <2>1. TypeOK' /\ CountsGuarded' /\ LoadedCurrent'
    BY <1>23, TasksAssumption, CountZero DEF WuTakeWriteLock, IInv, CountsGuarded, LoadedCurrent
  <2>2. FirstIsAlone' /\ LastIsLast'
    BY <1>23, CountZero
       DEF WuTakeWriteLock, ActiveReaders, CountedWriters, IInv, FirstIsAlone, LastIsLast,
       CountsGuarded, LoadedCurrent
  <2>3. ResourceAccounted' /\ WriterAlone'
    BY <1>23, CountZero
       DEF WuTakeWriteLock, IInv, FirstIsAlone, LastIsLast, CountsGuarded, LoadedCurrent,
       ResourceAccounted, WriterAlone, ResourceUsers, ActiveReaders
  <2>4. GateAccounted' /\ ReaderAloneInGate'
    BY <1>23, CountZero
       DEF WuTakeWriteLock, IInv, FirstIsAlone, LastIsLast, CountsGuarded, LoadedCurrent,
       GateAccounted, ReaderAloneInGate, GateUsers, InGate, CountedWriters
  <2> QED
    BY <1>0, <2>1, <2>2, <2>3, <2>4 DEF IInv
<1>24. CASE WuLoadCount(t)
  <2>1. TypeOK' /\ CountsGuarded' /\ LoadedCurrent'
    BY <1>24, TasksAssumption, CountZero DEF WuLoadCount, IInv, CountsGuarded, LoadedCurrent
  <2>2. FirstIsAlone' /\ LastIsLast'
    BY <1>24, CountZero
       DEF WuLoadCount, ActiveReaders, CountedWriters, IInv, FirstIsAlone, LastIsLast,
       CountsGuarded, LoadedCurrent
  <2>3. ResourceAccounted' /\ WriterAlone'
    BY <1>24, CountZero
       DEF WuLoadCount, IInv, FirstIsAlone, LastIsLast, CountsGuarded, LoadedCurrent,
       ResourceAccounted, WriterAlone, ResourceUsers, ActiveReaders
  <2>4. GateAccounted' /\ ReaderAloneInGate'
    BY <1>24, CountZero
       DEF WuLoadCount, IInv, FirstIsAlone, LastIsLast, CountsGuarded, LoadedCurrent,
       GateAccounted, ReaderAloneInGate, GateUsers, InGate, CountedWriters
  <2> QED
    BY <1>0, <2>1, <2>2, <2>3, <2>4 DEF IInv
<1>25. CASE WuStoreCount(t)
  <2>0. t \in CountedWriters /\ CountedWriters' = CountedWriters \ {t} /\ UNCHANGED <<ActiveReaders, ReadCount>>
    BY <1>25, CountedChange DEF IInv
  <2>1. /\ pc[t] = "wu_store" /\ WriteLock = t
        /\ loaded[t] = WriteCount /\ WriteCount >= 1 /\ WriteCount' = WriteCount - 1
    BY <1>25, <2>0, CountZero DEF WuStoreCount, IInv, CountsGuarded, LoadedCurrent
  <2>2. WriteCount' = 0 <=> CountedWriters' = {}
    BY <1>0, <2>0, SubsetsFinite, CountedAreTasks DEF CountsExact
  <2>3. /\ pc' = [pc EXCEPT ![t] = IF WriteCount' = 0 THEN "wu_unblock" ELSE "wu_give"]
        /\ loaded' = [loaded EXCEPT ![t] = 0]
        /\ UNCHANGED locks
    BY <1>25, <2>1 DEF WuStoreCount
  <2>4. TypeOK' /\ CountsGuarded' /\ LoadedCurrent'
    BY <2>0, <2>1, <2>3, TasksAssumption DEF IInv, CountsGuarded, LoadedCurrent
  <2>5. FirstIsAlone' /\ LastIsLast'
    BY <2>0, <2>1, <2>2, <2>3 DEF IInv, CountsGuarded, FirstIsAlone, LastIsLast
  <2>6. GateUsers # {} /\ GateUsers' # {}
    <3>1. CASE WriteCount' = 0
      BY <2>1, <2>3, <3>1 DEF IInv, GateUsers
    <3>2. CASE WriteCount' # 0
      <4>1. PICK u \in Tasks : u # t /\ u \in CountedWriters
        BY <2>0, <2>2, <3>2, CountedAreTasks
      <4> QED
        BY <2>1, <2>3, <4>1 DEF IInv, CountsGuarded, CountedWriters, GateUsers
    <3> QED
      BY <3>1, <3>2
  <2>7. ResourceAccounted' /\ WriterAlone'
    BY <2>1, <2>3, <2>6 DEF IInv, ResourceAccounted, WriterAlone, ResourceUsers
  <2>8. GateAccounted' /\ ReaderAloneInGate'
    BY <2>1, <2>3, <2>6 DEF IInv, GateAccounted, ReaderAloneInGate, GateUsers, InGate
  <2> QED
    BY <1>0, <2>4, <2>5, <2>7, <2>8 DEF IInv
<1>26. CASE WuGiveBlockReaders(t)
  <2>1. TypeOK' /\ CountsGuarded' /\ LoadedCurrent'
    BY <1>26, TasksAssumption, CountZero
       DEF WuGiveBlockReaders, IInv, CountsGuarded, LoadedCurrent
  <2>2. FirstIsAlone' /\ LastIsLast'
    BY <1>26, CountZero
       DEF WuGiveBlockReaders, ActiveReaders, CountedWriters, IInv, FirstIsAlone,
         LastIsLast,
       CountsGuarded, LoadedCurrent
  <2>3. ResourceAccounted' /\ WriterAlone'
    BY <1>26, CountZero
       DEF WuGiveBlockReaders, IInv, FirstIsAlone, LastIsLast, CountsGuarded, LoadedCurrent,
       ResourceAccounted, WriterAlone, ResourceUsers, ActiveReaders
  <2>4. GateAccounted' /\ ReaderAloneInGate'
    BY <1>26, CountZero
       DEF WuGiveBlockReaders, IInv, FirstIsAlone, LastIsLast, CountsGuarded, LoadedCurrent,
       GateAccounted, ReaderAloneInGate, GateUsers, InGate, CountedWriters
  <2> QED
    BY <1>0, <2>1, <2>2, <2>3, <2>4 DEF IInv
<1>27. CASE WuGiveWriteLock(t)
  <2>1. TypeOK' /\ CountsGuarded' /\ LoadedCurrent'
    BY <1>27, TasksAssumption, CountZero DEF WuGiveWriteLock, IInv, CountsGuarded, LoadedCurrent
  <2>2. FirstIsAlone' /\ LastIsLast'
    BY <1>27, CountZero
       DEF WuGiveWriteLock, ActiveReaders, CountedWriters, IInv, FirstIsAlone, LastIsLast,
       CountsGuarded, LoadedCurrent
  <2>3. ResourceAccounted' /\ WriterAlone'
    BY <1>27, CountZero
       DEF WuGiveWriteLock, IInv, FirstIsAlone, LastIsLast, CountsGuarded, LoadedCurrent,
       ResourceAccounted, WriterAlone, ResourceUsers, ActiveReaders
  <2>4. GateAccounted' /\ ReaderAloneInGate'
    BY <1>27, CountZero
       DEF WuGiveWriteLock, IInv, FirstIsAlone, LastIsLast, CountsGuarded, LoadedCurrent,
       GateAccounted, ReaderAloneInGate, GateUsers, InGate, CountedWriters
  <2> QED
    BY <1>0, <2>1, <2>2, <2>3, <2>4 DEF IInv
<1> QED
  BY <1>1, <1>2, <1>3, <1>4, <1>5, <1>6, <1>7, <1>8, <1>9, <1>10, <1>11, <1>12, <1>13, <1>14,
     <1>15, <1>16, <1>17, <1>18, <1>19, <1>20, <1>21, <1>22, <1>23, <1>24, <1>25, <1>26, <1>27
  DEF Call, Step, ReaderStep, WriterStep

-----------------------------------------------------------------------------
(* The theorems *)

(* The invariant holds in every reachable state.                           *)
THEOREM Invariance == Spec => []IInv
<1>1. IInv /\ [Next]_vars => IInv'
  <2> SUFFICES ASSUME IInv, [Next]_vars PROVE IInv'
    OBVIOUS
  <2>1. CASE Next
    BY <2>1, StepPreserves DEF Next
  <2>2. CASE UNCHANGED vars
    BY <2>2 DEF vars, IInv, TypeOK, CountsGuarded, LoadedCurrent, CountsExact, FirstIsAlone,
                LastIsLast, ResourceAccounted, WriterAlone, GateAccounted, ReaderAloneInGate,
                ActiveReaders, CountedWriters, ResourceUsers, GateUsers, InGate
  <2> QED
    BY <2>1, <2>2
<1> QED
  BY <1>1, Initially, PTL DEF Spec

(* The variables have their types, no counter ever falls below zero.       *)
THEOREM TypeCorrect == Spec => []TypeOK
BY Invariance, PTL DEF IInv

(* A writer is alone, whatever the number of tasks.                        *)
THEOREM Exclusion == Spec => []WriterAlone
BY Invariance, PTL DEF IInv

(* The mutexes protect the counts, and no update of a count is lost.       *)
THEOREM ExactCounts == Spec => [](CountsGuarded /\ CountsExact)
BY Invariance, PTL DEF IInv

(* Neither binary semaphore is given twice or lost.                        *)
THEOREM SemaphoreAccounting == Spec => []SemaphoresAccounted
BY Invariance, PTL DEF IInv, SemaphoresAccounted

(* No reader gets in while a writer that passed the gate waits or writes.  *)
THEOREM Preference == Spec => NoReaderOvertakes
<1>1. ASSUME IInv, [Next]_vars
      PROVE  [WritersThroughGate => Cardinality(ActiveReaders') <= Cardinality(ActiveReaders)]_vars
  <2>1. CASE UNCHANGED vars
    BY <2>1
  <2>2. ASSUME NEW t \in Tasks, Call(t) \/ Step(t), WritersThroughGate
        PROVE  Cardinality(ActiveReaders') <= Cardinality(ActiveReaders)
    <3>1. ~RlStoreCount(t)
      <4>1. PICK u \in Tasks : pc[u] \in {"wl_give", "wl_resource", "writing", "wu_take"}
        BY <2>2 DEF WritersThroughGate
      <4> QED
        BY <1>1, <4>1
           DEF RlStoreCount, IInv, ReaderAloneInGate, InGate, GateUsers, ReaderLockPCs
    <3>2. ActiveReaders' = ActiveReaders \/ (t \in ActiveReaders /\ ActiveReaders' = ActiveReaders \ {t})
      BY <1>1, <2>2, <3>1, CountedChange DEF IInv, Counted
    <3>3. /\ Cardinality(ActiveReaders) \in Nat
          /\ t \in ActiveReaders => Cardinality(ActiveReaders \ {t}) = Cardinality(ActiveReaders) - 1
      BY SubsetsFinite, OneLess, CountedAreTasks
    <3>4. CASE ActiveReaders' = ActiveReaders
      <4>1. Cardinality(ActiveReaders') = Cardinality(ActiveReaders)
        BY <3>4
      <4> QED
        BY <3>3, <4>1
    <3>5. CASE t \in ActiveReaders /\ ActiveReaders' = ActiveReaders \ {t}
      <4>1. Cardinality(ActiveReaders') = Cardinality(ActiveReaders \ {t})
        BY <3>5
      <4> QED
        BY <3>3, <3>5, <4>1
    <3> QED
      BY <3>2, <3>4, <3>5
  <2> QED
    BY <1>1, <2>1, <2>2 DEF Next
<1> QED
  BY <1>1, Invariance, PTL DEF Spec, NoReaderOvertakes

(* The code implements the abstract lock: every step is one of its steps   *)
(* or leaves what the tasks hold as it is.                                 *)
THEOREM Refinement == Spec => ImplementsReadWriteLock
<1>1. Init => RW!Init
  BY DEF Init, RW!Init, Holds
<1>2. ASSUME IInv, [Next]_vars PROVE [RW!Next]_Holds
  <2>1. CASE UNCHANGED vars
    BY <2>1 DEF vars, Holds
  <2>2. ASSUME NEW t \in Tasks, Call(t) \/ Step(t) PROVE [RW!Next]_Holds
    <3> USE DEF IInv, TypeOK, Holds
    <3>1. CASE RlGiveBlockReaders(t)
      <4>1. Holds' = [Holds EXCEPT ![t] = "read"] /\ Holds[t] = "nothing"
        BY <1>2, <3>1 DEF RlGiveBlockReaders
      <4>2. RW!Holders("write") = {}
        BY <1>2, <3>1 DEF RlGiveBlockReaders, RW!Holders, WriterAlone, ResourceUsers
      <4> QED
        BY <4>1, <4>2 DEF RW!Next, RW!AcquireRead
    <3>2. CASE WlTakeResource(t)
      <4>1. Holds' = [Holds EXCEPT ![t] = "write"] /\ Holds[t] = "nothing"
        BY <1>2, <3>2 DEF WlTakeResource
      <4>2. RW!Holders("write") = {} /\ RW!Holders("read") = {}
        BY <1>2, <3>2 DEF WlTakeResource, RW!Holders, ResourceAccounted, ResourceUsers
      <4> QED
        BY <4>1, <4>2 DEF RW!Next, RW!AcquireWrite
    <3>3. CASE CallReaderUnlock(t) \/ WuGiveResource(t)
      <4>1. Holds' = [Holds EXCEPT ![t] = "nothing"] /\ Holds[t] # "nothing"
        BY <1>2, <3>3 DEF CallReaderUnlock, WuGiveResource
      <4> QED
        BY <4>1 DEF RW!Next, RW!Release
    <3>4. CASE /\ ~RlGiveBlockReaders(t) /\ ~WlTakeResource(t)
               /\ ~CallReaderUnlock(t) /\ ~WuGiveResource(t)
      <4>1. /\ pc[t] \notin {"reading", "writing"} /\ pc'[t] \notin {"reading", "writing"}
            /\ \A u \in Tasks \ {t} : pc'[u] = pc[u]
        BY <1>2, <2>2, <3>4
           DEF Call, Step, ReaderStep, WriterStep, CallReaderLock, RlTakeBlockReaders,
             RlTakeReadLock, RlLoadCount, RlStoreCount,
            RlTakeResource, RlGiveReadLock, RuTakeReadLock, RuLoadCount, RuStoreCount,
            RuGiveResource, RuGiveReadLock, CallWriterLock, WlTakeWriteLock, WlLoadCount,
            WlStoreCount, WlTakeBlockReaders, WlGiveWriteLock, WuTakeWriteLock,
            WuLoadCount, WuStoreCount, WuGiveBlockReaders, WuGiveWriteLock
      <4> QED
        BY <4>1
    <3> QED
      BY <2>2, <3>1, <3>2, <3>3, <3>4
  <2> QED
    BY <1>2, <2>1, <2>2 DEF Next
<1> QED
  BY <1>1, <1>2, Invariance, PTL DEF Spec, ImplementsReadWriteLock, RW!Spec

=============================================================================
