---------------------- MODULE RWLockPreferReader_proofs ----------------------
(***************************************************************************)
(* Proofs about RWLockPreferReader, for any finite sets of readers and     *)
(* writers: the lock's invariants, and that it implements ReadWriteLock.   *)
(***************************************************************************)
EXTENDS RWLockPreferReader, FiniteSetTheorems, TLAPS

-----------------------------------------------------------------------------
(* The inductive invariant.                                                *)

(* What a task loaded is still the count when the task stores: nobody else *)
(* can store in between.                                                   *)
LoadedCurrent ==
    \A t \in Tasks : pc[t] \in {"rl_store", "ru_store"} => loaded[t] = ReadCount

(* The reader that takes ResourceLock is the only one inside; the one that *)
(* gives it back was the last.                                             *)
FirstIsAlone ==
    \A t, u \in Tasks : pc[t] = "rl_resource" /\ u \in ActiveReaders => u = t
LastIsLast ==
    \A t \in Tasks : pc[t] = "ru_resource" => ActiveReaders = {}

IInv ==
    /\ TypeOK
    /\ CountGuarded
    /\ LoadedCurrent
    /\ ReadCountExact
    /\ FirstIsAlone
    /\ LastIsLast
    /\ ResourceAccounted
    /\ WriterAlone

(* The definitions a step is made of.                                      *)
USE DEF Go, Invoke, TakeReadLock, GiveReadLock, TakeResource, GiveResource,
        LoadCount, StoreCount, Take, Give, TakeMutex, GiveMutex, FirstReader, LastReader

-----------------------------------------------------------------------------
(* How the number of active readers changes.                               *)

(* The active readers are finitely many, so that counting them means       *)
(* something.                                                              *)
LEMMA ActiveReadersFinite ==
    /\ IsFiniteSet(ActiveReaders)
    /\ Cardinality(ActiveReaders) \in Nat
    /\ Cardinality(ActiveReaders) = 0 <=> ActiveReaders = {}
<1>1. ActiveReaders \subseteq Tasks
  BY DEF ActiveReaders
<1>2. IsFiniteSet(ActiveReaders)
  BY <1>1, TasksAssumption, FS_Subset
<1> QED
  BY <1>2, FS_CardinalityType, FS_EmptySet

(* A reader that enters adds one to the number of active readers.          *)
LEMMA ReaderEnters ==
    ASSUME NEW t \in Tasks, t \notin ActiveReaders, ActiveReaders' = ActiveReaders \cup {t}
    PROVE  Cardinality(ActiveReaders') = Cardinality(ActiveReaders) + 1
BY ActiveReadersFinite, FS_AddElement

(* A reader that leaves takes one away.                                    *)
LEMMA ReaderLeaves ==
    ASSUME NEW t \in Tasks, t \in ActiveReaders, ActiveReaders' = ActiveReaders \ {t}
    PROVE  Cardinality(ActiveReaders') = Cardinality(ActiveReaders) - 1
BY ActiveReadersFinite, FS_RemoveElement

-----------------------------------------------------------------------------

(* The invariant holds when CreateReadWriteLock has returned.              *)
THEOREM Initially == Init => IInv
<1> SUFFICES ASSUME Init PROVE IInv
  OBVIOUS
<1>1. TypeOK
  BY DEF Init, TypeOK, PCs
<1>2. ActiveReaders = {} /\ ResourceUsers = {}
  BY DEF Init, ActiveReaders, ResourceUsers
<1>3. ReadCountExact
  BY <1>2, FS_EmptySet DEF Init, ReadCountExact
<1>4. CountGuarded
  BY TasksAssumption DEF Init, CountGuarded, ReadLockPCs, ReaderLockPCs, ReaderUnlockPCs
<1> QED
  BY <1>1, <1>2, <1>3, <1>4
     DEF Init, IInv, LoadedCurrent, FirstIsAlone, LastIsLast, ResourceAccounted, WriterAlone

(* Every step but the two stores leaves the set of active readers alone,   *)
(* a store adds the task to it or removes it.                              *)
LEMMA ActiveReadersChange ==
    ASSUME TypeOK, NEW t \in Tasks
    PROVE  /\ RlStoreCount(t) => t \notin ActiveReaders /\ ActiveReaders' = ActiveReaders \cup {t}
           /\ RuStoreCount(t) => t \in ActiveReaders /\ ActiveReaders' = ActiveReaders \ {t}
           /\ (Call(t) \/ Step(t)) /\ ~RlStoreCount(t) /\ ~RuStoreCount(t)
                 => ActiveReaders' = ActiveReaders /\ ReadCount' = ReadCount
<1> USE DEF TypeOK, ActiveReaders
<1>1. CallReaderLock(t) => ActiveReaders' = ActiveReaders /\ ReadCount' = ReadCount
  BY DEF CallReaderLock
<1>2. CallWriterLock(t) => ActiveReaders' = ActiveReaders /\ ReadCount' = ReadCount
  BY DEF CallWriterLock
<1>3. RlTakeReadLock(t) => ActiveReaders' = ActiveReaders /\ ReadCount' = ReadCount
  BY DEF RlTakeReadLock
<1>4. RlLoadCount(t) => ActiveReaders' = ActiveReaders /\ ReadCount' = ReadCount
  BY DEF RlLoadCount
<1>5. RlStoreCount(t) => t \notin ActiveReaders /\ ActiveReaders' = ActiveReaders \cup {t}
  BY DEF RlStoreCount
<1>6. RlTakeResource(t) => ActiveReaders' = ActiveReaders /\ ReadCount' = ReadCount
  BY DEF RlTakeResource
<1>7. RlGiveReadLock(t) => ActiveReaders' = ActiveReaders /\ ReadCount' = ReadCount
  BY DEF RlGiveReadLock
<1>8. CallReaderUnlock(t) => ActiveReaders' = ActiveReaders /\ ReadCount' = ReadCount
  BY DEF CallReaderUnlock
<1>9. RuTakeReadLock(t) => ActiveReaders' = ActiveReaders /\ ReadCount' = ReadCount
  BY DEF RuTakeReadLock
<1>10. RuLoadCount(t) => ActiveReaders' = ActiveReaders /\ ReadCount' = ReadCount
  BY DEF RuLoadCount
<1>11. RuStoreCount(t) => t \in ActiveReaders /\ ActiveReaders' = ActiveReaders \ {t}
  BY DEF RuStoreCount
<1>12. RuGiveResource(t) => ActiveReaders' = ActiveReaders /\ ReadCount' = ReadCount
  BY DEF RuGiveResource
<1>13. RuGiveReadLock(t) => ActiveReaders' = ActiveReaders /\ ReadCount' = ReadCount
  BY DEF RuGiveReadLock
<1>14. WlTakeResource(t) => ActiveReaders' = ActiveReaders /\ ReadCount' = ReadCount
  BY DEF WlTakeResource
<1>15. WriterUnlock(t) => ActiveReaders' = ActiveReaders /\ ReadCount' = ReadCount
  BY DEF WriterUnlock
<1> QED
  BY <1>1, <1>2, <1>3, <1>4, <1>5, <1>6, <1>7, <1>8, <1>9, <1>10, <1>11, <1>12, <1>13,
       <1>14, <1>15
     DEF Call, Step

(* So ReadCount stays exact.                                               *)
LEMMA CountPreserved ==
    ASSUME IInv, NEW t \in Tasks, Call(t) \/ Step(t) PROVE ReadCountExact'
<1>1. TypeOK /\ ReadCount = Cardinality(ActiveReaders)
  BY DEF IInv, ReadCountExact
<1>2. CASE RlStoreCount(t)
  <2>1. ReadCount' = ReadCount + 1
    BY <1>2 DEF IInv, LoadedCurrent, RlStoreCount
  <2> QED
    BY <1>1, <1>2, <2>1, ActiveReadersChange, ReaderEnters DEF ReadCountExact
<1>3. CASE RuStoreCount(t)
  <2>1. ReadCount' = ReadCount - 1
    BY <1>3 DEF IInv, LoadedCurrent, RuStoreCount
  <2> QED
    BY <1>1, <1>3, <2>1, ActiveReadersChange, ReaderLeaves DEF ReadCountExact
<1>4. CASE ~RlStoreCount(t) /\ ~RuStoreCount(t)
  BY <1>1, <1>4, ActiveReadersChange DEF ReadCountExact
<1> QED
  BY <1>2, <1>3, <1>4

(* There are active readers exactly when ReadCount is not zero.            *)
LEMMA CountZero == IInv => (ReadCount = 0 <=> ActiveReaders = {})
BY ActiveReadersFinite DEF IInv, ReadCountExact

(* Every step of every call preserves the invariant.                       *)
LEMMA StepPreserves ==
    ASSUME IInv, NEW t \in Tasks, Call(t) \/ Step(t) PROVE IInv'
<1> USE DEF TypeOK, PCs, ReadLockPCs, ReaderLockPCs, ReaderUnlockPCs
<1>0. ReadCountExact'
  BY CountPreserved
<1>1. CASE CallReaderLock(t)
  <2>1. TypeOK' /\ CountGuarded' /\ LoadedCurrent'
    BY <1>1, TasksAssumption, CountZero, ActiveReadersChange
       DEF CallReaderLock, IInv, CountGuarded, LoadedCurrent
  <2>2. FirstIsAlone' /\ LastIsLast'
    BY <1>1, CountZero
       DEF CallReaderLock, ActiveReaders, IInv, FirstIsAlone, LastIsLast, CountGuarded,
            LoadedCurrent
  <2>3. ResourceAccounted' /\ WriterAlone'
    BY <1>1, CountZero
       DEF CallReaderLock, IInv, FirstIsAlone, LastIsLast, CountGuarded, LoadedCurrent,
            ResourceAccounted, WriterAlone, ResourceUsers, ActiveReaders
  <2> QED
    BY <1>0, <2>1, <2>2, <2>3 DEF IInv
<1>2. CASE CallWriterLock(t)
  <2>1. TypeOK' /\ CountGuarded' /\ LoadedCurrent'
    BY <1>2, TasksAssumption, CountZero, ActiveReadersChange
       DEF CallWriterLock, IInv, CountGuarded, LoadedCurrent
  <2>2. FirstIsAlone' /\ LastIsLast'
    BY <1>2, CountZero
       DEF CallWriterLock, ActiveReaders, IInv, FirstIsAlone, LastIsLast, CountGuarded,
            LoadedCurrent
  <2>3. ResourceAccounted' /\ WriterAlone'
    BY <1>2, CountZero
       DEF CallWriterLock, IInv, FirstIsAlone, LastIsLast, CountGuarded, LoadedCurrent,
            ResourceAccounted, WriterAlone, ResourceUsers, ActiveReaders
  <2> QED
    BY <1>0, <2>1, <2>2, <2>3 DEF IInv
<1>3. CASE RlTakeReadLock(t)
  <2>1. TypeOK' /\ CountGuarded' /\ LoadedCurrent'
    BY <1>3, TasksAssumption, CountZero, ActiveReadersChange
       DEF RlTakeReadLock, IInv, CountGuarded, LoadedCurrent
  <2>2. FirstIsAlone' /\ LastIsLast'
    BY <1>3, CountZero
       DEF RlTakeReadLock, ActiveReaders, IInv, FirstIsAlone, LastIsLast, CountGuarded,
            LoadedCurrent
  <2>3. ResourceAccounted' /\ WriterAlone'
    BY <1>3, CountZero
       DEF RlTakeReadLock, IInv, FirstIsAlone, LastIsLast, CountGuarded, LoadedCurrent,
            ResourceAccounted, WriterAlone, ResourceUsers, ActiveReaders
  <2> QED
    BY <1>0, <2>1, <2>2, <2>3 DEF IInv
<1>4. CASE RlLoadCount(t)
  <2>1. TypeOK' /\ CountGuarded' /\ LoadedCurrent'
    BY <1>4, TasksAssumption, CountZero, ActiveReadersChange
       DEF RlLoadCount, IInv, CountGuarded, LoadedCurrent
  <2>2. FirstIsAlone' /\ LastIsLast'
    BY <1>4, CountZero
       DEF RlLoadCount, ActiveReaders, IInv, FirstIsAlone, LastIsLast, CountGuarded,
            LoadedCurrent
  <2>3. ResourceAccounted' /\ WriterAlone'
    BY <1>4, CountZero
       DEF RlLoadCount, IInv, FirstIsAlone, LastIsLast, CountGuarded, LoadedCurrent,
            ResourceAccounted, WriterAlone, ResourceUsers, ActiveReaders
  <2> QED
    BY <1>0, <2>1, <2>2, <2>3 DEF IInv
<1>5. CASE RlStoreCount(t)
  <2>1. TypeOK' /\ CountGuarded' /\ LoadedCurrent'
    BY <1>5, TasksAssumption, CountZero, ActiveReadersChange
       DEF RlStoreCount, IInv, CountGuarded, LoadedCurrent
  <2>2. FirstIsAlone' /\ LastIsLast'
    BY <1>5, CountZero
       DEF RlStoreCount, ActiveReaders, IInv, FirstIsAlone, LastIsLast, CountGuarded,
            LoadedCurrent
  <2>3. ResourceAccounted' /\ WriterAlone'
    BY <1>5, CountZero
       DEF RlStoreCount, IInv, FirstIsAlone, LastIsLast, CountGuarded, LoadedCurrent,
            ResourceAccounted, WriterAlone, ResourceUsers, ActiveReaders
  <2> QED
    BY <1>0, <2>1, <2>2, <2>3 DEF IInv
<1>6. CASE RlTakeResource(t)
  <2>1. TypeOK' /\ CountGuarded' /\ LoadedCurrent'
    BY <1>6, TasksAssumption, CountZero, ActiveReadersChange
       DEF RlTakeResource, IInv, CountGuarded, LoadedCurrent
  <2>2. FirstIsAlone' /\ LastIsLast'
    BY <1>6, CountZero
       DEF RlTakeResource, ActiveReaders, IInv, FirstIsAlone, LastIsLast, CountGuarded,
            LoadedCurrent
  <2>3. ResourceAccounted' /\ WriterAlone'
    BY <1>6, CountZero
       DEF RlTakeResource, IInv, FirstIsAlone, LastIsLast, CountGuarded, LoadedCurrent,
            ResourceAccounted, WriterAlone, ResourceUsers, ActiveReaders
  <2> QED
    BY <1>0, <2>1, <2>2, <2>3 DEF IInv
<1>7. CASE RlGiveReadLock(t)
  <2>1. TypeOK' /\ CountGuarded' /\ LoadedCurrent'
    BY <1>7, TasksAssumption, CountZero, ActiveReadersChange
       DEF RlGiveReadLock, IInv, CountGuarded, LoadedCurrent
  <2>2. FirstIsAlone' /\ LastIsLast'
    BY <1>7, CountZero
       DEF RlGiveReadLock, ActiveReaders, IInv, FirstIsAlone, LastIsLast, CountGuarded,
            LoadedCurrent
  <2>3. ResourceAccounted' /\ WriterAlone'
    BY <1>7, CountZero
       DEF RlGiveReadLock, IInv, FirstIsAlone, LastIsLast, CountGuarded, LoadedCurrent,
            ResourceAccounted, WriterAlone, ResourceUsers, ActiveReaders
  <2> QED
    BY <1>0, <2>1, <2>2, <2>3 DEF IInv
<1>8. CASE CallReaderUnlock(t)
  <2>1. TypeOK' /\ CountGuarded' /\ LoadedCurrent'
    BY <1>8, TasksAssumption, CountZero, ActiveReadersChange
       DEF CallReaderUnlock, IInv, CountGuarded, LoadedCurrent
  <2>2. FirstIsAlone' /\ LastIsLast'
    BY <1>8, CountZero
       DEF CallReaderUnlock, ActiveReaders, IInv, FirstIsAlone, LastIsLast, CountGuarded,
            LoadedCurrent
  <2>3. ResourceAccounted' /\ WriterAlone'
    BY <1>8, CountZero
       DEF CallReaderUnlock, IInv, FirstIsAlone, LastIsLast, CountGuarded, LoadedCurrent,
            ResourceAccounted, WriterAlone, ResourceUsers, ActiveReaders
  <2> QED
    BY <1>0, <2>1, <2>2, <2>3 DEF IInv
<1>9. CASE RuTakeReadLock(t)
  <2>1. TypeOK' /\ CountGuarded' /\ LoadedCurrent'
    BY <1>9, TasksAssumption, CountZero, ActiveReadersChange
       DEF RuTakeReadLock, IInv, CountGuarded, LoadedCurrent
  <2>2. FirstIsAlone' /\ LastIsLast'
    BY <1>9, CountZero
       DEF RuTakeReadLock, ActiveReaders, IInv, FirstIsAlone, LastIsLast, CountGuarded,
            LoadedCurrent
  <2>3. ResourceAccounted' /\ WriterAlone'
    BY <1>9, CountZero
       DEF RuTakeReadLock, IInv, FirstIsAlone, LastIsLast, CountGuarded, LoadedCurrent,
            ResourceAccounted, WriterAlone, ResourceUsers, ActiveReaders
  <2> QED
    BY <1>0, <2>1, <2>2, <2>3 DEF IInv
<1>10. CASE RuLoadCount(t)
  <2>1. TypeOK' /\ CountGuarded' /\ LoadedCurrent'
    BY <1>10, TasksAssumption, CountZero, ActiveReadersChange
       DEF RuLoadCount, IInv, CountGuarded, LoadedCurrent
  <2>2. FirstIsAlone' /\ LastIsLast'
    BY <1>10, CountZero
       DEF RuLoadCount, ActiveReaders, IInv, FirstIsAlone, LastIsLast, CountGuarded,
            LoadedCurrent
  <2>3. ResourceAccounted' /\ WriterAlone'
    BY <1>10, CountZero
       DEF RuLoadCount, IInv, FirstIsAlone, LastIsLast, CountGuarded, LoadedCurrent,
            ResourceAccounted, WriterAlone, ResourceUsers, ActiveReaders
  <2> QED
    BY <1>0, <2>1, <2>2, <2>3 DEF IInv
<1>11. CASE RuStoreCount(t)
  <2>0. t \in ActiveReaders /\ ActiveReaders' = ActiveReaders \ {t}
    BY <1>11, ActiveReadersChange DEF IInv
  <2>1. /\ pc[t] = "ru_store" /\ ReadLock = t /\ ReadLock' = t
        /\ loaded[t] = ReadCount /\ ReadCount >= 1 /\ ReadCount' = ReadCount - 1
    BY <1>11, <2>0, CountZero DEF RuStoreCount, IInv, CountGuarded, LoadedCurrent
  <2>2. ReadCount' = 0 <=> ActiveReaders' = {}
    BY <1>0, <2>0, <2>1, ActiveReadersFinite, FS_RemoveElement, FS_EmptySet DEF ReadCountExact
  <2>3. pc' = [pc EXCEPT ![t] = IF ReadCount' = 0 THEN "ru_resource" ELSE "ru_give"]
    BY <1>11, <2>1 DEF RuStoreCount
  <2>4. /\ loaded' = [loaded EXCEPT ![t] = 0]
        /\ ResourceLock' = ResourceLock
    BY <1>11 DEF RuStoreCount
  <2>5. TypeOK' /\ CountGuarded' /\ LoadedCurrent'
    BY <2>0, <2>1, <2>3, <2>4, TasksAssumption DEF IInv, CountGuarded, LoadedCurrent
  <2>6. FirstIsAlone' /\ LastIsLast'
    BY <2>0, <2>1, <2>2, <2>3 DEF IInv, CountGuarded, FirstIsAlone, LastIsLast
  <2>7. ResourceUsers # {} /\ ResourceUsers' # {}
    <3>1. CASE ReadCount' = 0
      BY <2>0, <2>1, <2>3, <3>1 DEF IInv, ResourceUsers
    <3>2. CASE ReadCount' # 0
      <4>1. PICK u \in Tasks : u # t /\ u \in ActiveReaders
        BY <2>0, <2>1, <2>2, <3>2 DEF ActiveReaders
      <4> QED
        BY <2>0, <2>1, <2>3, <4>1 DEF IInv, CountGuarded, ActiveReaders, ResourceUsers
    <3> QED
      BY <3>1, <3>2
  <2>8. ResourceAccounted' /\ WriterAlone'
    BY <2>0, <2>1, <2>3, <2>4, <2>7 DEF IInv, ResourceAccounted, WriterAlone, ResourceUsers
  <2> QED
    BY <1>0, <2>5, <2>6, <2>8 DEF IInv
<1>12. CASE RuGiveResource(t)
  <2>1. TypeOK' /\ CountGuarded' /\ LoadedCurrent'
    BY <1>12, TasksAssumption, CountZero, ActiveReadersChange
       DEF RuGiveResource, IInv, CountGuarded, LoadedCurrent
  <2>2. FirstIsAlone' /\ LastIsLast'
    BY <1>12, CountZero
       DEF RuGiveResource, ActiveReaders, IInv, FirstIsAlone, LastIsLast, CountGuarded,
            LoadedCurrent
  <2>3. ResourceAccounted' /\ WriterAlone'
    BY <1>12, CountZero
       DEF RuGiveResource, IInv, FirstIsAlone, LastIsLast, CountGuarded, LoadedCurrent,
            ResourceAccounted, WriterAlone, ResourceUsers, ActiveReaders
  <2> QED
    BY <1>0, <2>1, <2>2, <2>3 DEF IInv
<1>13. CASE RuGiveReadLock(t)
  <2>1. TypeOK' /\ CountGuarded' /\ LoadedCurrent'
    BY <1>13, TasksAssumption, CountZero, ActiveReadersChange
       DEF RuGiveReadLock, IInv, CountGuarded, LoadedCurrent
  <2>2. FirstIsAlone' /\ LastIsLast'
    BY <1>13, CountZero
       DEF RuGiveReadLock, ActiveReaders, IInv, FirstIsAlone, LastIsLast, CountGuarded,
            LoadedCurrent
  <2>3. ResourceAccounted' /\ WriterAlone'
    BY <1>13, CountZero
       DEF RuGiveReadLock, IInv, FirstIsAlone, LastIsLast, CountGuarded, LoadedCurrent,
            ResourceAccounted, WriterAlone, ResourceUsers, ActiveReaders
  <2> QED
    BY <1>0, <2>1, <2>2, <2>3 DEF IInv
<1>14. CASE WlTakeResource(t)
  <2>1. TypeOK' /\ CountGuarded' /\ LoadedCurrent'
    BY <1>14, TasksAssumption, CountZero, ActiveReadersChange
       DEF WlTakeResource, IInv, CountGuarded, LoadedCurrent
  <2>2. FirstIsAlone' /\ LastIsLast'
    BY <1>14, CountZero
       DEF WlTakeResource, ActiveReaders, IInv, FirstIsAlone, LastIsLast, CountGuarded,
            LoadedCurrent
  <2>3. ResourceAccounted' /\ WriterAlone'
    BY <1>14, CountZero
       DEF WlTakeResource, IInv, FirstIsAlone, LastIsLast, CountGuarded, LoadedCurrent,
            ResourceAccounted, WriterAlone, ResourceUsers, ActiveReaders
  <2> QED
    BY <1>0, <2>1, <2>2, <2>3 DEF IInv
<1>15. CASE WriterUnlock(t)
  <2>1. TypeOK' /\ CountGuarded' /\ LoadedCurrent'
    BY <1>15, TasksAssumption, CountZero, ActiveReadersChange
       DEF WriterUnlock, IInv, CountGuarded, LoadedCurrent
  <2>2. FirstIsAlone' /\ LastIsLast'
    BY <1>15, CountZero
       DEF WriterUnlock, ActiveReaders, IInv, FirstIsAlone, LastIsLast, CountGuarded,
            LoadedCurrent
  <2>3. ResourceAccounted' /\ WriterAlone'
    BY <1>15, CountZero
       DEF WriterUnlock, IInv, FirstIsAlone, LastIsLast, CountGuarded, LoadedCurrent,
            ResourceAccounted, WriterAlone, ResourceUsers, ActiveReaders
  <2> QED
    BY <1>0, <2>1, <2>2, <2>3 DEF IInv
<1> QED
  BY <1>1, <1>2, <1>3, <1>4, <1>5, <1>6, <1>7, <1>8, <1>9, <1>10, <1>11, <1>12, <1>13,
       <1>14, <1>15
     DEF Call, Step

-----------------------------------------------------------------------------
(* The theorems *)

(* The invariant holds in every reachable state.                           *)
THEOREM Invariance == Spec => []IInv
<1>1. IInv /\ [Next]_vars => IInv'
  <2> SUFFICES ASSUME IInv, [Next]_vars PROVE IInv'
    OBVIOUS
  <2>1. CASE Next
    BY <2>1, StepPreserves DEF Next
  <2>2. CASE UNCHANGED vars
    BY <2>2 DEF vars, IInv, TypeOK, CountGuarded, LoadedCurrent, ReadCountExact, FirstIsAlone,
                LastIsLast, ResourceAccounted, WriterAlone, ActiveReaders, ResourceUsers
  <2> QED
    BY <2>1, <2>2
<1> QED
  BY <1>1, Initially, PTL DEF Spec

(* The variables have their types, the counter never falls below zero.     *)
THEOREM TypeCorrect == Spec => []TypeOK
BY Invariance, PTL DEF IInv

(* A writer is alone, whatever the number of tasks.                        *)
THEOREM Exclusion == Spec => []WriterAlone
BY Invariance, PTL DEF IInv

(* ReadLock protects ReadCount, and no update of the count is lost.        *)
THEOREM ExactCount == Spec => [](CountGuarded /\ ReadCountExact)
BY Invariance, PTL DEF IInv

(* ResourceLock is neither given twice nor lost.                           *)
THEOREM SemaphoreAccounting == Spec => []ResourceAccounted
BY Invariance, PTL DEF IInv

(* While one task reads, no other reader has to wait for the resource.     *)
THEOREM Sharing == Spec => []ReadersShare
<1>1. IInv => ReadersShare
  BY DEF IInv, FirstIsAlone, ReadersShare, ActiveReaders
<1> QED
  BY <1>1, Invariance, PTL

(* The code implements the abstract lock: every step is one of its steps   *)
(* or leaves what the tasks hold as it is.                                 *)
THEOREM Refinement == Spec => ImplementsReadWriteLock
<1>1. Init => RW!Init
  BY DEF Init, RW!Init, Holds
<1>2. ASSUME IInv, IInv', [Next]_vars PROVE [RW!Next]_Holds
  <2>1. CASE UNCHANGED vars
    BY <2>1 DEF vars, Holds
  <2>2. ASSUME NEW t \in Tasks, Call(t) \/ Step(t) PROVE [RW!Next]_Holds
    <3> USE DEF IInv, TypeOK, Holds
    <3>1. CASE RlGiveReadLock(t)
      <4>1. Holds' = [Holds EXCEPT ![t] = "read"] /\ Holds[t] = "nothing"
        BY <1>2, <3>1 DEF RlGiveReadLock
      <4>2. RW!Holders("write") = {}
        BY <1>2, <3>1 DEF RlGiveReadLock, RW!Holders, WriterAlone, ResourceUsers
      <4> QED
        BY <4>1, <4>2 DEF RW!Next, RW!AcquireRead
    <3>2. CASE WlTakeResource(t)
      <4>1. Holds' = [Holds EXCEPT ![t] = "write"] /\ Holds[t] = "nothing"
        BY <1>2, <3>2 DEF WlTakeResource
      <4>2. RW!Holders("write") = {} /\ RW!Holders("read") = {}
        BY <1>2, <3>2 DEF WlTakeResource, RW!Holders, ResourceAccounted, ResourceUsers
      <4> QED
        BY <4>1, <4>2 DEF RW!Next, RW!AcquireWrite
    <3>3. CASE CallReaderUnlock(t) \/ WriterUnlock(t)
      <4>1. Holds' = [Holds EXCEPT ![t] = "nothing"] /\ Holds[t] # "nothing"
        BY <1>2, <3>3 DEF CallReaderUnlock, WriterUnlock
      <4> QED
        BY <4>1 DEF RW!Next, RW!Release
    <3>4. CASE \/ Call(t) \/ RlTakeReadLock(t) \/ RlLoadCount(t) \/ RlStoreCount(t)
               \/ RlTakeResource(t) \/ RuTakeReadLock(t) \/ RuLoadCount(t)
               \/ RuStoreCount(t) \/ RuGiveResource(t) \/ RuGiveReadLock(t)
      <4>1. /\ pc[t] \notin {"reading", "writing"} /\ pc'[t] \notin {"reading", "writing"}
            /\ \A u \in Tasks \ {t} : pc'[u] = pc[u]
        BY <1>2, <3>4 DEF Call, CallReaderLock, CallWriterLock, RlTakeReadLock, RlLoadCount,
             RlStoreCount, RlTakeResource, RuTakeReadLock, RuLoadCount, RuStoreCount,
             RuGiveResource, RuGiveReadLock
      <4> QED
        BY <4>1
    <3> QED
      BY <2>2, <3>1, <3>2, <3>3, <3>4 DEF Step
  <2> QED
    BY <1>2, <2>1, <2>2 DEF Next
<1> QED
  BY <1>1, <1>2, Invariance, PTL DEF Spec, ImplementsReadWriteLock, RW!Spec

=============================================================================
