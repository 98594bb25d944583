---------------------------- MODULE Objects_proofs ----------------------------
(***************************************************************************)
(* Proofs about the components that stand for themselves: the creation of  *)
(* the reader/writer locks, the zero copy queue, the C++ thread, the       *)
(* deferred work and the lists, each for any values of its constants.      *)
(***************************************************************************)
EXTENDS Lists, RWLockCreate, ZeroCopyQueue, CppThread, DeferredWork, SequenceLemmas,
        FiniteSetTheorems, TLAPS

-----------------------------------------------------------------------------
(* Creation and deletion of the reader/writer locks.                       *)

Wanted == ToSet(Order(Type))

(* What each stage has done to the semaphores.  In the cleanup one is      *)
(* still ahead that was not created: that is where an assert stops it.     *)
Creation ==
    /\ \A f \in Fields \ Wanted : semaphore[f] = "unset"
    /\ stage = "malloc" => step = 1 /\ ~struct /\ \A f \in Fields : semaphore[f] = "unset"
    /\ stage = "create" =>
          /\ struct
          /\ \A i \in Steps : semaphore[Order(Type)[i]] = IF i < step THEN "full" ELSE "NULL"
    /\ stage = "error" /\ asserts =>
          \E i \in Steps : i >= step /\ semaphore[Order(Type)[i]] = "NULL"
    /\ stage = "done" /\ handle_ = "lock" =>
          struct /\ \A f \in Wanted : semaphore[f] = "full"
    /\ stage = "done" /\ handle_ = "NULL" =>
          ~struct /\ (asserts => \A f \in Fields : semaphore[f] = "unset")
    /\ stage = "freed" => ~struct /\ \A f \in Wanted : semaphore[f] = "deleted"

RwcInv == RwcTypeOK /\ Creation

(* The fields of the two types, one by one.                                *)
LEMMA Orders ==
    /\ Fields = {"ReadLock", "WriteLock", "ResourceLock", "BlockReadersLock"}
    /\ Type = "RwPreferReader" =>
          /\ Steps = 1 .. 2 /\ Len(Order(Type)) = 2 /\ Wanted = {"ReadLock", "ResourceLock"}
          /\ Order(Type)[1] = "ReadLock" /\ Order(Type)[2] = "ResourceLock"
    /\ Type = "RwPreferWriter" =>
          /\ Steps = 1 .. 4 /\ Len(Order(Type)) = 4 /\ Wanted = Fields
          /\ Order(Type)[1] = "ReadLock" /\ Order(Type)[2] = "WriteLock"
          /\ Order(Type)[3] = "ResourceLock" /\ Order(Type)[4] = "BlockReadersLock"
<1> DEFINE two == <<"ReadLock", "ResourceLock">>
          four == <<"ReadLock", "WriteLock", "ResourceLock", "BlockReadersLock">>
<1>1. ToSet(two) = {"ReadLock", "ResourceLock"}
  BY DEF ToSet
<1>2. ToSet(four) = {"ReadLock", "WriteLock", "ResourceLock", "BlockReadersLock"}
  BY DEF ToSet
<1> QED
  BY <1>1, <1>2 DEF Order, Fields, Steps, Wanted

(* Of either type, each field that it has is created once.                 *)
LEMMA OrderEach ==
    ASSUME Type \in {"RwPreferReader", "RwPreferWriter"}
    PROVE  /\ Steps = 1 .. Len(Order(Type)) /\ Len(Order(Type)) \in {2, 4}
           /\ Wanted \subseteq Fields
           /\ \A i \in Steps : Order(Type)[i] \in Wanted
           /\ \A f \in Wanted : \E i \in Steps : Order(Type)[i] = f
           /\ \A i, j \in Steps : Order(Type)[i] = Order(Type)[j] => i = j
BY Orders

(* Every stage hands on what the next relies on.                           *)
LEMMA RwcNextInv == RwcInv /\ [RwcNext]_rwcVars => RwcInv'
<1> SUFFICES ASSUME RwcInv, [RwcNext]_rwcVars PROVE RwcInv'
  OBVIOUS
<1> USE DEF RwcInv, RwcTypeOK, Creation
<1>0. /\ Steps = 1 .. Len(Order(Type)) /\ Len(Order(Type)) \in {2, 4}
      /\ Wanted \subseteq Fields
      /\ \A i \in Steps : Order(Type)[i] \in Wanted
      /\ \A f \in Wanted : \E i \in Steps : Order(Type)[i] = f
      /\ \A i, j \in Steps : Order(Type)[i] = Order(Type)[j] => i = j
  BY OrderEach
<1>1. ASSUME UNCHANGED Type PROVE Wanted' = Wanted /\ Steps' = Steps /\ Order(Type') = Order(Type)
  BY <1>1 DEF Wanted, Steps
<1>2. CASE Malloc
  <2>1. /\ semaphore' = [f \in Fields |-> IF f \in Wanted THEN "NULL" ELSE "unset"]
    BY <1>2 DEF Malloc, Wanted
  <2> QED
    BY <1>0, <1>1, <1>2, <2>1 DEF Malloc
<1>3. CASE MallocFails
  BY <1>0, <1>1, <1>3 DEF MallocFails
<1>4. CASE CreateSemaphore
  <2>1. /\ step \in Steps /\ step' = step + 1 /\ stage = "create" /\ stage' = "create"
        /\ UNCHANGED <<Type, asserts, struct, handle_>>
        /\ semaphore' = [semaphore EXCEPT ![Order(Type)[step]] = "full"]
    BY <1>4 DEF CreateSemaphore, Current
  <2>2. ASSUME NEW i \in Steps
        PROVE  semaphore'[Order(Type)[i]] = IF i < step' THEN "full" ELSE "NULL"
    BY <1>0, <2>1
  <2>3. RwcTypeOK'
    BY <1>0, <1>1, <2>1
  <2>4. \A f \in Fields \ Wanted : semaphore'[f] = "unset"
    BY <1>0, <2>1
  <2> QED
    BY <1>1, <2>1, <2>2, <2>3, <2>4
<1>5. CASE CreateSemaphoreFails
  BY <1>0, <1>1, <1>5 DEF CreateSemaphoreFails
<1>6. CASE CreateReturns
  BY <1>0, <1>1, <1>6 DEF CreateReturns
<1>7. CASE Cleanup
  BY <1>0, <1>1, <1>7 DEF Cleanup, Current
<1>8. CASE CleanupHalts
  BY <1>0, <1>1, <1>8 DEF CleanupHalts
<1>9. CASE CleanupReturns
  <2>1. ~asserts
    BY <1>0, <1>9 DEF CleanupReturns
  <2> QED
    BY <1>0, <1>1, <1>9, <2>1 DEF CleanupReturns
<1>10. CASE FreeReadWriteLock
  <2>1. semaphore' = [f \in Fields |-> IF f \in Wanted THEN "deleted" ELSE semaphore[f]]
    BY <1>10 DEF FreeReadWriteLock, Wanted
  <2>2. semaphore' \in [Fields -> {"unset", "NULL", "full", "deleted"}]
    BY <2>1
  <2>3. \A f \in Wanted : semaphore'[f] = "deleted"
    BY <1>0, <2>1
  <2>4. \A f \in Fields \ Wanted : semaphore'[f] = "unset"
    BY <2>1
  <2> QED
    BY <1>1, <1>10, <2>2, <2>3, <2>4 DEF FreeReadWriteLock
<1>11. CASE UNCHANGED rwcVars
  BY <1>0, <1>1, <1>11 DEF rwcVars
<1> QED
  BY <1>2, <1>3, <1>4, <1>5, <1>6, <1>7, <1>8, <1>9, <1>10, <1>11, Zenon DEF RwcNext

(* Whichever allocation fails, creation gives a whole lock or leaves       *)
(* nothing behind, and deletion deletes all that the type has.             *)
THEOREM CreationSafe == RwcSpec => []CreationAllOrNothing
<1>1. RwcInit => RwcInv
  <2> SUFFICES ASSUME RwcInit PROVE RwcInv
    OBVIOUS
  <2>1. Len(Order(Type)) \in {2, 4}
    BY OrderEach DEF RwcInit
  <2>2. semaphore \in [Fields -> {"unset", "NULL", "full", "deleted"}]
        /\ \A f \in Fields : semaphore[f] = "unset"
    BY DEF RwcInit
  <2>3. /\ Type \in {"RwPreferReader", "RwPreferWriter"} /\ asserts \in BOOLEAN
        /\ stage = "malloc" /\ step = 1 /\ struct = FALSE /\ handle_ = "none"
    BY DEF RwcInit
  <2>4. RwcTypeOK
    <3>1. 1 \in 1 .. Len(Order(Type)) + 1
      BY <2>1
    <3> QED
      BY <2>2, <2>3, <3>1 DEF RwcTypeOK
  <2>5. Creation
    BY <2>2, <2>3 DEF Creation
  <2> QED
    BY <2>4, <2>5 DEF RwcInv
<1>2. RwcInv => CreationAllOrNothing
  <2> SUFFICES ASSUME RwcInv PROVE CreationAllOrNothing
    OBVIOUS
  <2>1. Existing \subseteq Fields /\ \A f \in Existing : semaphore[f] = "full"
    BY DEF Existing
  <2> QED
    BY <2>1 DEF RwcInv, Creation, CreationAllOrNothing, Wanted
<1> QED
  BY <1>1, <1>2, RwcNextInv, PTL DEF RwcSpec

-----------------------------------------------------------------------------
(* The zero copy queue.                                                    *)

(* Before it is created it is empty; then it has a place for each item.    *)
Stages ==
    /\ zcq # "created" => free = {} /\ out = {} /\ queued = <<>> /\ \A t \in ZcqTasks : held[t] = {}
    /\ zcq \in {"pool", "created"} => places = Cardinality(Items)

(* An item is free, in the queue or with one task.                         *)
Owners ==
    /\ IsInjective(queued)
    /\ free \cap out = {}
    /\ ToSet(queued) \subseteq out
    /\ \A t \in ZcqTasks : held[t] \subseteq out /\ held[t] \cap ToSet(queued) = {}
    /\ \A t, u \in ZcqTasks : t # u => held[t] \cap held[u] = {}
    /\ \A x \in out : x \in ToSet(queued) \/ \E t \in ZcqTasks : x \in held[t]

ZcqInv == ZcqTypeOK /\ Stages /\ Owners

(* It holds at first.                                                      *)
LEMMA ZcqInitInv == ZcqInit => ZcqInv
<1> SUFFICES ASSUME ZcqInit PROVE ZcqInv
  OBVIOUS
<1>1. Cardinality(Items) \in Nat
  BY ZcqAssumption, FS_CardinalityType
<1> QED
  BY <1>1, EmptySet DEF ZcqInit, Pool!Init, ZcqInv, ZcqTypeOK, Stages, Owners

(* Items change hands, and each of them comes from where it was.           *)
LEMMA ZcqNextInv == ZcqInv /\ [ZcqNext]_zcqVars => ZcqInv'
<1> SUFFICES ASSUME ZcqInv, [ZcqNext]_zcqVars PROVE ZcqInv'
  OBVIOUS
<1> USE DEF ZcqInv, ZcqTypeOK, Stages, Owners
<1>0. Cardinality(Items) \in Nat
  BY ZcqAssumption, FS_CardinalityType
<1>1. CASE MallocZcq \/ CreateZcqFails \/ CreateHandle
  BY <1>0, <1>1 DEF MallocZcq, CreateZcqFails, CreateHandle
<1>2. CASE CreatePool
  BY <1>2, EmptySet DEF CreatePool, Pool!Grow
<1>3. CASE CreatePoolFails
  BY <1>3 DEF CreatePoolFails
<1>4. ASSUME NEW t \in ZcqTasks, NEW item \in Items, ZcqAllocateItem(t, item) PROVE ZcqInv'
  BY <1>4 DEF ZcqAllocateItem, Pool!Allocate
<1>5. ASSUME NEW t \in ZcqTasks, NEW item \in Items, ZcqFreeItem(t, item) PROVE ZcqInv'
  BY <1>5 DEF ZcqFreeItem, Pool!Free
<1>6. ASSUME NEW t \in ZcqTasks, NEW item \in Items, ZcqEnqueueItem(t, item) PROVE ZcqInv'
  <2>1. /\ queued' \in Seq(Items) /\ IsInjective(queued')
        /\ ToSet(queued') = ToSet(queued) \cup {item}
    BY <1>6, AppendSet, AppendAt DEF ZcqEnqueueItem
  <2> QED
    BY <1>6, <2>1 DEF ZcqEnqueueItem
<1>7. ASSUME NEW t \in ZcqTasks, ZcqDequeueItem(t) PROVE ZcqInv'
  <2>1. /\ queued' \in Seq(Items) /\ IsInjective(queued')
        /\ Head(queued) \in Items /\ Head(queued) \notin ToSet(queued')
        /\ ToSet(queued) = ToSet(queued') \cup {Head(queued)}
    BY <1>7, TailSet DEF ZcqDequeueItem
  <2> QED
    BY <1>7, <2>1 DEF ZcqDequeueItem
<1>8. CASE UNCHANGED zcqVars
  BY <1>8 DEF zcqVars
<1> QED
  BY <1>1, <1>2, <1>3, <1>4, <1>5, <1>6, <1>7, <1>8 DEF ZcqNext

(* The variables of the zero copy queue have their types.                  *)
THEOREM ZcqTyped == ZcqSpec => []ZcqTypeOK
<1>1. ZcqInv => ZcqTypeOK
  BY DEF ZcqInv
<1> QED
  BY <1>1, ZcqInitInv, ZcqNextInv, PTL DEF ZcqSpec

(* Each item has one owner, and whoever has one finds a place in the queue *)
(* for it, so that an enqueue never waits.                                 *)
THEOREM OneOwner == ZcqSpec => []ItemsHaveOneOwner
<1>1. ASSUME ZcqInv PROVE ItemsHaveOneOwner
  <2> USE <1>1 DEF ZcqInv, Owners
  <2>1. \A t \in ZcqTasks :
           /\ held[t] \cap (free \cup ToSet(queued)) = {}
           /\ \A u \in ZcqTasks \ {t} : held[t] \cap held[u] = {}
    OBVIOUS
  <2>2. out = ToSet(queued) \cup UNION {held[t] : t \in ZcqTasks}
    OBVIOUS
  <2>3. ASSUME NEW t \in ZcqTasks, held[t] # {} PROVE Len(queued) < places
    <3>1. PICK x \in Items : x \in held[t]
      BY <2>3 DEF ZcqTypeOK
    <3>2. x \notin ToSet(queued) /\ queued \in Seq(Items)
      BY <3>1 DEF ZcqTypeOK
    <3>3. places = Cardinality(Items)
      BY <2>3 DEF Stages
    <3> QED
      BY <3>1, <3>2, <3>3, ZcqAssumption, RoomForOne DEF Owners
  <2> QED
    BY <2>1, <2>2, <2>3 DEF ItemsHaveOneOwner
<1> QED
  BY <1>1, ZcqInitInv, ZcqNextInv, PTL DEF ZcqSpec

-----------------------------------------------------------------------------
(* The C++ thread: Start.                                                  *)

ThTyped ==
    /\ SchedulerActive \in BOOLEAN
    /\ StartGuardLock \in Callers \cup {NoTask}
    /\ ThreadStarted \in [Objects -> BOOLEAN]
    /\ object \in [Objects -> {"alive", "half", "gone"}]
    /\ task \in [Objects -> {"none", "running", "exiting", "deleted"}]
    /\ created \in [Objects -> {0, 1}]
    /\ failed \in [Objects -> BOOLEAN]
    /\ step_ \in [Callers -> {"out", "lock", "test", "store", "create"}]
    /\ startOf \in [Callers -> Objects \cup {NoTask}]

(* Who may be in Start: Main before the scheduler is started and the       *)
(* others then, one of them at a time between its test and its store.      *)
Guarded ==
    \A c \in Callers :
        /\ step_[c] # "out" => (c = Main <=> ~SchedulerActive) /\ startOf[c] \in Objects
        /\ step_[c] = "out" => startOf[c] = NoTask
        /\ step_[c] \in {"test", "store"} /\ SchedulerActive => StartGuardLock = c

(* Whoever creates the task has set the member ThreadStarted, which stays  *)
(* set, and is the first and the last to do so, also if it fails.          *)
StartedOnce ==
    /\ \A c \in Callers :
          /\ step_[c] = "store" => ~ThreadStarted[startOf[c]]
          /\ step_[c] = "create" =>
                /\ ThreadStarted[startOf[c]] /\ created[startOf[c]] = 0 /\ ~failed[startOf[c]]
                /\ \A d \in Callers : step_[d] = "create" /\ startOf[d] = startOf[c] => d = c
    /\ \A o \in Objects :
          /\ ~ThreadStarted[o] => created[o] = 0 /\ ~failed[o]
          /\ failed[o] => created[o] = 0

(* An object that is gone has no task, and nobody starts it.               *)
GoneForGood ==
    \A o \in Objects : object[o] # "alive" =>
        task[o] = "deleted" /\ \A c \in Callers : startOf[c] # o

StartInv == ThTyped /\ Guarded /\ StartedOnce /\ GoneForGood

(* Nothing is started, and everything alive.                               *)
LEMMA StartInitInv == ThInit => StartInv
<1> SUFFICES ASSUME ThInit PROVE StartInv
  OBVIOUS
<1>1. ThTyped
  BY DEF ThInit, ThTyped
<1>2. Guarded
  BY DEF ThInit, Guarded
<1>3. StartedOnce /\ GoneForGood
  BY DEF ThInit, StartedOnce, GoneForGood
<1> QED
  BY <1>1, <1>2, <1>3 DEF StartInv

(* The steps of Start, each of a caller.                                   *)
LEMMA StartStepInv ==
    ASSUME StartInv, NEW c \in Callers,
           \/ \E o \in Objects : CallStart(c, o)
           \/ TakeStartGuard(c) \/ StartTwice(c) \/ StartOnce(c) \/ SetThreadStarted(c)
           \/ CreateTask(c) \/ CreateTaskFails(c)
    PROVE  StartInv'
<1> USE CppThreadAssumption DEF StartInv, ThTyped, Stepping, StartReturns, Runs, start, life
<1>0. \A d, e \in Callers :
         step_[d] \in {"test", "store"} /\ step_[e] \in {"test", "store"} => d = e
  BY DEF Guarded
<1>1. ASSUME NEW o \in Objects, CallStart(c, o) PROVE StartInv'
  <2>1. ThTyped'
    BY <1>1 DEF CallStart
  <2>2. Guarded'
    BY <1>1 DEF CallStart, Guarded
  <2>3. StartedOnce' /\ GoneForGood'
    BY <1>1 DEF CallStart, Guarded, StartedOnce, GoneForGood
  <2> QED
    BY <2>1, <2>2, <2>3
<1>2. CASE TakeStartGuard(c)
  <2>1. ThTyped'
    BY <1>2 DEF TakeStartGuard, TakeMutex
  <2>2. Guarded'
    BY <1>2 DEF TakeStartGuard, TakeMutex, Guarded
  <2>3. StartedOnce' /\ GoneForGood'
    BY <1>2 DEF TakeStartGuard, StartedOnce, GoneForGood
  <2> QED
    BY <2>1, <2>2, <2>3
<1>3. CASE StartTwice(c)
  <2>1. ThTyped'
    BY <1>3 DEF StartTwice, GiveMutex
  <2>2. Guarded'
    BY <1>0, <1>3 DEF StartTwice, GiveMutex, Guarded
  <2>3. StartedOnce' /\ GoneForGood'
    BY <1>3 DEF StartTwice, StartedOnce, GoneForGood
  <2> QED
    BY <2>1, <2>2, <2>3
<1>4. CASE StartOnce(c)
  <2>1. ThTyped'
    BY <1>4 DEF StartOnce
  <2>2. Guarded'
    BY <1>4 DEF StartOnce, Guarded
  <2>3. StartedOnce' /\ GoneForGood'
    BY <1>4 DEF StartOnce, StartedOnce, GoneForGood
  <2> QED
    BY <2>1, <2>2, <2>3
<1>5. CASE SetThreadStarted(c)
  <2>1. ThTyped'
    BY <1>5 DEF SetThreadStarted, GiveMutex
  <2>2. Guarded'
    BY <1>0, <1>5 DEF SetThreadStarted, GiveMutex, Guarded
  <2>3. StartedOnce'
    <3>1. /\ step_[c] = "store" /\ step_' = [step_ EXCEPT ![c] = "create"]
          /\ ThreadStarted' = [ThreadStarted EXCEPT ![startOf[c]] = TRUE]
          /\ startOf' = startOf /\ created' = created /\ failed' = failed
      BY <1>5 DEF SetThreadStarted
    <3>2. startOf[c] \in Objects /\ ~ThreadStarted[startOf[c]]
          /\ created[startOf[c]] = 0 /\ ~failed[startOf[c]]
      BY <3>1 DEF Guarded, StartedOnce
    <3>3. \A d \in Callers \ {c} : step_[d] # "store"
                                  /\ (step_[d] = "create" => startOf[d] # startOf[c])
      BY <1>0, <3>1, <3>2 DEF StartedOnce
    <3> QED
      BY <3>1, <3>2, <3>3 DEF StartedOnce
  <2>4. GoneForGood'
    BY <1>5 DEF SetThreadStarted, GoneForGood
  <2> QED
    BY <2>1, <2>2, <2>3, <2>4
<1>6. CASE CreateTask(c)
  <2>1. /\ step_[c] = "create" /\ startOf[c] \in Objects /\ created[startOf[c]] = 0
        /\ ThreadStarted[startOf[c]] /\ ~failed[startOf[c]] /\ object[startOf[c]] = "alive"
    BY <1>6 DEF CreateTask, Guarded, StartedOnce, GoneForGood
  <2>2. ThTyped'
    BY <1>6, <2>1 DEF CreateTask
  <2>3. Guarded'
    BY <1>6 DEF CreateTask, Guarded
  <2>4. StartedOnce'
    BY <1>6, <2>1 DEF CreateTask, StartedOnce
  <2>5. GoneForGood'
    BY <1>6, <2>1 DEF CreateTask, GoneForGood
  <2> QED
    BY <2>2, <2>3, <2>4, <2>5
<1>7. CASE CreateTaskFails(c)
  <2>1. /\ step_[c] = "create" /\ startOf[c] \in Objects /\ created[startOf[c]] = 0
        /\ ThreadStarted[startOf[c]]
    BY <1>7 DEF CreateTaskFails, Guarded, StartedOnce
  <2>2. ThTyped'
    BY <1>7 DEF CreateTaskFails
  <2>3. Guarded'
    BY <1>7 DEF CreateTaskFails, Guarded
  <2>4. StartedOnce'
    BY <1>7, <2>1 DEF CreateTaskFails, StartedOnce
  <2>5. GoneForGood'
    BY <1>7 DEF CreateTaskFails, GoneForGood
  <2> QED
    BY <2>2, <2>3, <2>4, <2>5
<1> QED
  BY <1>1, <1>2, <1>3, <1>4, <1>5, <1>6, <1>7

(* And the steps of the tasks and of those who destroy them.               *)
LEMMA LifeStepInv ==
    ASSUME StartInv, NEW o \in Objects,
           \/ InRun(o) \/ SignalsDangling(o)
           \/ RunReturns(o) \/ DeleteOwnTask(o) \/ CleanupDeletesThis(o)
           \/ \E c \in Callers : Destroy(c, o) \/ DestroyStale(c, o)
    PROVE  StartInv'
<1> USE DEF StartInv, ThTyped, start, life
<1>1. CASE InRun(o)
  BY <1>1 DEF InRun, Guarded, StartedOnce, GoneForGood
<1>2. CASE SignalsDangling(o) \/ \E c \in Callers : DestroyStale(c, o)
  BY <1>2 DEF SignalsDangling, DestroyStale, Guarded, StartedOnce, GoneForGood
<1>3. ASSUME /\ task[o] \in {"running", "exiting"} /\ object[o] = "alive"
             /\ object'[o] # "alive" => AtRest(o) /\ task'[o] = "deleted"
             /\ task'[o] \in {"exiting", "deleted"}
             /\ object'[o] \in {"alive", "half", "gone"}
             /\ task' = [task EXCEPT ![o] = task'[o]]
             /\ object' = [object EXCEPT ![o] = object'[o]]
             /\ UNCHANGED <<start, created, failed>>
      PROVE  StartInv'
  <2>1. ThTyped' /\ Guarded'
    BY <1>3 DEF Guarded
  <2>2. StartedOnce'
    BY <1>3 DEF StartedOnce
  <2>3. GoneForGood'
    BY <1>3 DEF GoneForGood, AtRest
  <2> QED
    BY <2>1, <2>2, <2>3
<1>4. CASE RunReturns(o)
  BY <1>3, <1>4 DEF RunReturns, Running, GoneForGood
<1>5. CASE DeleteOwnTask(o)
  BY <1>3, <1>5 DEF DeleteOwnTask, GoneForGood
<1>6. CASE CleanupDeletesThis(o)
  BY <1>3, <1>6 DEF CleanupDeletesThis
<1>7. CASE \E c \in Callers : Destroy(c, o)
  BY <1>3, <1>7 DEF Destroy
<1> QED
  BY <1>1, <1>2, <1>4, <1>5, <1>6, <1>7

(* Every step keeps it.                                                    *)
LEMMA StartNextInv == StartInv /\ [ThNext]_thVars => StartInv'
<1> SUFFICES ASSUME StartInv, [ThNext]_thVars PROVE StartInv'
  OBVIOUS
<1>1. CASE StartScheduler
  <2> USE CppThreadAssumption DEF StartInv, ThTyped, StartScheduler, Runs, life
  <2>1. ThTyped'
    BY <1>1
  <2>2. Guarded'
    BY <1>1 DEF Guarded
  <2>3. StartedOnce' /\ GoneForGood'
    BY <1>1 DEF StartedOnce, GoneForGood
  <2> QED
    BY <2>1, <2>2, <2>3
<1>2. CASE UNCHANGED thVars
  BY <1>2 DEF thVars, start, life, StartInv, ThTyped, Guarded, StartedOnce, GoneForGood
<1>3. CASE \E c \in Callers :
              \/ \E o \in Objects : CallStart(c, o)
              \/ TakeStartGuard(c) \/ StartTwice(c) \/ StartOnce(c) \/ SetThreadStarted(c)
              \/ CreateTask(c) \/ CreateTaskFails(c)
  BY <1>3, StartStepInv
<1>4. CASE \E o \in Objects :
              \/ InRun(o) \/ SignalsDangling(o)
              \/ RunReturns(o) \/ DeleteOwnTask(o) \/ CleanupDeletesThis(o)
              \/ \E c \in Callers : Destroy(c, o) \/ DestroyStale(c, o)
  BY <1>4, LifeStepInv
<1> QED
  BY <1>1, <1>2, <1>3, <1>4, Zenon DEF ThNext

(* Start creates at most one task of a thread, whoever calls it however    *)
(* often, before and after the scheduler is started: none after a creation *)
(* that failed, and none of a thread that is being destroyed.              *)
THEOREM StartedAtMostOnce == ThSpec => []OneTaskPerThread
<1>1. ASSUME StartInv, NEW o \in Objects
      PROVE  /\ created[o] + Cardinality(Creating(o)) <= 1
             /\ failed[o] => created[o] = 0 /\ Creating(o) = {}
             /\ object[o] # "alive" => Creating(o) = {} /\ task[o] = "deleted"
  <2> USE <1>1 DEF StartInv, ThTyped
  <2>1. \A c, d \in Creating(o) : c = d
    BY DEF Creating, Guarded, StartedOnce
  <2>2. created[o] \in {0, 1} /\ (Creating(o) # {} => created[o] = 0 /\ ~failed[o])
    BY DEF Creating, StartedOnce
  <2>3. CASE Creating(o) = {}
    BY <2>2, <2>3, FS_EmptySet DEF StartedOnce, GoneForGood
  <2>4. CASE Creating(o) # {}
    <3>1. \E c : Creating(o) = {c}
      <4>1. PICK c \in Creating(o) : TRUE
        BY <2>4
      <4>2. Creating(o) = {c}
        BY <2>1, <4>1
      <4> QED
        BY <4>2
    <3>2. Cardinality(Creating(o)) = 1
      BY <3>1, FS_Singleton
    <3>3. object[o] = "alive"
      BY <2>4 DEF Creating, GoneForGood
    <3> QED
      BY <2>2, <2>4, <3>2, <3>3
  <2> QED
    BY <2>3, <2>4
<1>2. StartInv => OneTaskPerThread
  BY <1>1 DEF OneTaskPerThread
<1> QED
  BY <1>2, StartInitInv, StartNextInv, PTL DEF ThSpec

-----------------------------------------------------------------------------
(* The C++ thread: what a thread that is gone leaves on the WaitList.      *)

CP == INSTANCE ConditionVariable_proofs WITH
        Waiters <- Objects, Notifiers <- Objects, Cvs <- {"cv"},
        Timeouts <- TRUE, MaxWaitList <- MaxWaits

(* The steps of C are those about which the facts of CP are proved.        *)
LEMMA SameSteps ==
    ASSUME NEW o \in Objects, C!Client(o) \/ C!Step(o) \/ C!WaitTimeout(o)
    PROVE  CP!Client(o) \/ CP!Step(o) \/ CP!WaitTimeout(o)
<1> USE DEF C!Go, CP!Go, C!TakeLock, CP!TakeLock, C!ReleaseLock, CP!ReleaseLock, C!TakeMutex,
      CP!TakeMutex, C!GiveMutex, CP!GiveMutex, C!PopAndGive, CP!PopAndGive, C!state,
      CP!state
<1>1. ASSUME C!Client(o) PROVE CP!Client(o)
  <2>1. C!LockCvLock(o) => CP!LockCvLock(o)
    BY DEF C!LockCvLock, CP!LockCvLock
  <2>2. C!UnlockCvLock(o) => CP!UnlockCvLock(o)
    BY DEF C!UnlockCvLock, CP!UnlockCvLock
  <2>3. \A c \in {"cv"} : /\ C!CallWait(o, c) => CP!CallWait(o, c)
                          /\ C!CallSignal(o, c) => CP!CallSignal(o, c)
                          /\ C!CallBroadcast(o, c) => CP!CallBroadcast(o, c)
    BY DEF C!CallWait, CP!CallWait, C!CallSignal, CP!CallSignal, C!CallBroadcast, CP!CallBroadcast
  <2> QED
    BY <1>1, <2>1, <2>2, <2>3 DEF C!Client, CP!Client
<1>2. ASSUME C!Step(o) PROVE CP!Step(o)
  <2>1. C!WaitLock(o) => CP!WaitLock(o)
    BY DEF C!WaitLock, CP!WaitLock
  <2>2. C!WaitPush(o) => CP!WaitPush(o)
    BY DEF C!WaitPush, CP!WaitPush
  <2>3. C!WaitDropCvLock(o) => CP!WaitDropCvLock(o)
    BY DEF C!WaitDropCvLock, CP!WaitDropCvLock
  <2>4. C!WaitTake(o) => CP!WaitTake(o)
    BY DEF C!WaitTake, CP!WaitTake
  <2>5. C!WaitGrabCvLock(o) => CP!WaitGrabCvLock(o)
    BY DEF C!WaitGrabCvLock, CP!WaitGrabCvLock
  <2>6. C!NotifyLock(o) => CP!NotifyLock(o)
    BY DEF C!NotifyLock, CP!NotifyLock
  <2>7. C!SignalPop(o) => CP!SignalPop(o)
    BY DEF C!SignalPop, CP!SignalPop
  <2>8. C!BroadcastPop(o) => CP!BroadcastPop(o)
    BY DEF C!BroadcastPop, CP!BroadcastPop
  <2>9. C!NotifyDone(o) => CP!NotifyDone(o)
    BY DEF C!NotifyDone, CP!NotifyDone
  <2> QED
    BY <1>2, <2>1, <2>2, <2>3, <2>4, <2>5, <2>6, <2>7, <2>8, <2>9 DEF C!Step, CP!Step
<1>3. C!WaitTimeout(o) => CP!WaitTimeout(o)
  BY DEF C!WaitTimeout, CP!WaitTimeout
<1> QED
  BY <1>1, <1>2, <1>3

(* Who is gone was in no call of the library, and makes none any more.     *)
OutWhenGone == \A o \in Objects : object[o] # "alive" => pc[o] = "out"

DangleInv == CP!Typed /\ CP!Accurate /\ StartInv /\ OutWhenGone

(* A step in Run is one of the condition variables, of that thread.        *)
LEMMA RunStep ==
    ASSUME CP!Typed, NEW o \in Objects, InRun(o)
    PROVE  /\ CP!Next /\ task[o] = "running" /\ UNCHANGED <<start, life>>
           /\ \A p \in Objects \ {o} : pc'[p] = pc[p]
<1>1. CP!Client(o) \/ CP!Step(o) \/ CP!WaitTimeout(o)
  BY SameSteps DEF InRun
<1>2. CP!Next /\ CP!Threads = Objects
  BY <1>1 DEF CP!Next, CP!Threads
<1>3. \A p \in Objects \ {o} : pc'[p] = pc[p]
  BY <1>1, <1>2, CP!OwnPc, CppThreadAssumption
<1> QED
  BY <1>2, <1>3 DEF InRun, Running

(* Every other step leaves the condition variables alone.                  *)
LEMMA OtherSteps ==
    ASSUME [ThNext]_thVars
    PROVE  (\E o \in Objects : InRun(o)) \/ UNCHANGED cvVars
<1>1. ASSUME NEW c \in Callers,
             \/ \E o \in Objects : CallStart(c, o) \/ Destroy(c, o) \/ DestroyStale(c, o)
             \/ TakeStartGuard(c) \/ StartTwice(c) \/ StartOnce(c) \/ SetThreadStarted(c)
             \/ CreateTask(c) \/ CreateTaskFails(c)
      PROVE  UNCHANGED cvVars
  BY <1>1, Zenon DEF CallStart, Destroy, DestroyStale, TakeStartGuard, StartTwice, StartOnce,
                     SetThreadStarted, CreateTask, CreateTaskFails
<1>2. ASSUME NEW o \in Objects,
             SignalsDangling(o) \/ RunReturns(o) \/ DeleteOwnTask(o) \/ CleanupDeletesThis(o)
      PROVE  UNCHANGED cvVars
  BY <1>2, Zenon DEF SignalsDangling, RunReturns, DeleteOwnTask, CleanupDeletesThis
<1>3. StartScheduler => UNCHANGED cvVars
  BY DEF StartScheduler
<1>4. UNCHANGED thVars => UNCHANGED cvVars
  BY DEF thVars
<1> QED
  BY <1>1, <1>2, <1>3, <1>4, Zenon DEF ThNext

(* Only a thread at rest is destroyed, one at a time.                      *)
LEMMA Destroyed ==
    ASSUME ThTyped, [ThNext]_thVars
    PROVE  \/ object' = object
           \/ \E o \in Objects : AtRest(o) /\ \A p \in Objects \ {o} : object'[p] = object[p]
<1>1. ASSUME NEW c \in Callers,
             \/ \E o \in Objects : CallStart(c, o) \/ DestroyStale(c, o)
             \/ TakeStartGuard(c) \/ StartTwice(c) \/ StartOnce(c) \/ SetThreadStarted(c)
             \/ CreateTask(c) \/ CreateTaskFails(c)
      PROVE  object' = object
  BY <1>1 DEF CallStart, DestroyStale, TakeStartGuard, StartTwice, StartOnce,
              SetThreadStarted, CreateTask, CreateTaskFails, life
<1>2. ASSUME NEW o \in Objects,
             InRun(o) \/ SignalsDangling(o) \/ RunReturns(o) \/ DeleteOwnTask(o)
      PROVE  object' = object
  BY <1>2 DEF InRun, SignalsDangling, RunReturns, DeleteOwnTask, life
<1>3. ASSUME NEW o \in Objects, CleanupDeletesThis(o) \/ \E c \in Callers : Destroy(c, o)
      PROVE  AtRest(o) /\ \A p \in Objects \ {o} : object'[p] = object[p]
  BY <1>3 DEF CleanupDeletesThis, Destroy, ThTyped
<1>4. StartScheduler \/ UNCHANGED thVars => object' = object
  BY DEF StartScheduler, thVars, life
<1> QED
  BY <1>1, <1>2, <1>3, <1>4, Zenon DEF ThNext

(* Every step keeps what is gone out of the library.                       *)
LEMMA OutNext == DangleInv /\ [ThNext]_thVars => OutWhenGone'
<1> SUFFICES ASSUME DangleInv, [ThNext]_thVars, NEW p \in Objects, object'[p] # "alive"
             PROVE  pc'[p] = "out"
  BY DEF OutWhenGone
<1> USE DEF DangleInv, OutWhenGone, StartInv, GoneForGood
<1>1. ASSUME NEW o \in Objects, InRun(o) PROVE pc'[p] = "out"
  BY <1>1, RunStep DEF life
<1>2. CASE UNCHANGED cvVars /\ object'[p] = object[p]
  BY <1>2 DEF cvVars
<1>3. CASE UNCHANGED cvVars /\ object'[p] # object[p]
  <2>1. PICK o \in Objects : AtRest(o) /\ \A q \in Objects \ {o} : object'[q] = object[q]
    BY <1>3, Destroyed
  <2>2. AtRest(p)
    BY <1>3, <2>1
  <2> QED
    BY <1>3, <2>2 DEF AtRest, cvVars
<1> QED
  BY <1>1, <1>2, <1>3, OtherSteps


(* All of it together.                                                     *)
LEMMA DangleNext == DangleInv /\ [ThNext]_thVars => DangleInv'
<1> SUFFICES ASSUME DangleInv, [ThNext]_thVars PROVE DangleInv'
  OBVIOUS
<1>1. [CP!Next]_(CP!vars)
  <2>1. ASSUME NEW o \in Objects, InRun(o) PROVE CP!Next
    BY <2>1, RunStep DEF DangleInv
  <2>2. UNCHANGED cvVars => UNCHANGED CP!vars
    BY DEF cvVars, CP!vars, CP!state
  <2> QED
    BY <2>1, <2>2, OtherSteps
<1>2. CP!Typed' /\ CP!Accurate'
  BY <1>1, CP!TypedNext, CP!AccurateNext, CppThreadAssumption DEF DangleInv, CP!Threads
<1>3. StartInv'
  BY StartNextInv DEF DangleInv
<1>4. OutWhenGone'
  BY OutNext
<1> QED
  BY <1>2, <1>3, <1>4 DEF DangleInv

(* Until a first Wait times out, no WaitList holds a thread that is gone,  *)
(* however the threads wait, signal, end and are destroyed.                *)
THEOREM GoneIsNotListed == ThSpec => []NothingDangles
<1>1. ThInit => DangleInv
  <2> SUFFICES ASSUME ThInit PROVE DangleInv
    OBVIOUS
  <2>1. C!Init => CP!Init
    BY DEF C!Init, CP!Init, C!Created, CP!Created, C!Threads, CP!Threads
  <2>2. CP!Typed /\ CP!Accurate
    BY <2>1, CP!TypedInit, CP!AccurateInit, CppThreadAssumption DEF ThInit, CP!Threads
  <2>3. OutWhenGone
    BY DEF ThInit, OutWhenGone
  <2> QED
    BY <2>2, <2>3, StartInitInv DEF DangleInv
<1>2. DangleInv => NothingDangles
  <2> SUFFICES ASSUME DangleInv, ~expired, NEW o \in Objects, object[o] # "alive"
               PROVE  o \notin ToSet(WaitList["cv"])
    BY DEF NothingDangles
  <2>1. pc[o] = "out"
    BY DEF DangleInv, OutWhenGone
  <2>2. ToSet(WaitList["cv"]) = CP!Waiting("cv")
    BY DEF DangleInv, CP!Accurate, CP!ListedAreWaiting, ToSet, CP!ToSet
  <2> QED
    BY <2>1, <2>2 DEF CP!Waiting
<1> QED
  BY <1>1, <1>2, DangleNext, PTL DEF ThSpec

-----------------------------------------------------------------------------
(* Deferred work: tasklets, timers and tick hooks.                         *)

(* What the argument of a call is, by where the call is.                   *)
Scheduling == {"k_take", "k_pend", "k_back"}
Deleting   == {"d_take", "d_delete"}

ArgsTyped ==
    \A c \in Contexts :
        /\ where[c] \in Scheduling \cup Deleting => arg[c] \in Tasklets
        /\ where[c] = "m_send" => arg[c] \in {"start", "stop"} \X Timers
        /\ where[c] = "m_delete" => arg[c] \in Timers
        /\ where[c] \in {"h_register", "h_destroy", "h_remove"} => arg[c] \in Hooks

(* Whether, and how often, a command is in the queue.                      *)
Queued(command) == command \in ToSet(commands)
Once(command) ==
    \A i, j \in DOMAIN commands : commands[i] = command /\ commands[j] = command => i = j

(* The three ways to hold DtorLock of k.                                   *)
InCall(k, c) == arg[c] = k /\ where[c] \in {"k_pend", "k_back", "d_delete"}
InDaemon(k)      == executing \in {"run", "give"} \X {k}

(* They exclude each other, and each of them is one's only.                *)
OneHolder ==
    \A k \in Tasklets :
        /\ \A c \in Contexts : InCall(k, c) =>
              /\ \A d \in Contexts : InCall(k, d) => c = d
              /\ ~Queued(<<"run", k>>) /\ ~InDaemon(k)
        /\ Once(<<"run", k>>) /\ ~(Queued(<<"run", k>>) /\ InDaemon(k))
        /\ DtorLock[k] = 1 =>
              ~Queued(<<"run", k>>) /\ ~InDaemon(k) /\ \A c \in Contexts : ~InCall(k, c)
        /\ DtorLock[k] = 0 =>
              \/ tasklet[k] = "gone" \/ Queued(<<"run", k>>) \/ InDaemon(k)
              \/ \E c \in Contexts : InCall(k, c)

(* A destructor is alone with its tasklet, and leaves nothing behind.      *)
DyingAlone ==
    /\ \A c \in Contexts : where[c] \in Scheduling => tasklet[arg[c]] = "alive"
    /\ \A c \in Contexts : where[c] \in Deleting =>
          /\ tasklet[arg[c]] = "dying"
          /\ \A d \in Contexts : where[d] \in Scheduling \cup Deleting /\ arg[d] = arg[c] => c = d
    /\ \A k \in Tasklets : tasklet[k] = "gone" =>
          DtorLock[k] = 0 /\ ~Queued(<<"run", k>>) /\ ~InDaemon(k)

(* A timer that was quiet when its destruction began is never started.     *)
QuietTimers ==
    \A m \in Timers : quiet[m] =>
        /\ timer[m] # "alive" /\ m \notin active /\ executing # <<"expired", m>>
        /\ \A what \in {"start", "stop"} :
              /\ ~Queued(<<what, m>>)
              /\ \A c \in Contexts : where[c] = "m_send" => arg[c] # <<what, m>>

(* Interrupts and critical sections exclude each other, and the interrupt  *)
(* meets no hook that is gone.                                             *)
HooksListed ==
    /\ torn => critical # None
    /\ walk # <<>> => critical = None
    /\ \A c \in Contexts :
          /\ where[c] = "h_register" => hook[arg[c]] = "alive"
          /\ where[c] \in {"h_destroy", "h_remove"} => hook[arg[c]] # "alive"
    /\ \A h \in Hooks :
          /\ hook[h] = "gone" => h \notin ToSet(Callbacks) /\ h \notin ToSet(walk)
          /\ hook[h] # "alive" /\ Enabled[h] => ~disabled[h]

IInv == TypeOK /\ ArgsTyped /\ OneHolder /\ DyingAlone /\ QuietTimers /\ HooksListed

-----------------------------------------------------------------------------
(* What a send and a receive do to the queue.                              *)

(* A command that is sent is there, as often as before and once more.      *)
LEMMA SendStep ==
    ASSUME TypeOK, NEW x \in Commands, Send(x)
    PROVE  /\ commands' \in Seq(Commands) /\ Len(commands') <= QueueLength
           /\ \A y : Queued(y)' <=> Queued(y) \/ y = x
           /\ \A y : Once(y) /\ (Queued(y) => y # x) => Once(y)'
<1>1. commands \in Seq(Commands) /\ Len(commands) <= QueueLength /\ QueueLength \in Nat
  BY TimerDaemonAssumption DEF TypeOK
<1>2. commands' = Append(commands, x) /\ Len(commands) # QueueLength
  BY DEF Send, Full
<1>3. /\ commands' \in Seq(Commands) /\ Len(commands) \in Nat /\ DOMAIN commands = 1 .. Len(commands)
      /\ Len(commands') = Len(commands) + 1 /\ DOMAIN commands' = 1 .. Len(commands) + 1
      /\ \A i \in DOMAIN commands : commands'[i] = commands[i]
      /\ commands'[Len(commands) + 1] = x
  BY <1>1, <1>2, AppendAt
<1>4. \A i \in DOMAIN commands' : i \in DOMAIN commands \/ i = Len(commands) + 1
  BY <1>3
<1>5. \A y : Queued(y)' <=> Queued(y) \/ y = x
  BY <1>1, <1>2, AppendSet DEF Queued
<1>6. ASSUME NEW y, Once(y), Queued(y) => y # x PROVE Once(y)'
  <2>1. ASSUME NEW i \in DOMAIN commands', NEW j \in DOMAIN commands',
               commands'[i] = y, commands'[j] = y
        PROVE  i = j
    <3>1. \A k \in DOMAIN commands : commands[k] = y => y # x
      BY <1>6 DEF Queued, ToSet
    <3>2. CASE y = x
      BY <1>3, <1>4, <2>1, <3>1, <3>2
    <3>3. CASE y # x
      <4>1. i \in DOMAIN commands /\ j \in DOMAIN commands
        BY <1>3, <1>4, <2>1, <3>3, SMTT(30)
      <4> QED
        BY <1>3, <1>6, <2>1, <4>1 DEF Once
    <3> QED
      BY <3>2, <3>3
  <2> QED
    BY <2>1 DEF Once
<1>7. Len(commands') <= QueueLength
  <2>1. Len(commands) # QueueLength
    BY <1>2
  <2>2. Len(commands) \in Nat /\ QueueLength \in Nat /\ Len(commands) <= QueueLength
    BY <1>1, <1>3
  <2>3. Len(commands) + 1 <= QueueLength
    BY <2>1, <2>2
  <2> QED
    BY <1>3, <2>3
<1> QED
  BY <1>3, <1>5, <1>6, <1>7

(* A command that is received was there, and if it was there once it is    *)
(* not any more.                                                           *)
LEMMA ReceiveStep ==
    ASSUME TypeOK, Receive, NEW x, x = Head(commands)
    PROVE  /\ commands' \in Seq(Commands) /\ Len(commands') <= QueueLength
           /\ x \in Commands
           /\ \A y : Queued(y) <=> Queued(y)' \/ y = x
           /\ \A y : Once(y) => Once(y)' /\ (y = x => ~Queued(y)')
<1>1. commands \in Seq(Commands) /\ Len(commands) <= QueueLength /\ QueueLength \in Nat
  BY TimerDaemonAssumption DEF TypeOK
<1>2. commands' = Tail(commands) /\ commands # <<>>
  BY DEF Receive
<1>3. commands' \in Seq(Commands) /\ x \in Commands /\ ToSet(commands) = ToSet(commands') \cup {x}
  BY <1>1, <1>2, TailSet
<1>4. /\ x = commands[1] /\ Len(commands) \in Nat \ {0} /\ DOMAIN commands = 1 .. Len(commands)
      /\ Len(commands') = Len(commands) - 1 /\ DOMAIN commands' = 1 .. Len(commands) - 1
      /\ \A i \in DOMAIN commands' : i + 1 \in DOMAIN commands /\ commands'[i] = commands[i + 1]
  BY <1>1, <1>2, TailAt
<1>5. ASSUME NEW y, Once(y) PROVE Once(y)' /\ (y = x => ~Queued(y)')
  BY <1>4, <1>5 DEF Once, Queued, ToSet
<1> QED
  BY <1>1, <1>3, <1>4, <1>5 DEF Queued

(* What is left of the list when a hook is removed are other hooks.        *)
LEMMA RestStep ==
    ASSUME TypeOK, NEW h \in Hooks, NEW r \in Rest(h)
    PROVE  r \in Seq(Hooks) /\ ToSet(r) \subseteq ToSet(Callbacks) \ {h}
<1> DEFINE others == {i \in DOMAIN Callbacks : Callbacks[i] # h}
<1>1. /\ DOMAIN Callbacks = 1 .. Len(Callbacks) /\ Len(Callbacks) \in Nat
      /\ \A i \in DOMAIN Callbacks : Callbacks[i] \in Hooks
  BY LenProperties, ElementOfSeq DEF TypeOK
<1>2. Cardinality(others) \in Nat
  <2>1. others \subseteq 1 .. Len(Callbacks) /\ IsFiniteSet(1 .. Len(Callbacks))
    BY <1>1, FS_Interval
  <2> QED
    BY <2>1, FS_Subset, FS_CardinalityType
<1>3. PICK f \in [1 .. Cardinality(others) -> others] : r = [i \in DOMAIN f |-> Callbacks[f[i]]]
  BY DEF Rest
<1>4. /\ DOMAIN r = 1 .. Cardinality(others)
      /\ \A i \in DOMAIN r : r[i] = Callbacks[f[i]] /\ f[i] \in DOMAIN Callbacks /\ r[i] # h
  BY <1>3
<1>5. r \in [1 .. Cardinality(others) -> Hooks]
  BY <1>1, <1>3, <1>4
<1> HIDE DEF others
<1> QED
  BY <1>2, <1>4, <1>5, SeqDef DEF ToSet

-----------------------------------------------------------------------------
(* The types.                                                              *)

(* They hold at first.                                                     *)
LEMMA InitTyped == Init => TypeOK /\ ArgsTyped
<1> SUFFICES ASSUME Init PROVE TypeOK /\ ArgsTyped
  OBVIOUS
<1> USE DEF Init, DaemonInit, TaskletInit, TimerInit, HookInit
<1>1. <<>> \in Seq(Commands) /\ <<>> \in Seq(Hooks) /\ Len(<<>>) <= QueueLength
  BY TimerDaemonAssumption
<1>2. TypeOK
  BY <1>1 DEF TypeOK
<1> QED
  BY <1>2 DEF ArgsTyped, Scheduling, Deleting

(* Every call, step in a call or timeout keeps them.                       *)
LEMMA ClientTyped ==
    ASSUME TypeOK, ArgsTyped, NEW c \in Contexts, Call(c) \/ Step(c) \/ TimesOut(c)
    PROVE  TypeOK' /\ ArgsTyped'
<1> USE DEF TypeOK, ArgsTyped, Scheduling, Deleting, Enter, Return, Go, daemonVars, taskletVars,
            timerVars, hookVars, EnterCritical, ExitCritical
<1>1. CASE Call(c)
  <2>1. ASSUME NEW k \in Tasklets, Schedule(c, k) \/ DestroyTasklet(c, k),
               UNCHANGED <<timerVars, hookVars>>
        PROVE  TypeOK' /\ ArgsTyped'
    <3>1. ArgsTyped'
      BY <2>1 DEF Schedule, DestroyTasklet
    <3>2. CASE Schedule(c, k)
      BY <2>1, <3>1, <3>2 DEF Schedule
    <3>3. CASE DestroyTasklet(c, k)
      BY <2>1, <3>1, <3>3 DEF DestroyTasklet
    <3> QED
      BY <2>1, <3>2, <3>3
  <2>2. ASSUME NEW m \in Timers, UNCHANGED <<taskletVars, hookVars>>,
               DestroyTimer(c, m) \/ \E what \in {"start", "stop"} : CallTimer(c, m, what)
        PROVE  TypeOK' /\ ArgsTyped'
    <3>1. CASE DestroyTimer(c, m)
      BY <2>2, <3>1 DEF DestroyTimer
    <3>2. ASSUME NEW what \in {"start", "stop"}, CallTimer(c, m, what)
          PROVE  TypeOK' /\ ArgsTyped'
      <4>1. <<what, m>> \in Commands /\ <<what, m>> \in {"start", "stop"} \X Timers
        BY DEF Commands
      <4> QED
        BY <2>2, <3>2, <4>1 DEF CallTimer
    <3> QED
      BY <2>2, <3>1, <3>2
  <2>3. ASSUME NEW h \in Hooks, UNCHANGED <<taskletVars, timerVars>>,
               \/ Register(c, h) \/ DestroyHook(c, h)
               \/ \E value \in BOOLEAN : SetEnabled(c, h, value)
        PROVE  TypeOK' /\ ArgsTyped'
    <3>1. CASE Register(c, h)
      BY <2>3, <3>1 DEF Register
    <3>2. CASE DestroyHook(c, h)
      BY <2>3, <3>2 DEF DestroyHook
    <3>3. ASSUME NEW value \in BOOLEAN, SetEnabled(c, h, value) PROVE TypeOK' /\ ArgsTyped'
      BY <2>3, <3>3 DEF SetEnabled
    <3> QED
      BY <2>3, <3>1, <3>2, <3>3
  <2> QED
    BY <1>1, <2>1, <2>2, <2>3 DEF Call
<1>2. CASE Step(c)
  <2>1. CASE TaskletStep(c) /\ UNCHANGED <<timerVars, hookVars>>
    <3>1. CASE PendFunctionCall(c)
      <4>1. <<"run", arg[c]>> \in Commands
        BY <3>1 DEF PendFunctionCall, Commands
      <4> QED
        BY <2>1, <3>1, <4>1, SendStep DEF PendFunctionCall
    <3>2. CASE ScheduleTake(c)
      BY <2>1, <3>2 DEF ScheduleTake, TakeDtorLock
    <3>3. CASE CheckForSafeDelete(c)
      BY <2>1, <3>3 DEF CheckForSafeDelete, TakeDtorLock
    <3>4. CASE ScheduleFails(c)
      BY <2>1, <3>4 DEF ScheduleFails, GiveDtorLock
    <3>5. CASE TaskletGone(c)
      BY <2>1, <3>5 DEF TaskletGone
    <3> QED
      BY <2>1, <3>1, <3>2, <3>3, <3>4, <3>5 DEF TaskletStep
  <2>2. CASE TimerStep(c) /\ UNCHANGED <<taskletVars, hookVars>>
    <3>1. CASE SendTimerCommand(c)
      <4>1. arg[c] \in Commands
        BY <3>1 DEF SendTimerCommand, Commands
      <4> QED
        BY <2>2, <3>1, <4>1, SendStep DEF SendTimerCommand
    <3>2. CASE SendDelete(c)
      <4>1. <<"delete", arg[c]>> \in Commands
        BY <3>2 DEF SendDelete, Commands
      <4> QED
        BY <2>2, <3>2, <4>1, SendStep DEF SendDelete
    <3> QED
      BY <2>2, <3>1, <3>2 DEF TimerStep
  <2>3. CASE HookStep(c) /\ UNCHANGED <<taskletVars, timerVars>>
    <3>1. CASE PushFront(c)
      <4>1. <<arg[c]>> \o Callbacks \in Seq(Hooks)
        BY <3>1, ConcatProperties DEF PushFront
      <4> QED
        BY <2>3, <3>1, <4>1 DEF PushFront
    <3>2. CASE Unregister(c)
      BY <2>3, <3>2 DEF Unregister
    <3>3. CASE RemoveHook(c)
      <4>1. Callbacks' \in Seq(Hooks)
        BY <3>3, RestStep DEF RemoveHook
      <4> QED
        BY <2>3, <3>3, <4>1 DEF RemoveHook
    <3> QED
      BY <2>3, <3>1, <3>2, <3>3 DEF HookStep
  <2> QED
    BY <1>2, <2>1, <2>2, <2>3 DEF Step
<1>3. CASE TimesOut(c)
  <2>1. CASE PendTimesOut(c) /\ UNCHANGED <<timerVars, hookVars>>
    BY <2>1 DEF PendTimesOut
  <2>2. CASE TimerCommandTimesOut(c) /\ UNCHANGED <<taskletVars, hookVars>>
    BY <2>2 DEF TimerCommandTimesOut
  <2> QED
    BY <1>3, <2>1, <2>2 DEF TimesOut
<1> QED
  BY <1>1, <1>2, <1>3

(* And so does every step of the daemon and of the interrupt.              *)
LEMMA TypedNext == TypeOK /\ ArgsTyped /\ [Next]_vars => TypeOK' /\ ArgsTyped'
<1> SUFFICES ASSUME TypeOK, ArgsTyped, [Next]_vars PROVE TypeOK' /\ ArgsTyped'
  OBVIOUS
<1> USE DEF TypeOK, ArgsTyped, Scheduling, Deleting, daemonVars, taskletVars, timerVars, hookVars
<1>1. CASE UNCHANGED vars
  BY <1>1 DEF vars
<1>2. CASE Receives
  <2>1. CASE ReceiveRun
    <3>1. Head(commands) \in {"run"} \X Tasklets
      BY <2>1, ReceiveStep DEF ReceiveRun, Commands
    <3>2. Receive
      BY <2>1 DEF ReceiveRun
    <3> QED
      BY <1>2, <2>1, <3>1, <3>2, ReceiveStep DEF Receives, ReceiveRun
  <2>2. CASE ReceiveTimerCommand
    <3>1. Receive /\ Head(commands)[1] # "run" /\ Head(commands) \in Commands
      BY <2>2, ReceiveStep DEF ReceiveTimerCommand
    <3>2. Head(commands)[2] \in Timers
      BY <3>1 DEF Commands
    <3>3. commands' \in Seq(Commands) /\ Len(commands') <= QueueLength
      BY <3>1, ReceiveStep
    <3> QED
      BY <1>2, <2>2, <3>2, <3>3 DEF Receives, ReceiveTimerCommand
  <2> QED
    BY <1>2, <2>1, <2>2 DEF Receives
<1>3. CASE Returns
  <2>1. CASE PendedReturns /\ UNCHANGED <<timerVars, hookVars>>
    <3>1. PICK k \in Tasklets : executing' = <<"give", k>>
      BY <2>1 DEF PendedReturns
    <3> QED
      BY <2>1, <3>1 DEF PendedReturns
  <2>2. CASE AdapterGives /\ UNCHANGED <<timerVars, hookVars>>
    BY <2>2 DEF AdapterGives, GiveDtorLock
  <2>3. CASE CallbackReturns /\ UNCHANGED <<taskletVars, timerVars, hookVars>>
    BY <2>3 DEF CallbackReturns
  <2> QED
    BY <1>3, <2>1, <2>2, <2>3 DEF Returns
<1>4. CASE Expires
  <2>1. PICK m \in Timers : Expire(m) /\ UNCHANGED <<taskletVars, timerVars, hookVars>>
    BY <1>4 DEF Expires
  <2>2. executing' = <<"expired", m>> /\ active' \subseteq Timers
    BY <2>1 DEF Expire
  <2> QED
    BY <2>1, <2>2 DEF Expire
<1>5. CASE Interrupt
  <2>0. walk # <<>> => Tail(walk) \in Seq(Hooks)
    BY TailSet
  <2>1. CASE (TickInterrupt \/ VisitHook) /\ UNCHANGED <<taskletVars, timerVars>>
    BY <2>0, <2>1 DEF TickInterrupt, VisitHook, VisitDone
  <2>2. ASSUME NEW k \in Tasklets, RunHook /\ ScheduleFromISR(k) /\ UNCHANGED timerVars
        PROVE  TypeOK' /\ ArgsTyped'
    <3>1. <<"run", k>> \in Commands
      BY DEF Commands
    <3>2. commands' \in Seq(Commands) /\ Len(commands') <= QueueLength
      BY <2>2, <3>1, SendStep DEF ScheduleFromISR
    <3> QED
      BY <2>0, <2>2, <3>2 DEF RunHook, VisitDone, ScheduleFromISR, TakeDtorLock
  <2>3. ASSUME NEW m \in Timers, NEW what \in {"start", "stop"},
               RunHook /\ TimerFromISR(m, what) /\ UNCHANGED taskletVars
        PROVE  TypeOK' /\ ArgsTyped'
    <3>1. <<what, m>> \in Commands
      BY DEF Commands
    <3>2. commands' \in Seq(Commands) /\ Len(commands') <= QueueLength
      BY <2>3, <3>1, SendStep DEF TimerFromISR
    <3> QED
      BY <2>0, <2>3, <3>2 DEF RunHook, VisitDone, TimerFromISR
  <2>4. ASSUME NEW k \in Tasklets, RunHook /\ ScheduleFromISRFails(k) /\ UNCHANGED timerVars
        PROVE  TypeOK' /\ ArgsTyped'
    BY <2>0, <2>4 DEF RunHook, VisitDone, ScheduleFromISRFails
  <2> QED
    BY <1>5, <2>1, <2>2, <2>3, <2>4 DEF Interrupt
<1> QED
  BY <1>1, <1>2, <1>3, <1>4, <1>5, ClientTyped DEF Next

-----------------------------------------------------------------------------
(* Tasklets.                                                               *)

Holding == OneHolder /\ DyingAlone

(* What no tasklet is in is no matter to them.                             *)
LEMMA HoldingElsewhere ==
    ASSUME Holding, UNCHANGED taskletVars,
           \A k \in Tasklets : /\ Queued(<<"run", k>>)' <=> Queued(<<"run", k>>)
                               /\ Once(<<"run", k>>) => Once(<<"run", k>>)'
                               /\ InDaemon(k)' <=> InDaemon(k),
           \A c \in Contexts : \/ where'[c] = where[c] /\ arg'[c] = arg[c]
                               \/ /\ where[c] \notin Scheduling \cup Deleting
                                  /\ where'[c] \notin Scheduling \cup Deleting
    PROVE  Holding'
<1>1. ASSUME NEW c \in Contexts
      PROVE  /\ where'[c] \in Scheduling <=> where[c] \in Scheduling
             /\ where'[c] \in Deleting <=> where[c] \in Deleting
             /\ where[c] \in Scheduling \cup Deleting => arg'[c] = arg[c]
             /\ \A k : InCall(k, c)' <=> InCall(k, c)
  BY DEF InCall, Scheduling, Deleting
<1>2. DtorLock' = DtorLock /\ tasklet' = tasklet
  BY DEF taskletVars
<1>3. OneHolder'
  <2>1. ASSUME NEW k \in Tasklets, NEW c \in Contexts, InCall(k, c)'
        PROVE  /\ \A d \in Contexts : InCall(k, d)' => c = d
               /\ ~Queued(<<"run", k>>)' /\ ~InDaemon(k)'
    BY <1>1, <2>1 DEF Holding, OneHolder
  <2>2. ASSUME NEW k \in Tasklets
        PROVE  Once(<<"run", k>>)' /\ ~(Queued(<<"run", k>>)' /\ InDaemon(k)')
    BY DEF Holding, OneHolder
  <2>3. ASSUME NEW k \in Tasklets, DtorLock'[k] = 1
        PROVE  ~Queued(<<"run", k>>)' /\ ~InDaemon(k)' /\ \A c \in Contexts : ~InCall(k, c)'
    BY <1>1, <1>2, <2>3 DEF Holding, OneHolder
  <2>4. ASSUME NEW k \in Tasklets, DtorLock'[k] = 0
        PROVE  \/ tasklet'[k] = "gone" \/ Queued(<<"run", k>>)' \/ InDaemon(k)'
               \/ \E c \in Contexts : InCall(k, c)'
    BY <1>1, <1>2, <2>4 DEF Holding, OneHolder
  <2> QED
    BY <2>1, <2>2, <2>3, <2>4, Zenon DEF OneHolder
<1>4. DyingAlone'
  <2>1. ASSUME NEW c \in Contexts, where'[c] \in Scheduling PROVE tasklet'[arg'[c]] = "alive"
    BY <1>1, <1>2, <2>1 DEF Holding, DyingAlone
  <2>2. ASSUME NEW c \in Contexts, where'[c] \in Deleting
        PROVE  /\ tasklet'[arg'[c]] = "dying"
               /\ \A d \in Contexts : where'[d] \in Scheduling \cup Deleting /\ arg'[d] = arg'[c] => c = d
    BY <1>1, <1>2, <2>2 DEF Holding, DyingAlone
  <2>3. ASSUME NEW k \in Tasklets, tasklet'[k] = "gone"
        PROVE  DtorLock'[k] = 0 /\ ~Queued(<<"run", k>>)' /\ ~InDaemon(k)'
    BY <1>2, <2>3 DEF Holding, DyingAlone
  <2> QED
    BY <2>1, <2>2, <2>3 DEF DyingAlone, Scheduling, Deleting
<1> QED
  BY <1>3, <1>4 DEF Holding

(* The calls of a tasklet.                                                 *)
LEMMA HoldingCall ==
    ASSUME TypeOK, ArgsTyped, Holding, NEW c \in Contexts,
           \/ \E k \in Tasklets : Schedule(c, k) \/ DestroyTasklet(c, k)
           \/ TaskletStep(c) \/ PendTimesOut(c)
    PROVE  Holding'
<1> USE DEF TypeOK, ArgsTyped, Holding, OneHolder, DyingAlone, InCall, Scheduling, Deleting,
            taskletVars, Enter, Go, Return
<1>0. ASSUME NEW k \in Tasklets, UNCHANGED executing PROVE InDaemon(k)' <=> InDaemon(k)
  BY <1>0 DEF InDaemon
<1>1. ASSUME UNCHANGED commands, NEW y
      PROVE  (Queued(y)' <=> Queued(y)) /\ (Once(y)' <=> Once(y))
  BY <1>1 DEF Queued, Once
<1>2. ASSUME NEW k \in Tasklets, Schedule(c, k) PROVE Holding'
  BY <1>0, <1>1, <1>2 DEF Schedule, daemonVars
<1>3. ASSUME NEW k \in Tasklets, DestroyTasklet(c, k) PROVE Holding'
  BY <1>0, <1>1, <1>3 DEF DestroyTasklet, daemonVars
<1>4. CASE ScheduleTake(c)
  BY <1>0, <1>1, <1>4 DEF ScheduleTake, TakeDtorLock, daemonVars
<1>5. CASE PendFunctionCall(c)
  <2>1. <<"run", arg[c]>> \in Commands
    BY <1>5 DEF PendFunctionCall, Commands
  <2>2. /\ \A y : Queued(y)' <=> Queued(y) \/ y = <<"run", arg[c]>>
        /\ \A y : Once(y) /\ (Queued(y) => y # <<"run", arg[c]>>) => Once(y)'
    BY <1>5, <2>1, SendStep DEF PendFunctionCall
  <2>3. InCall(arg[c], c) /\ arg[c] \in Tasklets /\ tasklet[arg[c]] = "alive"
    BY <1>5 DEF PendFunctionCall
  <2> QED
    BY <1>0, <1>5, <2>2, <2>3 DEF PendFunctionCall
<1>6. CASE ScheduleFails(c)
  BY <1>0, <1>1, <1>6 DEF ScheduleFails, GiveDtorLock, daemonVars
<1>7. CASE CheckForSafeDelete(c)
  BY <1>0, <1>1, <1>7 DEF CheckForSafeDelete, TakeDtorLock, daemonVars
<1>8. CASE TaskletGone(c)
  BY <1>0, <1>1, <1>8 DEF TaskletGone, daemonVars
<1>9. CASE PendTimesOut(c)
  BY <1>0, <1>1, <1>9 DEF PendTimesOut, daemonVars
<1>10. CASE TaskletStep(c)
  BY <1>4, <1>5, <1>6, <1>7, <1>8, <1>10, Zenon DEF TaskletStep
<1>11. CASE \E k \in Tasklets : Schedule(c, k) \/ DestroyTasklet(c, k)
  BY <1>2, <1>3, <1>11, Zenon
<1> QED
  BY <1>9, <1>10, <1>11, Zenon

(* The interrupt takes DtorLock only if it can send.                       *)
LEMMA HoldingISR ==
    ASSUME TypeOK, ArgsTyped, Holding, NEW k \in Tasklets, ScheduleFromISR(k)
    PROVE  Holding'
<1>1. <<"run", k>> \in Commands
  BY DEF Commands
<1>2. /\ \A y : Queued(y)' <=> Queued(y) \/ y = <<"run", k>>
      /\ \A y : Once(y) /\ (Queued(y) => y # <<"run", k>>) => Once(y)'
  BY <1>1, SendStep DEF ScheduleFromISR
<1>3. ASSUME NEW l \in Tasklets PROVE InDaemon(l)' <=> InDaemon(l)
  BY DEF ScheduleFromISR, InDaemon
<1>4. \A l \in Tasklets : <<"run", l>> = <<"run", k>> => l = k
  OBVIOUS
<1> QED
  BY <1>2, <1>3, <1>4
  DEF ScheduleFromISR, TakeDtorLock, Holding, OneHolder, DyingAlone, InCall, TypeOK, ArgsTyped,
      Scheduling, Deleting

(* The daemon takes the command off the queue, runs it and gives.          *)
LEMMA HoldingDaemon ==
    ASSUME TypeOK, ArgsTyped, Holding,
           (ReceiveRun /\ UNCHANGED taskletVars) \/ PendedReturns \/ AdapterGives
    PROVE  Holding'
<1> USE DEF Holding, OneHolder, DyingAlone, InCall
<1>1. CASE ReceiveRun /\ UNCHANGED taskletVars
  <2>1. Receive
    BY <1>1 DEF ReceiveRun
  <2>2. PICK k \in Tasklets : Head(commands) = <<"run", k>>
    BY <1>1, <2>1, ReceiveStep DEF ReceiveRun, Commands
  <2>3. /\ \A y : Queued(y) <=> Queued(y)' \/ y = <<"run", k>>
        /\ \A y : Once(y) => Once(y)' /\ (y = <<"run", k>> => ~Queued(y)')
    BY <2>1, <2>2, ReceiveStep
  <2>4. ASSUME NEW l \in Tasklets PROVE ~InDaemon(l) /\ (InDaemon(l)' <=> l = k)
    BY <1>1, <2>1, <2>2, TimerDaemonAssumption DEF ReceiveRun, Receive, InDaemon
  <2>5. \A l \in Tasklets : <<"run", l>> = <<"run", k>> <=> l = k
    OBVIOUS
  <2> QED
    BY <1>1, <2>3, <2>4, <2>5 DEF ReceiveRun, taskletVars
<1>2. CASE PendedReturns
  <2>1. ASSUME NEW k \in Tasklets PROVE InDaemon(k)' <=> InDaemon(k)
    BY <1>2 DEF PendedReturns, InDaemon
  <2>2. ASSUME NEW y PROVE (Queued(y)' <=> Queued(y)) /\ (Once(y)' <=> Once(y))
    BY <1>2 DEF PendedReturns, Queued, Once
  <2> QED
    BY <1>2, <2>1, <2>2, HoldingElsewhere DEF PendedReturns
<1>3. CASE AdapterGives
  <2>1. PICK k \in Tasklets : executing = <<"give", k>> /\ GiveDtorLock(k)
    BY <1>3 DEF AdapterGives
  <2>2. ASSUME NEW l \in Tasklets PROVE ~InDaemon(l)' /\ (InDaemon(l) <=> l = k)
    BY <1>3, <2>1, TimerDaemonAssumption DEF AdapterGives, InDaemon
  <2>3. ASSUME NEW y PROVE (Queued(y)' <=> Queued(y)) /\ (Once(y)' <=> Once(y))
    BY <1>3 DEF AdapterGives, Queued, Once
  <2> QED
    BY <1>3, <2>1, <2>2, <2>3
    DEF AdapterGives, GiveDtorLock, TypeOK, ArgsTyped, Scheduling, Deleting
<1> QED
  BY <1>1, <1>2, <1>3

(* All the others leave tasklets alone.                                    *)
LEMMA HoldingNext == TypeOK /\ ArgsTyped /\ Holding /\ [Next]_vars => Holding'
<1> SUFFICES ASSUME TypeOK, ArgsTyped, Holding, [Next]_vars PROVE Holding'
  OBVIOUS
<1>0. ASSUME UNCHANGED <<taskletVars, executing>>,
             \/ UNCHANGED commands
             \/ \E x \in Commands : x[1] # "run" /\ Send(x)
             \/ Receive /\ Head(commands)[1] # "run",
             \A c \in Contexts : \/ where'[c] = where[c] /\ arg'[c] = arg[c]
                                 \/ /\ where[c] \notin Scheduling \cup Deleting
                                    /\ where'[c] \notin Scheduling \cup Deleting
      PROVE  Holding'
  <2>1. ASSUME NEW k \in Tasklets
        PROVE  /\ Queued(<<"run", k>>)' <=> Queued(<<"run", k>>)
               /\ Once(<<"run", k>>) => Once(<<"run", k>>)'
               /\ InDaemon(k)' <=> InDaemon(k)
    <3>1. CASE UNCHANGED commands
      BY <1>0, <3>1 DEF Queued, Once, InDaemon
    <3>2. ASSUME NEW x \in Commands, x[1] # "run", Send(x)
          PROVE  /\ Queued(<<"run", k>>)' <=> Queued(<<"run", k>>)
                 /\ Once(<<"run", k>>) => Once(<<"run", k>>)'
      <4>1. x # <<"run", k>>
        BY <3>2
      <4> QED
        BY <3>2, <4>1, SendStep
    <3>3. ASSUME Receive, Head(commands)[1] # "run"
          PROVE  /\ Queued(<<"run", k>>)' <=> Queued(<<"run", k>>)
                 /\ Once(<<"run", k>>) => Once(<<"run", k>>)'
      <4>1. Head(commands) # <<"run", k>>
        BY <3>3
      <4> QED
        BY <3>3, <4>1, ReceiveStep
    <3>4. InDaemon(k)' <=> InDaemon(k)
      BY <1>0 DEF InDaemon
    <3> QED
      BY <1>0, <3>1, <3>2, <3>3, <3>4
  <2> QED
    BY <1>0, <2>1, HoldingElsewhere
<1> USE DEF Enter, Go, Return, TypeOK, Scheduling, Deleting, daemonVars
<1>1. CASE UNCHANGED vars
  BY <1>0, <1>1 DEF vars
<1>2. ASSUME NEW c \in Contexts, Call(c) PROVE Holding'
  <2>1. ASSUME NEW m \in Timers, UNCHANGED taskletVars,
               DestroyTimer(c, m) \/ \E what \in {"start", "stop"} : CallTimer(c, m, what)
        PROVE  Holding'
    BY <1>0, <2>1 DEF DestroyTimer, CallTimer
  <2>2. ASSUME NEW h \in Hooks, UNCHANGED taskletVars,
               \/ Register(c, h) \/ DestroyHook(c, h)
               \/ \E value \in BOOLEAN : SetEnabled(c, h, value)
        PROVE  Holding'
    BY <1>0, <2>2 DEF Register, DestroyHook, SetEnabled
  <2> QED
    BY <1>2, <2>1, <2>2, HoldingCall DEF Call
<1>3. ASSUME NEW c \in Contexts, Step(c) PROVE Holding'
  <2>1. CASE TimerStep(c) /\ UNCHANGED taskletVars
    <3>1. CASE SendTimerCommand(c)
      <4>1. arg[c] \in Commands /\ arg[c][1] # "run"
        BY <3>1 DEF SendTimerCommand, ArgsTyped, Commands
      <4> QED
        BY <1>0, <2>1, <3>1, <4>1 DEF SendTimerCommand
    <3>2. CASE SendDelete(c)
      <4>1. <<"delete", arg[c]>> \in Commands
        BY <3>2 DEF SendDelete, ArgsTyped, Commands
      <4> QED
        BY <1>0, <2>1, <3>2, <4>1 DEF SendDelete
    <3> QED
      BY <2>1, <3>1, <3>2 DEF TimerStep
  <2>2. CASE HookStep(c) /\ UNCHANGED taskletVars
    BY <1>0, <2>2 DEF HookStep, PushFront, Unregister, RemoveHook
  <2> QED
    BY <1>3, <2>1, <2>2, HoldingCall DEF Step
<1>4. ASSUME NEW c \in Contexts, TimesOut(c) PROVE Holding'
  <2>1. CASE TimerCommandTimesOut(c) /\ UNCHANGED taskletVars
    BY <1>0, <2>1 DEF TimerCommandTimesOut
  <2> QED
    BY <1>4, <2>1, HoldingCall DEF TimesOut
<1>5. CASE Receives
  <2>1. CASE ReceiveTimerCommand /\ UNCHANGED taskletVars
    BY <1>0, <2>1 DEF ReceiveTimerCommand
  <2> QED
    BY <1>5, <2>1, HoldingDaemon DEF Receives
<1>7. ASSUME UNCHANGED <<taskletVars, commands, where, arg>>,
             executing \in {None} \cup ({"expired"} \X Timers),
             executing' \in {None} \cup ({"expired"} \X Timers)
      PROVE  Holding'
  <2>1. ASSUME NEW k \in Tasklets
        PROVE  /\ Queued(<<"run", k>>)' <=> Queued(<<"run", k>>)
               /\ Once(<<"run", k>>) => Once(<<"run", k>>)'
               /\ InDaemon(k)' <=> InDaemon(k)
    BY <1>7, TimerDaemonAssumption DEF Queued, Once, InDaemon
  <2> QED
    BY <1>7, <2>1, HoldingElsewhere
<1>8. CASE Returns
  <2>1. CASE CallbackReturns /\ UNCHANGED taskletVars
    BY <1>7, <2>1 DEF CallbackReturns
  <2> QED
    BY <1>8, <2>1, HoldingDaemon DEF Returns
<1>9. CASE Expires
  BY <1>7, <1>9 DEF Expires, Expire
<1>10. CASE Interrupt
  <2>1. CASE (TickInterrupt \/ VisitHook) /\ UNCHANGED taskletVars
    BY <1>0, <2>1 DEF TickInterrupt, VisitHook
  <2>2. ASSUME NEW m \in Timers, NEW what \in {"start", "stop"},
               TimerFromISR(m, what), UNCHANGED taskletVars
        PROVE  Holding'
    <3>1. <<what, m>> \in Commands /\ <<what, m>>[1] # "run"
      BY DEF Commands
    <3> QED
      BY <1>0, <2>2, <3>1 DEF TimerFromISR
  <2>3. ASSUME NEW k \in Tasklets, ScheduleFromISRFails(k) PROVE Holding'
    <3>1. DtorLock' = DtorLock
      BY <2>3 DEF ScheduleFromISRFails, TypeOK
    <3> QED
      BY <1>0, <2>3, <3>1 DEF ScheduleFromISRFails, taskletVars
  <2> QED
    BY <1>10, <2>1, <2>2, <2>3, HoldingISR DEF Interrupt
<1> QED
  BY <1>1, <1>2, <1>3, <1>4, <1>5, <1>8, <1>9, <1>10 DEF Next

-----------------------------------------------------------------------------
(* Timers.                                                                 *)

(* What starts no quiet timer, and sends none of its commands, is no       *)
(* matter to them.                                                         *)
LEMMA QuietElsewhere ==
    ASSUME QuietTimers, UNCHANGED quiet,
           \A m \in Timers : quiet[m] =>
               /\ timer'[m] # "alive" /\ m \notin active' /\ executing' # <<"expired", m>>
               /\ \A what \in {"start", "stop"} :
                     /\ Queued(<<what, m>>)' => Queued(<<what, m>>)
                     /\ \A c \in Contexts : where'[c] = "m_send" =>
                           arg'[c] # <<what, m>> \/ (where[c] = "m_send" /\ arg'[c] = arg[c])
    PROVE  QuietTimers'
BY DEF QuietTimers

(* They stay so in every step.                                             *)
LEMMA TimersNext == TypeOK /\ ArgsTyped /\ QuietTimers /\ [Next]_vars => QuietTimers'
<1> SUFFICES ASSUME TypeOK, ArgsTyped, QuietTimers, [Next]_vars PROVE QuietTimers'
  OBVIOUS
<1>0. ASSUME UNCHANGED <<timerVars, active>>,
             \/ UNCHANGED commands
             \/ \E x \in Commands :
                   /\ Send(x)
                   /\ \A m \in Timers, what \in {"start", "stop"} : quiet[m] => x # <<what, m>>
             \/ Receive,
             \/ UNCHANGED executing
             \/ \A m \in Timers : executing' # <<"expired", m>>,
             \A c \in Contexts : \/ where'[c] = where[c] /\ arg'[c] = arg[c]
                                 \/ where'[c] # "m_send"
      PROVE  QuietTimers'
  <2>1. ASSUME NEW m \in Timers, NEW what \in {"start", "stop"}, quiet[m]
        PROVE  Queued(<<what, m>>)' => Queued(<<what, m>>)
    <3>1. CASE UNCHANGED commands
      BY <3>1 DEF Queued
    <3>2. ASSUME NEW x \in Commands, Send(x), x # <<what, m>>
          PROVE  Queued(<<what, m>>)' => Queued(<<what, m>>)
      BY <3>2, SendStep
    <3>3. CASE Receive
      BY <3>3, ReceiveStep
    <3> QED
      BY <1>0, <2>1, <3>1, <3>2, <3>3
  <2>2. UNCHANGED quiet
    BY <1>0 DEF timerVars
  <2>3. ASSUME NEW m \in Timers, quiet[m]
        PROVE  timer'[m] # "alive" /\ m \notin active' /\ executing' # <<"expired", m>>
    BY <1>0, <2>3 DEF QuietTimers, timerVars
  <2>4. ASSUME NEW c \in Contexts, where'[c] = "m_send" PROVE where[c] = "m_send" /\ arg'[c] = arg[c]
    BY <1>0, <2>4
  <2> QED
    BY <2>1, <2>2, <2>3, <2>4, QuietElsewhere
<1> USE DEF Enter, Go, Return, TypeOK, daemonVars
<1>1. CASE UNCHANGED vars
  BY <1>0, <1>1 DEF vars
<1>2. ASSUME NEW c \in Contexts, Call(c) PROVE QuietTimers'
  <2>1. ASSUME NEW k \in Tasklets, UNCHANGED timerVars, Schedule(c, k) \/ DestroyTasklet(c, k)
        PROVE  QuietTimers'
    BY <1>0, <2>1 DEF Schedule, DestroyTasklet
  <2>2. ASSUME NEW h \in Hooks, UNCHANGED timerVars,
               \/ Register(c, h) \/ DestroyHook(c, h)
               \/ \E value \in BOOLEAN : SetEnabled(c, h, value)
        PROVE  QuietTimers'
    BY <1>0, <2>2 DEF Register, DestroyHook, SetEnabled
  <2>3. ASSUME NEW m \in Timers, NEW what \in {"start", "stop"}, CallTimer(c, m, what)
        PROVE  QuietTimers'
    <3>1. ~quiet[m] /\ timer' = timer /\ active' = active /\ executing' = executing
      BY <2>3 DEF CallTimer, QuietTimers, timerVars
    <3>2. ASSUME NEW y PROVE Queued(y)' <=> Queued(y)
      BY <2>3 DEF CallTimer, Queued
    <3>3. \A d \in Contexts : \/ where'[d] = where[d] /\ arg'[d] = arg[d]
                              \/ arg'[d] = <<what, m>>
      BY <2>3 DEF CallTimer
    <3>4. \A n \in Timers, w \in {"start", "stop"} : quiet[n] => <<what, m>> # <<w, n>>
      BY <3>1
    <3>5. UNCHANGED quiet
      BY <2>3 DEF CallTimer, timerVars
    <3>6. ASSUME NEW n \in Timers, quiet[n], NEW w \in {"start", "stop"}, NEW d \in Contexts, where'[d] = "m_send"
          PROVE  arg'[d] # <<w, n>>
      <4>1. where[d] = "m_send" => arg[d] # <<w, n>>
        BY <3>6 DEF QuietTimers
      <4>2. CASE where'[d] = where[d] /\ arg'[d] = arg[d]
        BY <3>6, <4>1, <4>2
      <4>3. CASE arg'[d] = <<what, m>>
        BY <3>4, <3>6, <4>3
      <4> QED
        BY <3>3, <4>2, <4>3
    <3> QED
      BY <3>1, <3>2, <3>5, <3>6 DEF QuietTimers
  <2>4. ASSUME NEW m \in Timers, DestroyTimer(c, m) PROVE QuietTimers'
    <3>1. /\ executing' = executing /\ active' = active
          /\ quiet' = [quiet EXCEPT ![m] = m \notin active /\ ~Pending(m) /\ executing # <<"expired", m>>]
          /\ timer' = [timer EXCEPT ![m] = "half"]
      BY <2>4 DEF DestroyTimer
    <3>2. ASSUME NEW y PROVE Queued(y)' <=> Queued(y)
      BY <2>4 DEF DestroyTimer, Queued
    <3>3. ~Pending(m) => \A what \in {"start", "stop"} : ~Queued(<<what, m>>)
      BY DEF Pending, Queued, ToSet
    <3>4. ASSUME NEW d \in Contexts, where'[d] = "m_send"
          PROVE  where[d] = "m_send" /\ arg'[d] = arg[d] /\ \A what \in {"start", "stop"} : arg[d] # <<what, m>>
      BY <2>4, <3>4 DEF DestroyTimer
    <3>5. ASSUME NEW n \in Timers, n # m PROVE quiet'[n] = quiet[n] /\ timer'[n] = timer[n]
      BY <3>1, <3>5
    <3>6. timer'[m] # "alive"
      BY <3>1
    <3>7. quiet'[m] => m \notin active /\ ~Pending(m) /\ executing # <<"expired", m>>
      BY <3>1
    <3>8. ASSUME NEW n \in Timers, quiet'[n]
          PROVE  /\ timer'[n] # "alive" /\ n \notin active' /\ executing' # <<"expired", n>>
                 /\ \A what \in {"start", "stop"} :
                       /\ ~Queued(<<what, n>>)'
                       /\ \A d \in Contexts : where'[d] = "m_send" => arg'[d] # <<what, n>>
      <4>1. CASE n = m
        <5>1. n \notin active' /\ executing' # <<"expired", n>> /\ ~Pending(n)
          BY <3>1, <3>7, <3>8, <4>1
        <5>2. \A what \in {"start", "stop"} : ~Queued(<<what, n>>)'
          BY <3>2, <3>3, <4>1, <5>1
        <5>3. \A what \in {"start", "stop"}, d \in Contexts :
                 where'[d] = "m_send" => arg'[d] # <<what, n>>
          BY <3>4, <4>1
        <5> QED
          BY <3>6, <4>1, <5>1, <5>2, <5>3
      <4>2. CASE n # m
        BY <3>1, <3>2, <3>4, <3>5, <3>8, <4>2 DEF QuietTimers
      <4> QED
        BY <4>1, <4>2
    <3> QED
      BY <3>8 DEF QuietTimers
  <2> QED
    BY <1>2, <2>1, <2>2, <2>3, <2>4 DEF Call
<1>3. ASSUME NEW c \in Contexts, Step(c) PROVE QuietTimers'
  <2>1. CASE TaskletStep(c) /\ UNCHANGED timerVars
    <3>1. CASE PendFunctionCall(c)
      <4>1. <<"run", arg[c]>> \in Commands
        BY <3>1 DEF PendFunctionCall, ArgsTyped, Scheduling, Commands
      <4> QED
        BY <1>0, <2>1, <3>1, <4>1 DEF PendFunctionCall
    <3>2. CASE ScheduleTake(c) \/ ScheduleFails(c) \/ CheckForSafeDelete(c) \/ TaskletGone(c)
      BY <1>0, <2>1, <3>2 DEF ScheduleTake, ScheduleFails, CheckForSafeDelete, TaskletGone
    <3> QED
      BY <2>1, <3>1, <3>2 DEF TaskletStep
  <2>2. CASE SendTimerCommand(c)
    <3>1. arg[c] \in Commands
      BY <2>2 DEF SendTimerCommand, ArgsTyped, Commands
    <3>2. \A m \in Timers, what \in {"start", "stop"} : quiet[m] => arg[c] # <<what, m>>
      BY <2>2 DEF SendTimerCommand, QuietTimers
    <3> QED
      BY <1>0, <2>2, <3>1, <3>2 DEF SendTimerCommand
  <2>3. CASE SendDelete(c)
    <3>1. <<"delete", arg[c]>> \in Commands /\ arg[c] \in Timers
      BY <2>3 DEF SendDelete, ArgsTyped, Commands
    <3>2. \A m \in Timers, what \in {"start", "stop"} : Queued(<<what, m>>)' => Queued(<<what, m>>)
      BY <2>3, <3>1, SendStep DEF SendDelete
    <3>3. \A d \in Contexts : where'[d] = "m_send" => where[d] = "m_send" /\ arg'[d] = arg[d]
      BY <2>3 DEF SendDelete
    <3>4. executing' = executing /\ active' = active /\ quiet' = quiet
      BY <2>3 DEF SendDelete
    <3>5. \A m \in Timers : timer[m] # "alive" => timer'[m] # "alive"
      BY <2>3, <3>1 DEF SendDelete
    <3>6. /\ UNCHANGED quiet
          /\ \A m \in Timers : quiet[m] =>
                timer'[m] # "alive" /\ m \notin active' /\ executing' # <<"expired", m>>
      BY <3>4, <3>5 DEF QuietTimers
    <3> QED
      BY <3>2, <3>3, <3>6, QuietElsewhere
  <2>4. CASE HookStep(c) /\ UNCHANGED timerVars
    BY <1>0, <2>4 DEF HookStep, PushFront, Unregister, RemoveHook
  <2> QED
    BY <1>3, <2>1, <2>2, <2>3, <2>4 DEF Step, TimerStep
<1>4. ASSUME NEW c \in Contexts, TimesOut(c) PROVE QuietTimers'
  BY <1>0, <1>4 DEF TimesOut, PendTimesOut, TimerCommandTimesOut
<1>5. CASE Receives
  <2>1. CASE ReceiveRun /\ UNCHANGED timerVars
    <3>1. Receive /\ executing'[1] = "run"
      BY <2>1 DEF ReceiveRun
    <3>2. \A m \in Timers : executing' # <<"expired", m>>
      BY <3>1
    <3> QED
      BY <1>0, <2>1, <3>1, <3>2 DEF ReceiveRun
  <2>2. CASE ReceiveTimerCommand /\ UNCHANGED timerVars
    <3> DEFINE what == Head(commands)[1]  m == Head(commands)[2]
    <3>1. Receive /\ what # "run" /\ Head(commands) \in Commands /\ Queued(Head(commands))
      BY <2>2, ReceiveStep DEF ReceiveTimerCommand
    <3>2. Head(commands) = <<what, m>> /\ what \in {"start", "stop", "delete"} /\ m \in Timers
      BY <3>1 DEF Commands
    <3>3. active' = IF what = "start" THEN active \cup {m} ELSE active \ {m}
      BY <2>2 DEF ReceiveTimerCommand
    <3>4. \A n \in Timers : quiet[n] => n \notin active'
      <4>1. ASSUME what = "start" PROVE ~quiet[m]
        <5>1. Queued(<<"start", m>>) /\ m \in Timers
          BY <3>1, <3>2, <4>1
        <5> HIDE DEF m
        <5> QED
          BY <5>1 DEF QuietTimers
      <4> HIDE DEF what, m
      <4> QED
        BY <3>3, <4>1 DEF QuietTimers
    <3>5. \A n \in Timers, w \in {"start", "stop"} : Queued(<<w, n>>)' => Queued(<<w, n>>)
      BY <3>1, ReceiveStep
    <3>6. UNCHANGED <<where, arg, executing, timer, quiet>>
      BY <2>2 DEF ReceiveTimerCommand, timerVars
    <3> HIDE DEF what, m
    <3> QED
      BY <3>4, <3>5, <3>6, QuietElsewhere DEF QuietTimers
  <2> QED
    BY <1>5, <2>1, <2>2 DEF Receives
<1>6. CASE Returns
  <2>1. CASE executing' = None /\ UNCHANGED <<timerVars, active, commands, where, arg>>
    BY <1>0, <2>1, TimerDaemonAssumption
  <2>2. CASE PendedReturns /\ UNCHANGED timerVars
    BY <1>0, <2>2 DEF PendedReturns
  <2> QED
    BY <1>6, <2>1, <2>2 DEF Returns, CallbackReturns, AdapterGives
<1>7. CASE Expires
  <2>1. PICK m \in Timers : Expire(m)
    BY <1>7 DEF Expires
  <2>2. ~quiet[m] /\ executing' = <<"expired", m>> /\ active' \subseteq active
    BY <2>1 DEF Expire, QuietTimers
  <2>3. \A n \in Timers : quiet[n] => executing' # <<"expired", n>>
    BY <2>2
  <2>4. UNCHANGED <<where, arg, commands, timer, quiet>>
    BY <1>7, <2>1 DEF Expires, Expire, timerVars
  <2>5. ASSUME NEW y PROVE Queued(y)' <=> Queued(y)
    BY <2>4 DEF Queued
  <2> QED
    BY <2>2, <2>3, <2>4, <2>5 DEF QuietTimers
<1>8. CASE Interrupt
  <2>1. CASE (TickInterrupt \/ VisitHook) /\ UNCHANGED timerVars
    BY <1>0, <2>1 DEF TickInterrupt, VisitHook
  <2>2. ASSUME NEW k \in Tasklets, ScheduleFromISR(k), UNCHANGED timerVars PROVE QuietTimers'
    <3>1. <<"run", k>> \in Commands /\ \A m \in Timers, what \in {"start", "stop"} : <<"run", k>> # <<what, m>>
      BY DEF Commands
    <3> QED
      BY <1>0, <2>2, <3>1 DEF ScheduleFromISR
  <2>3. ASSUME NEW m \in Timers, NEW what \in {"start", "stop"}, TimerFromISR(m, what)
        PROVE  QuietTimers'
    <3>1. <<what, m>> \in Commands /\ ~quiet[m]
      BY <2>3 DEF Commands, TimerFromISR, QuietTimers
    <3>2. \A n \in Timers, w \in {"start", "stop"} : quiet[n] => <<what, m>> # <<w, n>>
      BY <3>1
    <3> QED
      BY <1>0, <2>3, <3>1, <3>2 DEF TimerFromISR
  <2>4. ASSUME NEW k \in Tasklets, ScheduleFromISRFails(k), UNCHANGED timerVars PROVE QuietTimers'
    BY <1>0, <2>4 DEF ScheduleFromISRFails
  <2> QED
    BY <1>8, <2>1, <2>2, <2>3, <2>4 DEF Interrupt
<1> QED
  BY <1>1, <1>2, <1>3, <1>4, <1>5, <1>6, <1>7, <1>8 DEF Next

-----------------------------------------------------------------------------
(* Hooks.                                                                  *)

(* A hook that is pushed is on the list, with those that were there.       *)
LEMMA PushStep ==
    ASSUME NEW s \in Seq(Hooks), NEW h \in Hooks
    PROVE  ToSet(<<h>> \o s) = {h} \cup ToSet(s)
<1>1. /\ Len(s) \in Nat /\ DOMAIN s = 1 .. Len(s)
      /\ <<h>> \o s \in Seq(Hooks) /\ Len(<<h>> \o s) = 1 + Len(s)
  BY ConcatProperties, LenProperties
<1>2. \A i \in 1 .. 1 + Len(s) : (<<h>> \o s)[i] = IF i = 1 THEN h ELSE s[i - 1]
  BY <1>1
<1>3. DOMAIN (<<h>> \o s) = 1 .. 1 + Len(s)
  BY <1>1
<1>4. ASSUME NEW x \in ToSet(s) PROVE x \in ToSet(<<h>> \o s)
  <2>1. PICK i \in 1 .. Len(s) : s[i] = x
    BY <1>1 DEF ToSet
  <2>2. i + 1 \in 1 .. 1 + Len(s) /\ i + 1 # 1 /\ (i + 1) - 1 = i
    BY <1>1
  <2>3. (<<h>> \o s)[i + 1] = x
    BY <1>2, <2>1, <2>2
  <2> QED
    BY <1>3, <2>2, <2>3 DEF ToSet
<1>5. ASSUME NEW x \in ToSet(<<h>> \o s) PROVE x \in {h} \cup ToSet(s)
  <2>1. PICK i \in 1 .. 1 + Len(s) : (<<h>> \o s)[i] = x
    BY <1>3 DEF ToSet
  <2>2. i = 1 \/ i - 1 \in 1 .. Len(s)
    BY <1>1
  <2> QED
    BY <1>1, <1>2, <2>1, <2>2 DEF ToSet
<1>6. 1 \in 1 .. 1 + Len(s) /\ h \in ToSet(<<h>> \o s)
  BY <1>1, <1>2, <1>3 DEF ToSet
<1> QED
  BY <1>4, <1>5, <1>6

(* What changes no hook, and begins no call of one, is no matter to them.  *)
LEMMA HooksElsewhere ==
    ASSUME HooksListed, UNCHANGED hookVars,
           \A c \in Contexts : \/ where'[c] = where[c] /\ arg'[c] = arg[c]
                               \/ where'[c] \notin {"h_register", "h_destroy", "h_remove"}
    PROVE  HooksListed'
BY DEF HooksListed, hookVars

(* The interrupt visits what was on the list when it began.                *)
LEMMA HooksVisited ==
    ASSUME TypeOK, HooksListed, walk # <<>>, VisitDone, UNCHANGED <<where, arg>>
    PROVE  HooksListed'
<1>1. ToSet(walk') \subseteq ToSet(walk)
  BY TailSet DEF TypeOK, VisitDone
<1> QED
  BY <1>1 DEF HooksListed, VisitDone

(* Every step of a task that works on hooks keeps the order of things.     *)
LEMMA HooksCall ==
    ASSUME TypeOK, ArgsTyped, HooksListed, NEW c \in Contexts, MayRun(c),
           \/ \E h \in Hooks :
                 Register(c, h) \/ DestroyHook(c, h) \/ \E value \in BOOLEAN : SetEnabled(c, h, value)
           \/ HookStep(c)
    PROVE  HooksListed'
<1>0. /\ c # None /\ walk = <<>> /\ critical \in {None, c}
      /\ \A h \in Hooks : h \notin ToSet(walk)
  BY TimerDaemonAssumption, EmptySet DEF MayRun
<1> USE DEF Enter, Go, Return
<1>1. ASSUME NEW h \in Hooks, Register(c, h) PROVE HooksListed'
  BY <1>0, <1>1 DEF Register, EnterCritical, HooksListed, TypeOK
<1>2. ASSUME NEW h \in Hooks, DestroyHook(c, h) PROVE HooksListed'
  <2>1. /\ hook[h] = "alive" /\ hook' = [hook EXCEPT ![h] = "half"]
        /\ disabled' = [disabled EXCEPT ![h] = ~Enabled[h]]
        /\ \A d \in Contexts : arg[d] # h
        /\ UNCHANGED <<Callbacks, Enabled, critical, torn, walk>>
    BY <1>2 DEF DestroyHook
  <2>2. \A i \in Hooks : i # h => hook'[i] = hook[i] /\ disabled'[i] = disabled[i]
    BY <2>1 DEF TypeOK
  <2>3. hook'[h] = "half" /\ disabled'[h] = ~Enabled[h]
    BY <2>1 DEF TypeOK
  <2>4. \A d \in Contexts : \/ where'[d] = "h_destroy" /\ arg'[d] = h
                            \/ where'[d] = where[d] /\ arg'[d] = arg[d]
    BY <1>2 DEF DestroyHook, TypeOK
  <2>5. ASSUME NEW d \in Contexts
        PROVE  /\ where'[d] = "h_register" => hook'[arg'[d]] = "alive"
               /\ where'[d] \in {"h_destroy", "h_remove"} => hook'[arg'[d]] # "alive"
    BY <2>1, <2>2, <2>3, <2>4 DEF HooksListed, ArgsTyped
  <2>6. ASSUME NEW i \in Hooks
        PROVE  /\ hook'[i] = "gone" => i \notin ToSet(Callbacks') /\ i \notin ToSet(walk')
               /\ hook'[i] # "alive" /\ Enabled'[i] => ~disabled'[i]
    BY <2>1, <2>2, <2>3 DEF HooksListed
  <2> QED
    BY <2>1, <2>5, <2>6 DEF HooksListed
<1>3. ASSUME NEW h \in Hooks, NEW value \in BOOLEAN, SetEnabled(c, h, value) PROVE HooksListed'
  BY <1>0, <1>3 DEF SetEnabled, HooksListed, TypeOK
<1>4. CASE Unregister(c)
  BY <1>0, <1>4 DEF Unregister, EnterCritical, HooksListed, TypeOK
<1>5. CASE PushFront(c)
  <2>1. arg[c] \in Hooks /\ hook[arg[c]] = "alive"
    BY <1>5 DEF PushFront, ArgsTyped, HooksListed
  <2>2. ToSet(Callbacks') = {arg[c]} \cup ToSet(Callbacks)
    BY <1>5, <2>1, PushStep DEF PushFront, TypeOK
  <2> QED
    BY <1>0, <1>5, <2>1, <2>2 DEF PushFront, ExitCritical, HooksListed, TypeOK
<1>6. CASE RemoveHook(c)
  <2>1. arg[c] \in Hooks /\ hook[arg[c]] # "alive"
    BY <1>6 DEF RemoveHook, ArgsTyped, HooksListed
  <2>2. ToSet(Callbacks') \subseteq ToSet(Callbacks) \ {arg[c]}
    BY <1>6, <2>1, RestStep DEF RemoveHook
  <2> QED
    BY <1>0, <1>6, <2>1, <2>2 DEF RemoveHook, ExitCritical, HooksListed, TypeOK
<1>7. CASE HookStep(c)
  BY <1>4, <1>5, <1>6, <1>7, Zenon DEF HookStep
<1> QED
  BY <1>1, <1>2, <1>3, <1>7, Zenon

(* And so does every other step.                                           *)
LEMMA HooksNext == TypeOK /\ ArgsTyped /\ HooksListed /\ [Next]_vars => HooksListed'
<1> SUFFICES ASSUME TypeOK, ArgsTyped, HooksListed, [Next]_vars PROVE HooksListed'
  OBVIOUS
<1>1. CASE UNCHANGED vars
  BY <1>1, HooksElsewhere DEF vars
<1>2. ASSUME NEW c \in Contexts, MayRun(c), Call(c) PROVE HooksListed'
  <2>1. ASSUME NEW k \in Tasklets, UNCHANGED hookVars, Schedule(c, k) \/ DestroyTasklet(c, k)
        PROVE  HooksListed'
    BY <2>1, HooksElsewhere DEF Schedule, DestroyTasklet, Enter, Go, TypeOK
  <2>2. ASSUME NEW m \in Timers, UNCHANGED hookVars,
               DestroyTimer(c, m) \/ \E what \in {"start", "stop"} : CallTimer(c, m, what)
        PROVE  HooksListed'
    BY <2>2, HooksElsewhere DEF DestroyTimer, CallTimer, Enter, Go, TypeOK
  <2> QED
    BY <1>2, <2>1, <2>2, HooksCall DEF Call
<1>3. ASSUME NEW c \in Contexts, MayRun(c), Step(c) PROVE HooksListed'
  <2>1. CASE TaskletStep(c) /\ UNCHANGED hookVars
    <3>1. \A d \in Contexts : \/ where'[d] = where[d] /\ arg'[d] = arg[d]
                              \/ where'[d] \in {"out", "k_pend", "d_delete"}
      BY <2>1
      DEF TaskletStep, ScheduleTake, PendFunctionCall, ScheduleFails, CheckForSafeDelete, TaskletGone,
          Go, Return, TypeOK
    <3> QED
      BY <2>1, <3>1, HooksElsewhere
  <2>2. CASE TimerStep(c) /\ UNCHANGED hookVars
    BY <2>2, HooksElsewhere DEF TimerStep, SendTimerCommand, SendDelete, Go, Return, TypeOK
  <2> QED
    BY <1>3, <2>1, <2>2, HooksCall DEF Step
<1>4. ASSUME NEW c \in Contexts, TimesOut(c) PROVE HooksListed'
  BY <1>4, HooksElsewhere DEF TimesOut, PendTimesOut, TimerCommandTimesOut, Go, Return, TypeOK
<1>5. CASE Receives \/ Returns \/ Expires
  <2>1. UNCHANGED <<where, arg, hookVars>>
    BY <1>5 DEF Receives, Returns, Expires, ReceiveRun, ReceiveTimerCommand, CallbackReturns,
                PendedReturns, AdapterGives, Expire
  <2> QED
    BY <2>1, HooksElsewhere
<1>6. CASE Interrupt
  <2>1. CASE TickInterrupt
    <3>1. /\ walk' = Callbacks /\ critical = None
          /\ UNCHANGED <<where, arg, Callbacks, Enabled, hook, disabled, critical, torn>>
      BY <2>1 DEF TickInterrupt
    <3> QED
      BY <3>1 DEF HooksListed
  <2>2. CASE VisitHook
    BY <2>2, HooksVisited DEF VisitHook
  <2>3. ASSUME NEW k \in Tasklets, RunHook, ScheduleFromISR(k) PROVE HooksListed'
    BY <2>3, HooksVisited DEF RunHook, ScheduleFromISR
  <2>4. ASSUME NEW m \in Timers, NEW what \in {"start", "stop"}, RunHook, TimerFromISR(m, what)
        PROVE  HooksListed'
    BY <2>4, HooksVisited DEF RunHook, TimerFromISR
  <2>5. ASSUME NEW k \in Tasklets, RunHook, ScheduleFromISRFails(k) PROVE HooksListed'
    BY <2>5, HooksVisited DEF RunHook, ScheduleFromISRFails
  <2> QED
    BY <1>6, <2>1, <2>2, <2>3, <2>4, <2>5 DEF Interrupt
<1> QED
  BY <1>1, <1>2, <1>3, <1>4, <1>5, <1>6 DEF Next

-----------------------------------------------------------------------------
(* The invariant, and what follows from it.                                *)

(* All of it holds at first, when every DtorLock can be taken and the      *)
(* queue and the list are empty.                                           *)
LEMMA InitInv == Init => IInv
<1> SUFFICES ASSUME Init PROVE IInv
  OBVIOUS
<1>1. TypeOK /\ ArgsTyped
  BY InitTyped
<1>2. ToSet(commands) = {} /\ ToSet(Callbacks) = {} /\ ToSet(walk) = {} /\ DOMAIN commands = {}
  BY EmptySet DEF Init, DaemonInit, HookInit
<1>3. executing = None
  BY DEF Init, DaemonInit
<1>4. \A k \in Tasklets : ~InDaemon(k) /\ DtorLock[k] = 1 /\ tasklet[k] = "alive"
  BY <1>3, TimerDaemonAssumption DEF InDaemon, Init, TaskletInit
<1>5. \A c \in Contexts : where[c] = "out"
  BY DEF Init, DaemonInit
<1>6. OneHolder
  BY <1>2, <1>4, <1>5 DEF OneHolder, InCall, Queued, Once
<1>7. DyingAlone
  BY <1>4, <1>5 DEF DyingAlone, Scheduling, Deleting
<1>8. QuietTimers
  BY DEF QuietTimers, Init, TimerInit
<1>9. HooksListed
  BY <1>2, <1>5 DEF HooksListed, Init, HookInit
<1> QED
  BY <1>1, <1>6, <1>7, <1>8, <1>9 DEF IInv

(* IInv is an invariant.                                                   *)
THEOREM DeferredInvariant == Spec => []IInv
<1>1. IInv /\ [Next]_vars => IInv'
  BY TypedNext, HoldingNext, TimersNext, HooksNext DEF IInv, Holding
<1> QED
  BY InitInv, <1>1, PTL DEF Spec

(* The variables have their types: DtorLock is 0 or 1, and the queue holds *)
(* no more commands than it has slots.                                    *)
THEOREM DeferredTyped == Spec => []TypeOK
<1>1. IInv => TypeOK
  BY DEF IInv
<1> QED
  BY <1>1, DeferredInvariant, PTL

(* In any interleaving of tasks, daemon and interrupts DtorLock is empty   *)
(* exactly while one party has taken it and not given it back.             *)
THEOREM LockAccounted == Spec => []TaskletAccounted
<1>1. ASSUME IInv, NEW k \in Tasklets, tasklet[k] # "gone"
      PROVE  /\ DtorLock[k] = 1 <=> Holders(k) = {}
             /\ \A x, y \in Holders(k) : x = y
  <2> DEFINE calls == {c \in Contexts : InCall(k, c)}
             slots == {j \in DOMAIN commands : commands[j] = <<"run", k>>}
             run    == IF InDaemon(k) THEN {executing} ELSE {}
  <2>1. Holders(k) = calls \cup {<<i>> : i \in slots} \cup run
    BY DEF Holders, InCall, InDaemon
  <2>2. slots = {} <=> ~Queued(<<"run", k>>)
    BY DEF Queued, ToSet
  <2>3. \A i, j \in slots : i = j
    BY <1>1 DEF IInv, OneHolder, Once
  <2>4. \A c, d \in calls : c = d
    BY <1>1 DEF IInv, OneHolder
  <2>5. DtorLock[k] \in {0, 1}
    BY <1>1 DEF IInv, TypeOK
  <2>6. DtorLock[k] = 1 <=> calls = {} /\ slots = {} /\ run = {}
    BY <1>1, <2>2, <2>5 DEF IInv, OneHolder
  <2>7. /\ calls = {} \/ (slots = {} /\ run = {})
        /\ slots = {} \/ run = {}
    BY <1>1, <2>2 DEF IInv, OneHolder
  <2>8. \A x, y \in run : x = y
    OBVIOUS
  <2> HIDE DEF calls, slots, run
  <2> QED
    BY <2>1, <2>3, <2>4, <2>6, <2>7, <2>8
<1>2. IInv => TaskletAccounted
  BY <1>1 DEF TaskletAccounted
<1> QED
  BY <1>2, DeferredInvariant, PTL

(* Nothing that is gone is used, for tasklets, for timers that were quiet  *)
(* and for hooks that were disabled.                                       *)
THEOREM GoneIsNotUsed == Spec => []NothingGoneIsUsed
<1>1. IInv => NothingGoneIsUsed
  <2> SUFFICES ASSUME IInv PROVE NothingGoneIsUsed
    OBVIOUS
  <2>1. \A k \in Tasklets : ~UsesTasklet(k)
    BY DEF IInv, DyingAlone, UsesTasklet, InDaemon
  <2>2. \A m \in Timers : quiet[m] => ~UsesTimer(m)
    BY DEF IInv, QuietTimers, UsesTimer
  <2>3. ASSUME NEW h \in Hooks, UsesHook(h) PROVE hook[h] = "half" /\ ~disabled[h]
    <3>1. walk \in Seq(Hooks) /\ walk # <<>> /\ Head(walk) = h
      BY <2>3 DEF IInv, TypeOK, UsesHook
    <3>2. h \in ToSet(walk)
      BY <3>1, TailSet
    <3> QED
      BY <2>3, <3>2 DEF IInv, HooksListed, UsesHook
  <2>4. ~(torn /\ walk # <<>>)
    BY DEF IInv, HooksListed
  <2> QED
    BY <2>1, <2>2, <2>3, <2>4 DEF NothingGoneIsUsed
<1> QED
  BY <1>1, DeferredInvariant, PTL

-----------------------------------------------------------------------------
(* The lists of the C library.  First, pointers that represent a sequence. *)

(* The i-th node, the head being the one before the first, and in a ring   *)
(* also the one behind the last.                                           *)
Cell(s, i)   == IF i = 0 THEN ListHead ELSE s[i]
Behind(s, i) == IF i = Len(s) THEN ListHead ELSE s[i + 1]

Forward(N, s, end) == \A i \in 0 .. Len(s) : N[Cell(s, i)] = IF i = Len(s) THEN end ELSE s[i + 1]
Backward(P, s)     == \A i \in 0 .. Len(s) : P[Behind(s, i)] = Cell(s, i)

(* They are different nodes.                                               *)
LEMMA CellsApart ==
    ASSUME NEW s \in Seq(Nodes), IsInjective(s)
    PROVE  /\ Len(s) \in Nat
           /\ \A i \in 0 .. Len(s) : Cell(s, i) \in Cells /\ Behind(s, i) \in Cells
           /\ \A i \in 1 .. Len(s) : s[i] \in Nodes /\ s[i] \in ToSet(s) /\ s[i] # ListHead
           /\ \A i, j \in 0 .. Len(s) : Cell(s, i) = Cell(s, j) => i = j
           /\ \A i, j \in 0 .. Len(s) : Behind(s, i) = Behind(s, j) => i = j
           /\ \A i, j \in 1 .. Len(s) : s[i] = s[j] => i = j
           /\ \A n \in Nodes \ ToSet(s), i \in 0 .. Len(s) : n # Cell(s, i) /\ n # Behind(s, i)
<1>1. Len(s) \in Nat /\ DOMAIN s = 1 .. Len(s) /\ \A i \in 1 .. Len(s) : s[i] \in Nodes
  BY LenProperties, ElementOfSeq
<1>2. \A i \in 1 .. Len(s) : s[i] \in ToSet(s) /\ s[i] # ListHead
  BY <1>1, ListsAssumption DEF ToSet
<1>3. \A i, j \in 1 .. Len(s) : s[i] = s[j] => i = j
  BY <1>1 DEF IsInjective
<1>4. \A i \in 0 .. Len(s) : (i = 0 \/ i \in 1 .. Len(s)) /\ (i = Len(s) \/ i + 1 \in 1 .. Len(s))
  <2>1. Len(s) \in Nat
    BY <1>1
  <2> QED
    BY <2>1
<1>5. \A i \in 0 .. Len(s) : Cell(s, i) \in Cells /\ Behind(s, i) \in Cells
  <2>1. ASSUME NEW i \in 0 .. Len(s) PROVE Cell(s, i) \in Cells
    <3>1. i = 0 \/ s[i] \in Nodes
      BY <1>1, <1>4, Zenon
    <3> QED
      BY <3>1 DEF Cell, Cells
  <2>2. ASSUME NEW i \in 0 .. Len(s) PROVE Behind(s, i) \in Cells
    <3>1. i = Len(s) \/ s[i + 1] \in Nodes
      BY <1>1, <1>4, Zenon
    <3> QED
      BY <3>1 DEF Behind, Cells
  <2> QED
    BY <2>1, <2>2
<1>6. \A i, j \in 0 .. Len(s) : Cell(s, i) = Cell(s, j) => i = j
  BY <1>2, <1>3, <1>4 DEF Cell
<1>7. ASSUME NEW i \in 0 .. Len(s), NEW j \in 0 .. Len(s), Behind(s, i) = Behind(s, j) PROVE i = j
  <2>1. CASE i = Len(s) \/ j = Len(s)
    BY <1>2, <1>4, <1>7, <2>1 DEF Behind
  <2>2. CASE i # Len(s) /\ j # Len(s)
    <3>1. i + 1 = j + 1
      BY <1>3, <1>4, <1>7, <2>2 DEF Behind
    <3> QED
      BY <3>1
  <2> QED
    BY <2>1, <2>2
<1>8. \A n \in Nodes \ ToSet(s), i \in 0 .. Len(s) : n # Cell(s, i) /\ n # Behind(s, i)
  BY <1>2, <1>4, ListsAssumption DEF Cell, Behind
<1> QED
  BY <1>1, <1>2, <1>3, <1>5, <1>6, <1>7, <1>8

(* A node is linked in behind the i-th one.                                *)
LEMMA ForwardInserted ==
    ASSUME NEW s \in Seq(Nodes), IsInjective(s), NEW i \in 0 .. Len(s), NEW n \in Nodes \ ToSet(s),
           NEW N, NEW M, NEW end, Forward(N, s, end),
           M[Cell(s, i)] = n, M[n] = N[Cell(s, i)],
           \A c \in Cells \ {n, Cell(s, i)} : M[c] = N[c]
    PROVE  Forward(M, InsertAt(s, i + 1, n), end)
<1> DEFINE t == InsertAt(s, i + 1, n)
<1>0. Len(s) \in Nat /\ i \in Nat /\ i <= Len(s)
  BY LenProperties
<1>1. /\ Len(t) = Len(s) + 1 /\ Len(s) \in Nat /\ i \in Nat /\ i <= Len(s)
      /\ \A k \in 1 .. Len(s) + 1 : t[k] = IF k <= i THEN s[k] ELSE IF k = i + 1 THEN n ELSE s[k - 1]
  <2>1. /\ Len(s) \in Nat /\ Len(t) = Len(s) + 1
        /\ \A k \in 1 .. Len(s) + 1 : t[k] = IF k <= i THEN s[k] ELSE IF k = i + 1 THEN n ELSE s[k - 1]
    <3>1. n \in Nodes
      OBVIOUS
    <3> QED
      BY <3>1, Inserted
  <2> HIDE DEF t
  <2> QED
    BY <1>0, <2>1
<1> HIDE DEF t
<1>2. ASSUME NEW k \in 0 .. Len(s) + 1
      PROVE  M[Cell(t, k)] = IF k = Len(s) + 1 THEN end ELSE t[k + 1]
  <2>1. CASE k < i
    <3>1. /\ k \in 0 .. Len(s) /\ k # i /\ k # Len(s) /\ k + 1 \in 1 .. Len(s) + 1 /\ k + 1 <= i
          /\ k # Len(s) + 1 /\ (k # 0 => k \in 1 .. Len(s) + 1 /\ k <= i)
      BY <1>0, <2>1
    <3>2. Cell(t, k) = Cell(s, k) /\ t[k + 1] = s[k + 1]
      BY <1>1, <3>1 DEF Cell
    <3>3. Cell(s, k) \in Cells \ {n, Cell(s, i)}
      BY <3>1, CellsApart
    <3> QED
      BY <3>1, <3>2, <3>3 DEF Forward
  <2>2. CASE k = i
    <3>1. k + 1 \in 1 .. Len(s) + 1 /\ ~(k + 1 <= i) /\ k # Len(s) + 1 /\ (k # 0 => k \in 1 .. Len(s) + 1)
      BY <1>0, <2>2
    <3>2. Cell(t, k) = Cell(s, i) /\ t[k + 1] = n
      BY <1>1, <2>2, <3>1 DEF Cell
    <3> QED
      BY <3>1, <3>2
  <2>3. CASE k = i + 1
    <3>1. k # 0 /\ k \in 1 .. Len(s) + 1 /\ ~(k <= i)
      BY <1>0, <2>3
    <3>2. Cell(t, k) = n
      BY <1>1, <2>3, <3>1 DEF Cell
    <3>3. i # Len(s) => /\ k # Len(s) + 1 /\ k + 1 \in 1 .. Len(s) + 1 /\ ~(k + 1 <= i) /\ k + 1 # i + 1
                        /\ (k + 1) - 1 = i + 1
      BY <1>0, <2>3
    <3>4. i # Len(s) => t[k + 1] = s[i + 1]
      BY <1>1, <3>3
    <3>5. i = Len(s) <=> k = Len(s) + 1
      BY <1>0, <2>3
    <3>6. N[Cell(s, i)] = IF i = Len(s) THEN end ELSE s[i + 1]
      BY DEF Forward
    <3> QED
      BY <3>2, <3>4, <3>5, <3>6
  <2>4. CASE k > i + 1
    <3>1. /\ k # 0 /\ k \in 1 .. Len(s) + 1 /\ ~(k <= i) /\ k # i + 1
          /\ k - 1 \in 0 .. Len(s) /\ k - 1 # 0 /\ k - 1 # i
          /\ (k = Len(s) + 1 <=> k - 1 = Len(s))
      BY <1>0, <2>4
    <3>2. Cell(t, k) = Cell(s, k - 1)
      BY <1>1, <3>1 DEF Cell
    <3>3. k # Len(s) + 1 => /\ k + 1 \in 1 .. Len(s) + 1 /\ ~(k + 1 <= i) /\ k + 1 # i + 1
                            /\ (k + 1) - 1 = (k - 1) + 1
      BY <1>0, <2>4
    <3>4. k # Len(s) + 1 => t[k + 1] = s[(k - 1) + 1]
      BY <1>1, <3>3
    <3>5. Cell(s, k - 1) \in Cells \ {n, Cell(s, i)}
      BY <3>1, CellsApart
    <3>6. M[Cell(t, k)] = IF k - 1 = Len(s) THEN end ELSE s[(k - 1) + 1]
      BY <3>1, <3>2, <3>5 DEF Forward
    <3> QED
      BY <3>1, <3>4, <3>6
  <2> QED
    BY <1>0, <2>1, <2>2, <2>3, <2>4
<1> QED
  BY <1>1, <1>2 DEF Forward, t

(* And the other way round.                                                *)
LEMMA BackwardInserted ==
    ASSUME NEW s \in Seq(Nodes), IsInjective(s), NEW i \in 0 .. Len(s), NEW n \in Nodes \ ToSet(s),
           NEW P, NEW Q, Backward(P, s),
           Q[n] = Cell(s, i), Q[Behind(s, i)] = n,
           \A c \in Cells \ {n, Behind(s, i)} : Q[c] = P[c]
    PROVE  Backward(Q, InsertAt(s, i + 1, n))
<1> DEFINE t == InsertAt(s, i + 1, n)
<1>0. Len(s) \in Nat /\ i \in Nat /\ i <= Len(s)
  BY LenProperties
<1>1. /\ Len(t) = Len(s) + 1 /\ Len(s) \in Nat /\ i \in Nat /\ i <= Len(s)
      /\ \A k \in 1 .. Len(s) + 1 : t[k] = IF k <= i THEN s[k] ELSE IF k = i + 1 THEN n ELSE s[k - 1]
  <2>1. /\ Len(s) \in Nat /\ Len(t) = Len(s) + 1
        /\ \A k \in 1 .. Len(s) + 1 : t[k] = IF k <= i THEN s[k] ELSE IF k = i + 1 THEN n ELSE s[k - 1]
    <3>1. n \in Nodes
      OBVIOUS
    <3> QED
      BY <3>1, Inserted
  <2> HIDE DEF t
  <2> QED
    BY <1>0, <2>1
<1> HIDE DEF t
<1>2. ASSUME NEW k \in 0 .. Len(s) + 1 PROVE Q[Behind(t, k)] = Cell(t, k)
  <2>1. CASE k < i
    <3>1. /\ k \in 0 .. Len(s) /\ k # i /\ k # Len(s) /\ k + 1 \in 1 .. Len(s) + 1 /\ k + 1 <= i
          /\ k # Len(s) + 1 /\ (k # 0 => k \in 1 .. Len(s) + 1 /\ k <= i)
      BY <1>0, <2>1
    <3>2. Cell(t, k) = Cell(s, k) /\ Behind(t, k) = Behind(s, k)
      BY <1>1, <3>1 DEF Cell, Behind
    <3>3. Behind(s, k) \in Cells \ {n, Behind(s, i)}
      BY <3>1, CellsApart
    <3> QED
      BY <3>1, <3>2, <3>3 DEF Backward
  <2>2. CASE k = i
    <3>1. k + 1 \in 1 .. Len(s) + 1 /\ ~(k + 1 <= i) /\ k # Len(s) + 1 /\ (k # 0 => k \in 1 .. Len(s) + 1)
      BY <1>0, <2>2
    <3>2. Cell(t, k) = Cell(s, i) /\ Behind(t, k) = n
      BY <1>1, <2>2, <3>1 DEF Cell, Behind
    <3> QED
      BY <3>2
  <2>3. CASE k = i + 1
    <3>1. k # 0 /\ k \in 1 .. Len(s) + 1 /\ ~(k <= i)
      BY <1>0, <2>3
    <3>2. Cell(t, k) = n
      BY <1>1, <2>3, <3>1 DEF Cell
    <3>3. i # Len(s) => /\ k # Len(s) + 1 /\ k + 1 \in 1 .. Len(s) + 1 /\ ~(k + 1 <= i) /\ k + 1 # i + 1
                        /\ (k + 1) - 1 = i + 1
      BY <1>0, <2>3
    <3>4. i # Len(s) => t[k + 1] = s[i + 1]
      BY <1>1, <3>3
    <3>5. i = Len(s) <=> k = Len(s) + 1
      BY <1>0, <2>3
    <3>6. Behind(t, k) = Behind(s, i)
      BY <1>1, <3>4, <3>5 DEF Behind
    <3> QED
      BY <3>2, <3>6
  <2>4. CASE k > i + 1
    <3>1. /\ k # 0 /\ k \in 1 .. Len(s) + 1 /\ ~(k <= i) /\ k # i + 1
          /\ k - 1 \in 0 .. Len(s) /\ k - 1 # 0 /\ k - 1 # i
          /\ (k = Len(s) + 1 <=> k - 1 = Len(s))
      BY <1>0, <2>4
    <3>2. Cell(t, k) = Cell(s, k - 1)
      BY <1>1, <3>1 DEF Cell
    <3>3. k # Len(s) + 1 => /\ k + 1 \in 1 .. Len(s) + 1 /\ ~(k + 1 <= i) /\ k + 1 # i + 1
                            /\ (k + 1) - 1 = (k - 1) + 1
      BY <1>0, <2>4
    <3>4. k # Len(s) + 1 => t[k + 1] = s[(k - 1) + 1]
      BY <1>1, <3>3
    <3>5. Behind(t, k) = Behind(s, k - 1)
      BY <1>1, <3>1, <3>4 DEF Behind
    <3>6. Behind(s, k - 1) \in Cells \ {n, Behind(s, i)}
      BY <3>1, CellsApart
    <3> QED
      BY <3>1, <3>2, <3>5, <3>6 DEF Backward
  <2> QED
    BY <1>0, <2>1, <2>2, <2>3, <2>4
<1> QED
  BY <1>1, <1>2 DEF Backward, t

(* The one before the i-th is linked to the one behind it.                 *)
LEMMA ForwardRemoved ==
    ASSUME NEW s \in Seq(Nodes), IsInjective(s), NEW i \in 1 .. Len(s),
           NEW N, NEW M, NEW end, Forward(N, s, end),
           M[Cell(s, i - 1)] = N[s[i]],
           \A c \in Cells \ {Cell(s, i - 1)} : M[c] = N[c]
    PROVE  Forward(M, RemoveAt(s, i), end)
<1> DEFINE t == RemoveAt(s, i)
<1>0. Len(s) \in Nat /\ i \in Nat /\ 1 <= i /\ i <= Len(s)
  BY LenProperties
<1>1. /\ Len(t) = Len(s) - 1 /\ Len(s) \in Nat /\ i \in Nat /\ 1 <= i /\ i <= Len(s)
      /\ \A k \in 1 .. Len(s) - 1 : t[k] = IF k < i THEN s[k] ELSE s[k + 1]
  <2>1. /\ Len(s) \in Nat /\ Len(t) = Len(s) - 1
        /\ \A k \in 1 .. Len(s) - 1 : t[k] = IF k < i THEN s[k] ELSE s[k + 1]
    BY Removed
  <2> HIDE DEF t
  <2> QED
    BY <1>0, <2>1
<1> HIDE DEF t
<1>2. ASSUME NEW k \in 0 .. Len(s) - 1
      PROVE  M[Cell(t, k)] = IF k = Len(s) - 1 THEN end ELSE t[k + 1]
  <2>1. CASE k < i - 1
    <3>1. /\ k \in 0 .. Len(s) /\ i - 1 \in 0 .. Len(s) /\ k # i - 1 /\ k # Len(s) - 1 /\ k # Len(s)
          /\ k + 1 \in 1 .. Len(s) - 1 /\ k + 1 < i /\ (k # 0 => k \in 1 .. Len(s) - 1 /\ k < i)
      BY <1>0, <2>1
    <3>2. Cell(t, k) = Cell(s, k) /\ t[k + 1] = s[k + 1]
      BY <1>1, <3>1 DEF Cell
    <3>3. Cell(s, k) \in Cells \ {Cell(s, i - 1)}
      BY <3>1, CellsApart
    <3> QED
      BY <3>1, <3>2, <3>3 DEF Forward
  <2>2. CASE k = i - 1
    <3>1. /\ i \in 0 .. Len(s) /\ i # 0 /\ (k # 0 => k \in 1 .. Len(s) - 1 /\ k < i)
          /\ (k = Len(s) - 1 <=> i = Len(s))
          /\ (i # Len(s) => k + 1 \in 1 .. Len(s) - 1 /\ ~(k + 1 < i) /\ (k + 1) + 1 = i + 1)
      BY <1>0, <2>2
    <3>2. Cell(t, k) = Cell(s, i - 1) /\ Cell(s, i) = s[i]
      BY <1>1, <2>2, <3>1 DEF Cell
    <3>3. i # Len(s) => t[k + 1] = s[i + 1]
      BY <1>1, <3>1
    <3>4. N[s[i]] = IF i = Len(s) THEN end ELSE s[i + 1]
      BY <3>1, <3>2 DEF Forward
    <3> QED
      BY <3>1, <3>2, <3>3, <3>4
  <2>3. CASE k > i - 1
    <3>1. /\ k # 0 /\ k \in 1 .. Len(s) - 1 /\ ~(k < i) /\ k + 1 \in 0 .. Len(s) /\ k + 1 # 0
          /\ k + 1 # i - 1 /\ i - 1 \in 0 .. Len(s)
          /\ (k = Len(s) - 1 <=> k + 1 = Len(s))
          /\ (k # Len(s) - 1 => k + 1 \in 1 .. Len(s) - 1 /\ ~(k + 1 < i))
      BY <1>0, <2>3
    <3>2. Cell(t, k) = Cell(s, k + 1)
      BY <1>1, <3>1 DEF Cell
    <3>3. k # Len(s) - 1 => t[k + 1] = s[(k + 1) + 1]
      BY <1>1, <3>1
    <3>4. Cell(s, k + 1) \in Cells \ {Cell(s, i - 1)}
      BY <3>1, CellsApart
    <3>5. M[Cell(t, k)] = IF k + 1 = Len(s) THEN end ELSE s[(k + 1) + 1]
      BY <3>1, <3>2, <3>4 DEF Forward
    <3> QED
      BY <3>1, <3>3, <3>5
  <2> QED
    BY <1>0, <2>1, <2>2, <2>3
<1> QED
  BY <1>1, <1>2 DEF Forward, t

(* And the other way round.                                                *)
LEMMA BackwardRemoved ==
    ASSUME NEW s \in Seq(Nodes), IsInjective(s), NEW i \in 1 .. Len(s),
           NEW P, NEW Q, Backward(P, s),
           Q[Behind(s, i)] = Cell(s, i - 1),
           \A c \in Cells \ {Behind(s, i)} : Q[c] = P[c]
    PROVE  Backward(Q, RemoveAt(s, i))
<1> DEFINE t == RemoveAt(s, i)
<1>0. Len(s) \in Nat /\ i \in Nat /\ 1 <= i /\ i <= Len(s)
  BY LenProperties
<1>1. /\ Len(t) = Len(s) - 1 /\ Len(s) \in Nat /\ i \in Nat /\ 1 <= i /\ i <= Len(s)
      /\ \A k \in 1 .. Len(s) - 1 : t[k] = IF k < i THEN s[k] ELSE s[k + 1]
  <2>1. /\ Len(s) \in Nat /\ Len(t) = Len(s) - 1
        /\ \A k \in 1 .. Len(s) - 1 : t[k] = IF k < i THEN s[k] ELSE s[k + 1]
    BY Removed
  <2> HIDE DEF t
  <2> QED
    BY <1>0, <2>1
<1> HIDE DEF t
<1>2. ASSUME NEW k \in 0 .. Len(s) - 1 PROVE Q[Behind(t, k)] = Cell(t, k)
  <2>1. CASE k < i - 1
    <3>1. /\ k \in 0 .. Len(s) /\ i \in 0 .. Len(s) /\ k # i /\ k # Len(s) - 1 /\ k # Len(s)
          /\ k + 1 \in 1 .. Len(s) - 1 /\ k + 1 < i /\ (k # 0 => k \in 1 .. Len(s) - 1 /\ k < i)
      BY <1>0, <2>1
    <3>2. Cell(t, k) = Cell(s, k) /\ Behind(t, k) = Behind(s, k)
      BY <1>1, <3>1 DEF Cell, Behind
    <3>3. Behind(s, k) \in Cells \ {Behind(s, i)}
      BY <3>1, CellsApart
    <3> QED
      BY <3>1, <3>2, <3>3 DEF Backward
  <2>2. CASE k = i - 1
    <3>1. /\ (k # 0 => k \in 1 .. Len(s) - 1 /\ k < i)
          /\ (k = Len(s) - 1 <=> i = Len(s))
          /\ (i # Len(s) => k + 1 \in 1 .. Len(s) - 1 /\ ~(k + 1 < i) /\ (k + 1) + 1 = i + 1)
      BY <1>0, <2>2
    <3>2. Cell(t, k) = Cell(s, i - 1)
      BY <1>1, <2>2, <3>1 DEF Cell
    <3>3. i # Len(s) => t[k + 1] = s[i + 1]
      BY <1>1, <3>1
    <3>4. Behind(t, k) = Behind(s, i)
      BY <1>1, <3>1, <3>3 DEF Behind
    <3> QED
      BY <3>2, <3>4
  <2>3. CASE k > i - 1
    <3>1. /\ k # 0 /\ k \in 1 .. Len(s) - 1 /\ ~(k < i) /\ k + 1 \in 0 .. Len(s) /\ k + 1 # 0
          /\ k + 1 # i /\ i \in 0 .. Len(s)
          /\ (k = Len(s) - 1 <=> k + 1 = Len(s))
          /\ (k # Len(s) - 1 => k + 1 \in 1 .. Len(s) - 1 /\ ~(k + 1 < i))
      BY <1>0, <2>3
    <3>2. Cell(t, k) = Cell(s, k + 1)
      BY <1>1, <3>1 DEF Cell
    <3>3. k # Len(s) - 1 => t[k + 1] = s[(k + 1) + 1]
      BY <1>1, <3>1
    <3>4. Behind(t, k) = Behind(s, k + 1)
      BY <1>1, <3>1, <3>3 DEF Behind
    <3>5. Behind(s, k + 1) \in Cells \ {Behind(s, i)}
      BY <3>1, CellsApart
    <3> QED
      BY <3>1, <3>2, <3>4, <3>5 DEF Backward
  <2> QED
    BY <1>0, <2>1, <2>2, <2>3
<1> QED
  BY <1>1, <1>2 DEF Backward, t


-----------------------------------------------------------------------------
(* The invariant: the pointers represent some sequence.                    *)

End == IF kind \in {"slist", "stack"} THEN NULL ELSE ListHead

Represents(s) ==
    /\ s \in Seq(Nodes) /\ IsInjective(s)
    /\ Forward(Next_, s, End)
    /\ kind \in {"dlist", "queue"} => Backward(Prev_, s)
    /\ kind \in {"stack", "queue"} => Count = Len(s)

ListInv == ListTypeOK /\ \E s : Represents(s)

(* A list is not longer than there are nodes.                              *)
LEMMA LengthBound ==
    ASSUME NEW s \in Seq(Nodes), IsInjective(s)
    PROVE  /\ Len(s) \in Nat /\ DOMAIN s = 1 .. Len(s)
           /\ Cardinality(Nodes) \in Nat /\ Len(s) <= Cardinality(Nodes)
<1>1. Len(s) \in Nat /\ DOMAIN s = 1 .. Len(s) /\ \A k \in 1 .. Len(s) : s[k] \in Nodes
  BY LenProperties, ElementOfSeq
<1>2. s = [k \in 1 .. Len(s) |-> s[k]]
  BY LenProperties
<1>3. s \in Injection(1 .. Len(s), Nodes)
  BY <1>1, <1>2 DEF Injection, IsInjective
<1>4. IsFiniteSet(Nodes)
  BY ListsAssumption
<1>5. Cardinality(1 .. Len(s)) <= Cardinality(Nodes)
  BY <1>3, <1>4, FS_Injection
<1>6. Cardinality(1 .. Len(s)) = Len(s)
  BY <1>1, UpTo
<1>7. Cardinality(Nodes) \in Nat
  BY <1>4, FS_CardinalityType
<1> QED
  BY <1>1, <1>5, <1>6, <1>7

Walks(W) ==
    W = [n \in Nat |->
            IF n = 0 THEN ListHead
            ELSE IF n > 1 /\ W[n - 1] \notin Nodes THEN NULL ELSE Next_[W[n - 1]]]

(* The n-th node that a walk from the head meets.                          *)
Met(s, n) == IF n <= Len(s) THEN Cell(s, n) ELSE IF n = Len(s) + 1 THEN End ELSE NULL

(* A walk from the head meets the sequence, and then the end.              *)
LEMMA WalkExists ==
    ASSUME NEW s, Represents(s)
    PROVE  Walks([n \in Nat |-> Met(s, n)])
<1> DEFINE W == [n \in Nat |-> Met(s, n)]
           V == [n \in Nat |->
                    IF n = 0 THEN ListHead
                    ELSE IF n > 1 /\ W[n - 1] \notin Nodes THEN NULL ELSE Next_[W[n - 1]]]
<1>1. Len(s) \in Nat /\ s \in Seq(Nodes) /\ IsInjective(s) /\ Forward(Next_, s, End)
  BY LenProperties DEF Represents
<1>2. End \notin Nodes /\ NULL \notin Nodes /\ ListHead \notin Nodes
  BY ListsAssumption DEF End, Cells
<1>3. \A k \in 1 .. Len(s) : s[k] \in Nodes
  BY <1>1, ElementOfSeq
<1>4. ASSUME NEW n \in Nat PROVE W[n] = V[n]
  <2>0. W[n] = Met(s, n)
    OBVIOUS
  <2>1. CASE n = 0
    <3>1. Met(s, 0) = ListHead
      BY <1>1 DEF Met, Cell
    <3> QED
      BY <2>0, <2>1, <3>1
  <2>2. CASE n # 0 /\ n - 1 <= Len(s)
    <3>1. /\ n - 1 \in Nat /\ n - 1 \in 0 .. Len(s) /\ (n > 1 => n - 1 \in 1 .. Len(s) /\ n - 1 # 0)
          /\ (n - 1) + 1 = n /\ (n - 1 # Len(s) => n <= Len(s))
          /\ (n - 1 = Len(s) => n = Len(s) + 1 /\ ~(n <= Len(s)))
      BY <1>1, <2>2
    <3>2. W[n - 1] = Cell(s, n - 1)
      BY <2>2, <3>1 DEF Met
    <3>3. V[n] = IF n > 1 /\ W[n - 1] \notin Nodes THEN NULL ELSE Next_[W[n - 1]]
      BY <2>2
    <3> HIDE DEF W, V
    <3>4. n > 1 => Cell(s, n - 1) \in Nodes
      BY <1>3, <3>1 DEF Cell
    <3>5. V[n] = Next_[Cell(s, n - 1)]
      BY <3>2, <3>3, <3>4
    <3>6. Next_[Cell(s, n - 1)] = IF n - 1 = Len(s) THEN End ELSE s[(n - 1) + 1]
      BY <1>1, <3>1 DEF Forward
    <3>7. Met(s, n) = IF n - 1 = Len(s) THEN End ELSE s[n]
      BY <2>2, <3>1 DEF Met, Cell
    <3> QED
      BY <2>0, <3>1, <3>5, <3>6, <3>7
  <2>3. CASE n # 0 /\ ~(n - 1 <= Len(s))
    <3>1. n - 1 \in Nat /\ n > 1 /\ ~(n <= Len(s)) /\ n # Len(s) + 1
      BY <1>1, <2>3
    <3>2. W[n - 1] = Met(s, n - 1)
      BY <3>1
    <3>3. V[n] = IF n > 1 /\ W[n - 1] \notin Nodes THEN NULL ELSE Next_[W[n - 1]]
      BY <2>3
    <3> HIDE DEF W, V
    <3>4. Met(s, n - 1) \notin Nodes
      BY <1>2, <2>3 DEF Met
    <3>5. Met(s, n) = NULL
      BY <3>1 DEF Met
    <3> QED
      BY <2>0, <3>1, <3>2, <3>3, <3>4, <3>5
  <2> HIDE DEF W, V
  <2> QED
    BY <2>1, <2>2, <2>3
<1>5. V = [n \in Nat |-> V[n]] /\ W = [n \in Nat |-> W[n]]
  OBVIOUS
<1> HIDE DEF W
<1>6. V = [n \in Nat |->
              IF n = 0 THEN ListHead
              ELSE IF n > 1 /\ W[n - 1] \notin Nodes THEN NULL ELSE Next_[W[n - 1]]]
  OBVIOUS
<1> HIDE DEF V
<1> QED
  BY <1>4, <1>5, <1>6 DEF Walks, W

(* The walk of the module is this one.                                     *)
LEMMA WalkIs ==
    ASSUME NEW s, Represents(s), NEW n \in Nat
    PROVE  Walk[n] = Met(s, n)
<1> DEFINE W == [k \in Nat |-> Met(s, k)]
<1>1. Walks(W)
  BY WalkExists
<1>2. Walk = CHOOSE V : Walks(V)
  BY DEF Walk, Walks
<1>3. Walks(Walk)
  BY <1>1, <1>2
<1> HIDE DEF W
<1> DEFINE Same == {k \in Nat : Walk[k] = W[k]}
<1>4. 0 \in Same
  BY <1>1, <1>3 DEF Walks
<1>5. ASSUME NEW k \in Same PROVE k + 1 \in Same
  <2>1. k + 1 \in Nat /\ k + 1 # 0 /\ (k + 1) - 1 = k /\ Walk[k] = W[k]
    OBVIOUS
  <2>2. Walk[k + 1] = IF k + 1 > 1 /\ Walk[k] \notin Nodes THEN NULL ELSE Next_[Walk[k]]
    BY <1>3, <2>1 DEF Walks
  <2>3. W[k + 1] = IF k + 1 > 1 /\ W[k] \notin Nodes THEN NULL ELSE Next_[W[k]]
    BY <1>1, <2>1 DEF Walks
  <2> QED
    BY <2>1, <2>2, <2>3
<1> HIDE DEF Same
<1>6. Same = Nat
  BY <1>4, <1>5, NaturalsInductive DEF Same
<1> QED
  BY <1>6 DEF Same, W

(* What the code's loops, and the refinement, read off the pointers.       *)
LEMMA Reads ==
    ASSUME NEW s, Represents(s)
    PROVE  /\ Elements = 1 .. Len(s) /\ Contents = s /\ Listed = ToSet(s)
           /\ LastNode = Cell(s, Len(s))
           /\ \A i \in 1 .. Len(s) : Prior(s[i]) = Cell(s, i - 1)
<1>1. s \in Seq(Nodes) /\ IsInjective(s) /\ Forward(Next_, s, End)
  BY DEF Represents
<1>2. /\ Len(s) \in Nat /\ DOMAIN s = 1 .. Len(s) /\ Cardinality(Nodes) \in Nat
      /\ Len(s) <= Cardinality(Nodes)
  BY <1>1, LengthBound
<1>3. End \notin Nodes /\ \A k \in 1 .. Len(s) : s[k] \in Nodes
  BY <1>1, ElementOfSeq, ListsAssumption DEF End, Cells
<1>4. \A n \in 1 .. Len(s) : n \in Nat /\ n # 0 /\ n <= Len(s)
  BY <1>2
<1>5. \A n \in 1 .. Len(s) : Walk[n] = s[n]
  BY <1>4, WalkIs DEF Met, Cell
<1>6. Walk[Len(s) + 1] = End
  <2>1. Len(s) + 1 \in Nat /\ ~(Len(s) + 1 <= Len(s))
    BY <1>2
  <2> QED
    BY <2>1, WalkIs DEF Met
<1>7. Elements = 1 .. Len(s)
  <2>1. ASSUME NEW n \in 1 .. Len(s) PROVE n \in Elements
    <3>1. n \in 1 .. Cardinality(Nodes) + 1 /\ \A m \in 1 .. n : m \in 1 .. Len(s)
      BY <1>2
    <3> QED
      BY <1>3, <1>5, <3>1 DEF Elements
  <2>2. ASSUME NEW n \in Elements PROVE n \in 1 .. Len(s)
    <3>1. n \in Nat /\ n >= 1 /\ \A m \in 1 .. n : Walk[m] \in Nodes
      BY <1>2 DEF Elements
    <3>2. Len(s) + 1 \notin 1 .. n
      BY <1>3, <1>6, <3>1
    <3> QED
      BY <1>2, <3>1, <3>2
  <2> QED
    BY <2>1, <2>2
<1>8. Contents = s
  <2>1. s = [n \in 1 .. Len(s) |-> s[n]]
    BY <1>1, LenProperties
  <2> QED
    BY <1>5, <1>7, <2>1 DEF Contents
<1>9. Listed = ToSet(s)
  BY <1>2, <1>5, <1>7 DEF Listed, ToSet
<1>10. LastNode = Cell(s, Len(s))
  <2>1. Cardinality(1 .. Len(s)) = Len(s)
    BY <1>2, UpTo
  <2>2. Len(s) <= Len(s)
    BY <1>2
  <2> QED
    BY <1>2, <1>7, <2>1, <2>2, WalkIs DEF LastNode, Met
<1>11. ASSUME NEW i \in 1 .. Len(s) PROVE Prior(s[i]) = Cell(s, i - 1)
  <2>1. i - 1 \in 0 .. Len(s) /\ i - 1 # Len(s) /\ (i - 1) + 1 = i /\ (i - 1 # 0 => i - 1 \in 1 .. Len(s))
    BY <1>2
  <2>2. Cell(s, i - 1) \in Listed \cup {ListHead} /\ Next_[Cell(s, i - 1)] = s[i]
    <3>1. \A k \in 1 .. Len(s) : s[k] \in Listed
      BY <1>2, <1>9 DEF ToSet
    <3>2. Cell(s, i - 1) \in Listed \cup {ListHead}
      BY <2>1, <3>1 DEF Cell
    <3>3. Next_[Cell(s, i - 1)] = s[i]
      BY <1>1, <2>1 DEF Forward
    <3> QED
      BY <3>2, <3>3
  <2>3. ASSUME NEW c \in Listed \cup {ListHead}, Next_[c] = s[i] PROVE c = Cell(s, i - 1)
    <3>1. PICK j \in 0 .. Len(s) : c = Cell(s, j)
      <4>1. \A k \in 1 .. Len(s) : k \in 0 .. Len(s) /\ k # 0
        BY <1>2
      <4>2. 0 \in 0 .. Len(s)
        BY <1>2
      <4> QED
        BY <1>2, <1>9, <4>1, <4>2 DEF ToSet, Cell
    <3>2. s[i] = IF j = Len(s) THEN End ELSE s[j + 1]
      BY <1>1, <2>3, <3>1 DEF Forward
    <3>3. j # Len(s)
      BY <1>3, <3>2
    <3>4. j + 1 \in 1 .. Len(s)
      <4>1. Len(s) \in Nat
        BY <1>2
      <4> QED
        BY <3>3, <4>1
    <3>5. j + 1 = i
      <4>1. s[i] = s[j + 1] /\ i \in DOMAIN s /\ j + 1 \in DOMAIN s
        BY <1>2, <3>2, <3>3, <3>4, Zenon
      <4> QED
        BY <1>1, <4>1 DEF IsInjective
    <3>6. j = i - 1
      BY <3>5
    <3> QED
      BY <3>1, <3>6
  <2> QED
    BY <2>2, <2>3 DEF Prior
<1> QED
  BY <1>7, <1>8, <1>9, <1>10, <1>11

Read == \A s : Represents(s) => Contents = s

(* In every state the walk reads off what the pointers represent.          *)
LEMMA AlwaysRead == Read
BY Reads DEF Read

(* A call that links a node in behind the i-th one.                        *)
LinkedIn(s, i, n) ==
    /\ Next_' \in [Cells -> Cells \cup {NULL}] /\ Prev_' \in [Cells -> Cells \cup {NULL}]
    /\ Next_'[Cell(s, i)] = n /\ Next_'[n] = Next_[Cell(s, i)]
    /\ \A c \in Cells \ {n, Cell(s, i)} : Next_'[c] = Next_[c]
    /\ kind \in {"dlist", "queue"} =>
          /\ Prev_'[n] = Cell(s, i) /\ Prev_'[Behind(s, i)] = n
          /\ \A c \in Cells \ {n, Behind(s, i)} : Prev_'[c] = Prev_[c]

(* A sequence of nodes into which a node is inserted is one, and longer.   *)
LEMMA InsertedNode ==
    ASSUME NEW s \in Seq(Nodes), NEW i \in 0 .. Len(s), NEW n \in Nodes
    PROVE  /\ InsertAt(s, i + 1, n) \in Seq(Nodes)
           /\ Len(InsertAt(s, i + 1, n)) = Len(s) + 1 /\ Len(s) \in Nat
BY Inserted

(* It inserts into the sequence.                                           *)
LEMMA InsertStep ==
    ASSUME ListTypeOK, Read', NEW s, Represents(s), NEW i \in 0 .. Len(s), NEW n \in Nodes \ ToSet(s),
           LinkedIn(s, i, n),
           Count' = IF kind \in {"stack", "queue"} THEN Count + 1 ELSE Count,
           kind' = kind
    PROVE  ListInv' /\ Contents' = InsertAt(s, i + 1, n)
<1> DEFINE t == InsertAt(s, i + 1, n)
<1>1. /\ s \in Seq(Nodes) /\ IsInjective(s) /\ Forward(Next_, s, End)
      /\ kind \in {"dlist", "queue"} => Backward(Prev_, s)
      /\ kind \in {"stack", "queue"} => Count = Len(s)
  BY DEF Represents
<1>2. n \in Nodes /\ n \notin ToSet(s)
  OBVIOUS
<1>3. t \in Seq(Nodes) /\ Len(t) = Len(s) + 1 /\ Len(s) \in Nat
  BY <1>1, <1>2, InsertedNode
<1>4. IsInjective(t)
  BY <1>1, <1>2, InsertedOnce
<1>5. End' = End
  BY DEF End
<1>6. Forward(Next_', t, End)
  BY <1>1, ForwardInserted DEF LinkedIn
<1>7. kind \in {"dlist", "queue"} => Backward(Prev_', t)
  BY <1>1, BackwardInserted DEF LinkedIn
<1>8. Cardinality(Nodes) \in Nat /\ Len(t) <= Cardinality(Nodes)
  BY <1>3, <1>4, LengthBound
<1> HIDE DEF t
<1>9. Represents(t)'
  BY <1>1, <1>3, <1>4, <1>5, <1>6, <1>7 DEF Represents
<1>10. ListTypeOK'
  <2>1. Count' \in 0 .. Cardinality(Nodes)
    BY <1>1, <1>3, <1>8 DEF ListTypeOK
  <2> QED
    BY <2>1 DEF ListTypeOK, LinkedIn
<1> QED
  BY <1>9, <1>10 DEF ListInv, Read, t

(* A call that unlinks the i-th node.                                      *)
Unlinked(s, i) ==
    /\ Next_' \in [Cells -> Cells \cup {NULL}] /\ Prev_' \in [Cells -> Cells \cup {NULL}]
    /\ Next_'[Cell(s, i - 1)] = Next_[s[i]]
    /\ \A c \in Cells \ {Cell(s, i - 1)} : Next_'[c] = Next_[c]
    /\ kind \in {"dlist", "queue"} =>
          /\ Prev_'[Behind(s, i)] = Cell(s, i - 1)
          /\ \A c \in Cells \ {Behind(s, i)} : Prev_'[c] = Prev_[c]

(* It removes from the sequence.                                           *)
LEMMA RemoveStep ==
    ASSUME ListTypeOK, Read', NEW s, Represents(s), NEW i \in 1 .. Len(s), Unlinked(s, i),
           Count' = IF kind \in {"stack", "queue"} THEN Count - 1 ELSE Count,
           kind' = kind
    PROVE  ListInv' /\ Contents' = RemoveAt(s, i)
<1> DEFINE t == RemoveAt(s, i)
<1>1. /\ s \in Seq(Nodes) /\ IsInjective(s) /\ Forward(Next_, s, End)
      /\ kind \in {"dlist", "queue"} => Backward(Prev_, s)
      /\ kind \in {"stack", "queue"} => Count = Len(s)
  BY DEF Represents
<1>2. t \in Seq(Nodes) /\ Len(t) = Len(s) - 1 /\ Len(s) \in Nat
  BY <1>1, Removed
<1>3. IsInjective(t)
  BY <1>1, RemovedOnce
<1>4. End' = End
  BY DEF End
<1>5. Forward(Next_', t, End)
  BY <1>1, ForwardRemoved DEF Unlinked
<1>6. kind \in {"dlist", "queue"} => Backward(Prev_', t)
  BY <1>1, BackwardRemoved DEF Unlinked
<1>7. Cardinality(Nodes) \in Nat /\ Len(t) <= Cardinality(Nodes) /\ Len(t) \in Nat
  BY <1>2, <1>3, LengthBound
<1> HIDE DEF t
<1>8. Represents(t)'
  BY <1>1, <1>2, <1>3, <1>4, <1>5, <1>6 DEF Represents
<1>9. ListTypeOK'
  <2>1. Count' \in 0 .. Cardinality(Nodes)
    BY <1>1, <1>2, <1>7 DEF ListTypeOK
  <2> QED
    BY <2>1 DEF ListTypeOK, Unlinked
<1> QED
  BY <1>8, <1>9 DEF ListInv, Read, t

(* A call that finds nothing to do.                                        *)
LEMMA StayStep ==
    ASSUME ListTypeOK, Read', NEW s, Represents(s), UNCHANGED <<kind, Next_, Prev_, Count>>
    PROVE  ListInv' /\ Contents' = s
<1>1. End' = End
  BY DEF End
<1>2. Represents(s)'
  BY <1>1 DEF Represents, Forward, Backward
<1>3. ListTypeOK'
  BY DEF ListTypeOK
<1> QED
  BY <1>2, <1>3 DEF ListInv, Read

(* What the pointers are, where they represent s.                          *)
LEMMA Pointers ==
    ASSUME ListTypeOK, NEW s, Represents(s)
    PROVE  /\ s \in Seq(Nodes) /\ IsInjective(s) /\ Len(s) \in Nat /\ DOMAIN s = 1 .. Len(s)
           /\ Contents = s /\ Listed = ToSet(s)
           /\ \A i \in 0 .. Len(s) : /\ Cell(s, i) \in Cells
                                     /\ Next_[Cell(s, i)] = IF i = Len(s) THEN End ELSE s[i + 1]
           /\ \A i \in 1 .. Len(s) : s[i] \in Nodes /\ s[i] \in ToSet(s) /\ Cell(s, i) = s[i]
           /\ \A n \in Nodes \ ToSet(s), i \in 0 .. Len(s) : n # Cell(s, i) /\ n # Behind(s, i)
           /\ 0 \in 0 .. Len(s) /\ Cell(s, 0) = ListHead /\ Len(s) \in 0 .. Len(s)
           /\ \A i \in 1 .. Len(s) : i \in 0 .. Len(s) /\ i - 1 \in 0 .. Len(s) /\ (i - 1) + 1 = i
<1>1. s \in Seq(Nodes) /\ IsInjective(s) /\ Forward(Next_, s, End)
  BY DEF Represents
<1>2. Len(s) \in Nat /\ DOMAIN s = 1 .. Len(s)
  BY <1>1, LenProperties
<1>3. \A i \in 1 .. Len(s) : i # 0 /\ i \in 0 .. Len(s) /\ i - 1 \in 0 .. Len(s) /\ (i - 1) + 1 = i
  BY <1>2
<1>4. 0 \in 0 .. Len(s) /\ Len(s) \in 0 .. Len(s)
  BY <1>2
<1>5. Contents = s /\ Listed = ToSet(s)
  BY Reads
<1>6. \A i \in 0 .. Len(s) : /\ Cell(s, i) \in Cells
                             /\ Next_[Cell(s, i)] = IF i = Len(s) THEN End ELSE s[i + 1]
  <2>1. \A i \in 0 .. Len(s) : Cell(s, i) \in Cells
    BY <1>1, CellsApart
  <2>2. \A i \in 0 .. Len(s) : Next_[Cell(s, i)] = IF i = Len(s) THEN End ELSE s[i + 1]
    BY <1>1 DEF Forward
  <2> QED
    BY <2>1, <2>2
<1>7. \A n \in Nodes \ ToSet(s), i \in 0 .. Len(s) : n # Cell(s, i) /\ n # Behind(s, i)
  BY <1>1, CellsApart
<1>8. \A i \in 1 .. Len(s) : s[i] \in Nodes /\ s[i] \in ToSet(s) /\ Cell(s, i) = s[i]
  <2>1. \A i \in 1 .. Len(s) : s[i] \in Nodes /\ s[i] \in ToSet(s)
    BY <1>1, CellsApart
  <2>2. \A i \in 1 .. Len(s) : Cell(s, i) = s[i]
    BY <1>3 DEF Cell
  <2> QED
    BY <2>1, <2>2
<1>9. Cell(s, 0) = ListHead
  BY DEF Cell
<1>10. \A i \in 1 .. Len(s) : i \in 0 .. Len(s) /\ i - 1 \in 0 .. Len(s) /\ (i - 1) + 1 = i
  BY <1>3
<1> QED
  BY <1>1, <1>2, <1>4, <1>5, <1>6, <1>7, <1>8, <1>9, <1>10, Zenon

-----------------------------------------------------------------------------
(* The calls, as a user sees them.                                         *)

(* The abstract list has the operators on sequences under its own name.    *)
LEMMA SameOperators ==
    /\ \A s : /\ Sequence!ToSet(s) = ToSet(s)
             /\ Sequence!Front(s) = Front(s) /\ Sequence!Last(s) = s[Len(s)]
    /\ \A s, i : Sequence!RemoveAt(s, i) = RemoveAt(s, i)
    /\ \A s, i, n : Sequence!InsertAt(s, i, n) = InsertAt(s, i, n)
BY DEF ToSet, Front, InsertAt, RemoveAt, Sequence!ToSet, Sequence!Front, Sequence!Last,
       Sequence!InsertAt, Sequence!RemoveAt

(* What a call that links a node in may say.                               *)
LEMMA InsertPromised ==
    ASSUME ListTypeOK, NEW s, Represents(s), NEW i \in 0 .. Len(s), NEW n \in Nodes \ ToSet(s),
           Contents' = InsertAt(s, i + 1, n),
           \/ i = 0 /\ \E op \in {"AddNodeToHead", "Push", "Enqueue"} : call' = <<op, n>>
           \/ i = Len(s) /\ call' = <<"AddNodeToTail", n>>
           \/ i # 0 /\ call' = <<"InsertNodeAfter", s[i], n>>
           \/ i # Len(s) /\ call' = <<"InsertNodeBefore", s[i + 1], n>>
    PROVE  Sequence!Next
<1>1. s \in Seq(Nodes) /\ Contents = s /\ Len(s) \in Nat /\ DOMAIN s = 1 .. Len(s)
  BY Pointers
<1>2. n \in Nodes \ Sequence!ToSet(Contents)
  BY <1>1, SameOperators, Zenon
<1>3. n \in Nodes
  OBVIOUS
<1>4. /\ <<n>> \o s = InsertAt(s, 0 + 1, n)
      /\ Append(s, n) = InsertAt(s, Len(s) + 1, n)
  BY <1>1, <1>3, AtTheEnds, Zenon
<1>5. Contents' = Sequence!InsertAt(Contents, i + 1, n)
  BY <1>1, SameOperators, Zenon
<1>6. CASE i = 0 /\ \E op \in {"AddNodeToHead", "Push", "Enqueue"} : call' = <<op, n>>
  <2>1. PICK op \in {"AddNodeToHead", "Push", "Enqueue"} : call' = <<op, n>>
    BY <1>6
  <2>2. Sequence!AddToHead(op, n)
    BY <1>1, <1>4, <1>6, <2>1 DEF Sequence!AddToHead
  <2> QED
    BY <1>2, <2>2 DEF Sequence!Next
<1>7. CASE i = Len(s) /\ call' = <<"AddNodeToTail", n>>
  <2>1. Sequence!AddToTail("AddNodeToTail", n)
    BY <1>1, <1>4, <1>7 DEF Sequence!AddToTail
  <2> QED
    BY <1>2, <2>1 DEF Sequence!Next
<1>8. CASE i # 0 /\ call' = <<"InsertNodeAfter", s[i], n>>
  <2>1. i \in 1 .. Len(s)
    BY <1>8
  <2>2. i \in DOMAIN Contents
    BY <1>1, <2>1, Zenon
  <2>3. Sequence!InsertAfter(i, n)
    BY <1>1, <1>5, <1>8 DEF Sequence!InsertAfter
  <2> QED
    BY <1>2, <2>2, <2>3 DEF Sequence!Next
<1>9. CASE i # Len(s) /\ call' = <<"InsertNodeBefore", s[i + 1], n>>
  <2>1. i + 1 \in 1 .. Len(s)
    <3>1. Len(s) \in Nat
      BY <1>1, Zenon
    <3>2. i # Len(s)
      BY <1>9
    <3> QED
      BY <3>1, <3>2
  <2>2. i + 1 \in DOMAIN Contents
    BY <1>1, <2>1, Zenon
  <2>3. Sequence!InsertBefore(i + 1, n)
    BY <1>1, <1>5, <1>9, Zenon DEF Sequence!InsertBefore
  <2> QED
    BY <1>2, <2>2, <2>3 DEF Sequence!Next
<1> QED
  BY <1>6, <1>7, <1>8, <1>9

FromHead == {"RemoveNodeFromHead", "Pop"}
FromTail == {"RemoveNodeFromTail", "Dequeue"}

(* What a call that unlinks a node may say.                                *)
LEMMA RemovePromised ==
    ASSUME ListTypeOK, NEW s, Represents(s), NEW i \in 1 .. Len(s), Contents' = RemoveAt(s, i),
           \/ call' = <<"RemoveNode", s[i]>>
           \/ i = 1 /\ \E op \in FromHead : call' = <<op, s[i]>>
           \/ i = Len(s) /\ \E op \in FromTail : call' = <<op, s[i]>>
    PROVE  Sequence!Next
<1>1. /\ s \in Seq(Nodes) /\ Contents = s /\ Len(s) \in Nat /\ DOMAIN s = 1 .. Len(s)
      /\ s[i] \in Nodes /\ i \in DOMAIN Contents
  BY Pointers
<1>2. s # <<>>
  BY <1>1, EmptySeq
<1>3. Tail(s) = RemoveAt(s, 1) /\ Front(s) = RemoveAt(s, Len(s))
  BY <1>1, <1>2, AtTheEnds
<1>4. CASE call' = <<"RemoveNode", s[i]>>
  <2>1. Sequence!RemoveIt(s[i])
    BY <1>1, <1>4, SameOperators DEF Sequence!RemoveIt
  <2> QED
    BY <1>1, <2>1, SameOperators DEF Sequence!Next
<1>5. CASE i = 1 /\ \E op \in FromHead : call' = <<op, s[i]>>
  <2>1. PICK op \in FromHead : call' = <<op, s[i]>>
    BY <1>5
  <2>2. Sequence!TakeFromHead(op)
    BY <1>1, <1>2, <1>3, <1>5, <2>1, SameOperators DEF Sequence!TakeFromHead
  <2> QED
    BY <2>2, SameOperators DEF Sequence!Next, FromHead
<1>6. CASE i = Len(s) /\ \E op \in FromTail : call' = <<op, s[i]>>
  <2>1. PICK op \in FromTail : call' = <<op, s[i]>>
    BY <1>6
  <2>2. Sequence!TakeFromTail(op)
    BY <1>1, <1>2, <1>3, <1>6, <2>1, SameOperators DEF Sequence!TakeFromTail
  <2> QED
    BY <2>2, SameOperators DEF Sequence!Next, FromTail
<1> QED
  BY <1>4, <1>5, <1>6

(* What a call that finds nothing may say.                                 *)
LEMMA StayPromised ==
    ASSUME ListTypeOK, NEW s, Represents(s), Contents' = s,
           \/ \E n \in Nodes \ ToSet(s) : call' = <<"RemoveNode", n>>
           \/ s = <<>> /\ \E op \in FromHead \cup FromTail : call' = <<op, NULL>>
    PROVE  Sequence!Next
<1>1. Contents = s
  BY Pointers
<1>2. CASE \E n \in Nodes \ ToSet(s) : call' = <<"RemoveNode", n>>
  <2>1. PICK n \in Nodes \ ToSet(s) : call' = <<"RemoveNode", n>>
    BY <1>2
  <2>2. Sequence!RemoveIt(n)
    BY <1>1, <2>1, SameOperators DEF Sequence!RemoveIt
  <2> QED
    BY <2>2, SameOperators DEF Sequence!Next
<1>3. ASSUME s = <<>>, NEW op \in FromHead, call' = <<op, NULL>> PROVE Sequence!Next
  <2>1. Sequence!TakeFromHead(op)
    BY <1>1, <1>3, SameOperators DEF Sequence!TakeFromHead
  <2> QED
    BY <2>1, SameOperators DEF Sequence!Next, FromHead
<1>4. ASSUME s = <<>>, NEW op \in FromTail, call' = <<op, NULL>> PROVE Sequence!Next
  <2>1. Sequence!TakeFromTail(op)
    BY <1>1, <1>4, SameOperators DEF Sequence!TakeFromTail
  <2> QED
    BY <2>1, SameOperators DEF Sequence!Next, FromTail
<1> QED
  BY <1>2, <1>3, <1>4

Promised == ListInv' /\ [Sequence!Next]_<<Contents, call>>

(* A node is linked into a list without backward pointers.                 *)
LEMMA SlLinked ==
    ASSUME ListTypeOK, Read', NEW s, Represents(s), kind \in {"slist", "stack"}, UNCHANGED <<kind, Prev_>>,
           NEW n \in Nodes \ ToSet(s), NEW i \in 0 .. Len(s),
           Next_' = [Next_ EXCEPT ![Cell(s, i)] = n, ![n] = Next_[Cell(s, i)]],
           Count' = IF kind \in {"stack", "queue"} THEN Count + 1 ELSE Count
    PROVE  ListInv' /\ Contents' = InsertAt(s, i + 1, n)
<1>1. n \in Cells /\ n # Cell(s, i) /\ Cell(s, i) \in Cells
  BY Pointers DEF Cells
<1>2. Next_ \in [Cells -> Cells \cup {NULL}] /\ Prev_ \in [Cells -> Cells \cup {NULL}]
  BY DEF ListTypeOK
<1>3. /\ Next_' \in [Cells -> Cells \cup {NULL}] /\ Next_'[Cell(s, i)] = n
      /\ Next_'[n] = Next_[Cell(s, i)] /\ \A c \in Cells \ {n, Cell(s, i)} : Next_'[c] = Next_[c]
  BY <1>1, <1>2
<1>4. LinkedIn(s, i, n)
  BY <1>2, <1>3 DEF LinkedIn
<1> QED
  BY <1>4, InsertStep

(* And one is unlinked.                                                    *)
LEMMA SlUnlinked ==
    ASSUME ListTypeOK, Read', NEW s, Represents(s), kind \in {"slist", "stack"}, UNCHANGED <<kind, Prev_>>,
           NEW i \in 1 .. Len(s), Next_' = [Next_ EXCEPT ![Cell(s, i - 1)] = Next_[s[i]]],
           Count' = IF kind \in {"stack", "queue"} THEN Count - 1 ELSE Count
    PROVE  ListInv' /\ Contents' = RemoveAt(s, i)
<1>1. Cell(s, i - 1) \in Cells /\ s[i] \in Cells
  <2>1. i - 1 \in 0 .. Len(s) /\ s[i] \in Nodes
    BY Pointers
  <2> QED
    BY <2>1, Pointers DEF Cells
<1>2. Next_ \in [Cells -> Cells \cup {NULL}] /\ Prev_ \in [Cells -> Cells \cup {NULL}]
  BY DEF ListTypeOK
<1>3. /\ Next_' \in [Cells -> Cells \cup {NULL}] /\ Next_'[Cell(s, i - 1)] = Next_[s[i]]
      /\ \A c \in Cells \ {Cell(s, i - 1)} : Next_'[c] = Next_[c]
  BY <1>1, <1>2
<1>4. Unlinked(s, i)
  BY <1>2, <1>3 DEF Unlinked
<1> QED
  BY <1>4, RemoveStep

(* The first node of a list without backward pointers, if there is one.    *)
LEMMA SlFirst ==
    ASSUME ListTypeOK, NEW s, Represents(s), kind \in {"slist", "stack"}
    PROVE  /\ s = <<>> <=> Next_[ListHead] = NULL
           /\ s = <<>> <=> Len(s) = 0
           /\ s # <<>> => 1 \in 1 .. Len(s) /\ Next_[ListHead] = s[1] /\ Len(s) \in 1 .. Len(s)
<1>1. s \in Seq(Nodes) /\ Len(s) \in Nat
  BY Pointers
<1>2. s = <<>> <=> Len(s) = 0
  BY <1>1, EmptySeq
<1>3. Next_[ListHead] = IF 0 = Len(s) THEN NULL ELSE s[0 + 1]
  <2>1. 0 \in 0 .. Len(s) /\ Cell(s, 0) = ListHead /\ End = NULL
    BY Pointers DEF End
  <2> QED
    BY <2>1, Pointers
<1>4. Len(s) # 0 => 1 \in 1 .. Len(s) /\ Len(s) \in 1 .. Len(s) /\ 0 + 1 = 1
  BY <1>1
<1>5. NULL \notin Nodes /\ \A i \in 1 .. Len(s) : s[i] \in Nodes
  BY Pointers, ListsAssumption DEF Cells
<1> QED
  BY <1>2, <1>3, <1>4, <1>5

(* A single list.                                                          *)
LEMMA SlistStep ==
    ASSUME ListTypeOK, Read', NEW s, Represents(s), Slist
    PROVE  Promised
<1>1. /\ s \in Seq(Nodes) /\ IsInjective(s) /\ Len(s) \in Nat /\ DOMAIN s = 1 .. Len(s)
      /\ Contents = s /\ Listed = ToSet(s)
  BY Pointers
<1>2. \A i \in 0 .. Len(s) : /\ Cell(s, i) \in Cells
                             /\ Next_[Cell(s, i)] = IF i = Len(s) THEN End ELSE s[i + 1]
  BY Pointers
<1>3. \A i \in 1 .. Len(s) : s[i] \in Nodes /\ s[i] \in ToSet(s) /\ Cell(s, i) = s[i]
  BY Pointers
<1>4. /\ 0 \in 0 .. Len(s) /\ Cell(s, 0) = ListHead /\ Len(s) \in 0 .. Len(s)
      /\ \A i \in 1 .. Len(s) : i \in 0 .. Len(s) /\ i - 1 \in 0 .. Len(s) /\ (i - 1) + 1 = i
  BY Pointers
<1>5. kind = "slist" /\ kind' = "slist" /\ Prev_' = Prev_ /\ Count' = Count
  BY DEF Slist
<1>6. End = NULL
  BY <1>5 DEF End
<1>7. LastNode = Cell(s, Len(s)) /\ \A i \in 1 .. Len(s) : Prior(s[i]) = Cell(s, i - 1)
  BY Reads
<1>8. ASSUME NEW n \in Nodes \ ToSet(s), NEW i \in 0 .. Len(s),
              Next_' = [Next_ EXCEPT ![Cell(s, i)] = n, ![n] = Next_[Cell(s, i)]]
       PROVE  ListInv' /\ Contents' = InsertAt(s, i + 1, n)
  BY <1>5, <1>8, SlLinked
<1>9. ASSUME NEW i \in 1 .. Len(s), Next_' = [Next_ EXCEPT ![Cell(s, i - 1)] = Next_[s[i]]]
       PROVE  ListInv' /\ Contents' = RemoveAt(s, i)
  BY <1>5, <1>9, SlUnlinked
<1>10. ASSUME Next_' = Next_ PROVE ListInv' /\ Contents' = s
  BY <1>5, <1>10, StayStep
<1>11. ASSUME NEW n \in Nodes \ Listed, SlInsertNodeAfter(ListHead, n), call' = <<"AddNodeToHead", n>>
       PROVE  Promised
  <2>1. ListInv' /\ Contents' = InsertAt(s, 0 + 1, n)
    BY <1>1, <1>4, <1>8, <1>11 DEF SlInsertNodeAfter
  <2>2. Sequence!Next
    BY <1>1, <1>4, <1>11, <2>1, InsertPromised
  <2> QED
    BY <2>1, <2>2 DEF Promised
<1>12. ASSUME NEW n \in Nodes \ Listed, SlAddNodeToTail(n), call' = <<"AddNodeToTail", n>>
       PROVE  Promised
  <2>1. Next_[LastNode] = NULL
    BY <1>2, <1>4, <1>6, <1>7
  <2>2. ListInv' /\ Contents' = InsertAt(s, Len(s) + 1, n)
    BY <1>1, <1>4, <1>7, <1>8, <1>12, <2>1 DEF SlAddNodeToTail
  <2>3. Sequence!Next
    BY <1>1, <1>4, <1>12, <2>2, InsertPromised
  <2> QED
    BY <2>2, <2>3 DEF Promised
<1>13. ASSUME NEW n \in Nodes \ Listed, NEW m \in Listed, SlInsertNodeAfter(m, n),
              call' = <<"InsertNodeAfter", m, n>>
       PROVE  Promised
  <2>1. PICK i \in 1 .. Len(s) : m = s[i]
    BY <1>1 DEF ToSet
  <2>2. i # 0 /\ i \in 0 .. Len(s) /\ Cell(s, i) = m
    BY <1>3, <1>4, <2>1
  <2>3. ListInv' /\ Contents' = InsertAt(s, i + 1, n)
    BY <1>1, <1>8, <1>13, <2>2 DEF SlInsertNodeAfter
  <2>4. Sequence!Next
    BY <1>1, <1>13, <2>1, <2>2, <2>3, InsertPromised
  <2> QED
    BY <2>3, <2>4 DEF Promised
<1>14. ASSUME NEW n \in Nodes \ Listed, NEW m \in Listed, SlInsertNodeBefore(m, n),
              call' = <<"InsertNodeBefore", m, n>>
       PROVE  Promised
  <2>1. PICK i \in 1 .. Len(s) : m = s[i]
    BY <1>1 DEF ToSet
  <2>2. i - 1 \in 0 .. Len(s) /\ i - 1 # Len(s) /\ (i - 1) + 1 = i /\ Prior(m) = Cell(s, i - 1)
    BY <1>1, <1>4, <1>7, <2>1
  <2>3. Next_[Cell(s, i - 1)] = m
    BY <1>2, <2>1, <2>2
  <2>4. ListInv' /\ Contents' = InsertAt(s, (i - 1) + 1, n)
    BY <1>1, <1>8, <1>14, <2>2, <2>3 DEF SlInsertNodeBefore
  <2>5. Sequence!Next
    BY <1>1, <1>14, <2>1, <2>2, <2>4, InsertPromised
  <2> QED
    BY <2>4, <2>5 DEF Promised
<1>15. ASSUME NEW n \in Nodes, SlRemoveNode(n), call' = <<"RemoveNode", n>>
       PROVE  Promised
  <2>1. CASE n \in Listed
    <3>1. PICK i \in 1 .. Len(s) : n = s[i]
      BY <1>1, <2>1 DEF ToSet
    <3>2. ListInv' /\ Contents' = RemoveAt(s, i)
      BY <1>7, <1>9, <1>15, <2>1, <3>1 DEF SlRemoveNode
    <3>3. Sequence!Next
      BY <1>15, <3>1, <3>2, RemovePromised
    <3> QED
      BY <3>2, <3>3 DEF Promised
  <2>2. CASE n \notin Listed
    <3>1. ListInv' /\ Contents' = s
      BY <1>10, <1>15, <2>2 DEF SlRemoveNode
    <3>2. Sequence!Next
      BY <1>1, <1>15, <2>2, <3>1, StayPromised
    <3> QED
      BY <3>1, <3>2 DEF Promised
  <2> QED
    BY <2>1, <2>2
<1>16. /\ s = <<>> <=> Next_[ListHead] = NULL
       /\ s # <<>> => 1 \in 1 .. Len(s) /\ Next_[ListHead] = s[1] /\ Len(s) \in 1 .. Len(s)
  BY <1>5, SlFirst
<1>17. ASSUME SlRemoveNodeFromHead("RemoveNodeFromHead") PROVE Promised
  <2>1. CASE s = <<>>
    <3>1. ListInv' /\ Contents' = s /\ call' = <<"RemoveNodeFromHead", NULL>>
      BY <1>10, <1>16, <1>17, <2>1 DEF SlRemoveNodeFromHead
    <3>2. Sequence!Next
      BY <2>1, <3>1, StayPromised DEF FromHead
    <3> QED
      BY <3>1, <3>2 DEF Promised
  <2>2. CASE s # <<>>
    <3>1. 1 \in 1 .. Len(s) /\ 1 - 1 = 0
      BY <1>16, <2>2
    <3>3. Next_' = [Next_ EXCEPT ![Cell(s, 1 - 1)] = Next_[s[1]]] /\ call' = <<"RemoveNodeFromHead", s[1]>>
      BY <1>4, <1>16, <1>17, <2>2, <3>1 DEF SlRemoveNodeFromHead
    <3>4. ListInv' /\ Contents' = RemoveAt(s, 1)
      BY <1>9, <3>1, <3>3
    <3>5. Sequence!Next
      BY <3>1, <3>3, <3>4, RemovePromised DEF FromHead
    <3> QED
      BY <3>4, <3>5 DEF Promised
  <2> QED
    BY <2>1, <2>2
<1>18. ASSUME SlRemoveNodeFromTail("RemoveNodeFromTail") PROVE Promised
  <2>1. CASE s = <<>>
    <3>1. ListInv' /\ Contents' = s /\ call' = <<"RemoveNodeFromTail", NULL>>
      BY <1>10, <1>16, <1>18, <2>1 DEF SlRemoveNodeFromTail
    <3>2. Sequence!Next
      BY <2>1, <3>1, StayPromised DEF FromTail
    <3> QED
      BY <3>1, <3>2 DEF Promised
  <2>2. CASE s # <<>>
    <3>1. Len(s) \in 1 .. Len(s)
      BY <1>16, <2>2
    <3>2. LastNode = s[Len(s)] /\ Next_[s[Len(s)]] = NULL /\ Prior(LastNode) = Cell(s, Len(s) - 1)
      BY <1>2, <1>3, <1>4, <1>6, <1>7, <3>1
    <3>3. /\ Next_' = [Next_ EXCEPT ![Cell(s, Len(s) - 1)] = Next_[s[Len(s)]]]
          /\ call' = <<"RemoveNodeFromTail", s[Len(s)]>>
      BY <1>16, <1>18, <2>2, <3>2 DEF SlRemoveNodeFromTail
    <3>4. ListInv' /\ Contents' = RemoveAt(s, Len(s))
      BY <1>9, <3>1, <3>3
    <3>5. Sequence!Next
      BY <3>1, <3>3, <3>4, RemovePromised DEF FromTail
    <3> QED
      BY <3>4, <3>5 DEF Promised
  <2> QED
    BY <2>1, <2>2
<1> QED
  BY <1>11, <1>12, <1>13, <1>14, <1>15, <1>17, <1>18 DEF Slist

(* A stack.                                                                *)
LEMMA StackStep ==
    ASSUME ListTypeOK, Read', NEW s, Represents(s), Stack
    PROVE  Promised
<1>1. /\ s \in Seq(Nodes) /\ Contents = s /\ Listed = ToSet(s) /\ Len(s) \in Nat
      /\ 0 \in 0 .. Len(s) /\ Cell(s, 0) = ListHead
  BY Pointers
<1>2. kind = "stack" /\ kind' = kind /\ Prev_' = Prev_
  BY DEF Stack
<1>3. Count = Len(s)
  BY <1>2 DEF Represents
<1>4. /\ s = <<>> <=> Next_[ListHead] = NULL
      /\ s = <<>> <=> Len(s) = 0
      /\ s # <<>> => 1 \in 1 .. Len(s) /\ Next_[ListHead] = s[1]
  BY <1>2, SlFirst
<1>5. ASSUME NEW n \in Nodes \ Listed, PushOnStack(n) PROVE Promised
  <2>1. ListInv' /\ Contents' = InsertAt(s, 0 + 1, n)
    BY <1>1, <1>2, <1>5, SlLinked DEF PushOnStack, SlInsertNodeAfter
  <2>2. call' = <<"Push", n>>
    BY <1>5 DEF PushOnStack
  <2>3. Sequence!Next
    BY <1>1, <2>1, <2>2, InsertPromised
  <2> QED
    BY <2>1, <2>3 DEF Promised
<1>6. ASSUME PopOffStack PROVE Promised
  <2>1. CASE s = <<>>
    <3>1. ListInv' /\ Contents' = s /\ call' = <<"Pop", NULL>>
      BY <1>2, <1>3, <1>4, <1>6, <2>1, StayStep DEF PopOffStack
    <3>2. Sequence!Next
      BY <2>1, <3>1, StayPromised DEF FromHead
    <3> QED
      BY <3>1, <3>2 DEF Promised
  <2>2. CASE s # <<>>
    <3>1. 1 \in 1 .. Len(s) /\ 1 - 1 = 0 /\ Next_[ListHead] # NULL /\ Count # 0
      BY <1>3, <1>4, <2>2
    <3>2. /\ Next_' = [Next_ EXCEPT ![Cell(s, 1 - 1)] = Next_[s[1]]] /\ call' = <<"Pop", s[1]>>
          /\ Count' = Count - 1
      BY <1>1, <1>4, <1>6, <2>2, <3>1 DEF PopOffStack, SlRemoveNodeFromHead
    <3>3. ListInv' /\ Contents' = RemoveAt(s, 1)
      BY <1>2, <3>1, <3>2, SlUnlinked
    <3>4. Sequence!Next
      BY <3>1, <3>2, <3>3, RemovePromised DEF FromHead
    <3> QED
      BY <3>3, <3>4 DEF Promised
  <2> QED
    BY <2>1, <2>2
<1> QED
  BY <1>5, <1>6 DEF Stack

(* The pointers of a ring, both ways.                                      *)
LEMMA Ring ==
    ASSUME ListTypeOK, NEW s, Represents(s), kind \in {"dlist", "queue"}
    PROVE  /\ \A i \in 0 .. Len(s) : /\ Behind(s, i) \in Cells
                                     /\ Next_[Cell(s, i)] = Behind(s, i)
                                     /\ Prev_[Behind(s, i)] = Cell(s, i)
           /\ \A i \in 1 .. Len(s) : Behind(s, i - 1) = s[i]
           /\ Behind(s, Len(s)) = ListHead
           /\ s = <<>> <=> Next_[ListHead] = ListHead
           /\ s = <<>> <=> Len(s) = 0
           /\ s # <<>> => 1 \in 1 .. Len(s) /\ Len(s) \in 1 .. Len(s) /\ Next_[ListHead] = s[1]
                          /\ Prev_[ListHead] = s[Len(s)]
<1>1. s \in Seq(Nodes) /\ IsInjective(s) /\ Len(s) \in Nat /\ End = ListHead
  BY Pointers DEF End
<1>2. \A i \in 0 .. Len(s) : Behind(s, i) \in Cells
  BY <1>1, CellsApart
<1>3. \A i \in 0 .. Len(s) : Next_[Cell(s, i)] = Behind(s, i) /\ Prev_[Behind(s, i)] = Cell(s, i)
  BY <1>1 DEF Represents, Forward, Backward, Behind
<1>4. \A i \in 1 .. Len(s) : Behind(s, i - 1) = s[i]
  <2>1. \A i \in 1 .. Len(s) : i - 1 # Len(s) /\ (i - 1) + 1 = i
    BY <1>1
  <2> QED
    BY <2>1 DEF Behind
<1>5. Behind(s, Len(s)) = ListHead
  BY DEF Behind
<1>6. s = <<>> <=> Len(s) = 0
  BY <1>1, EmptySeq
<1>7. /\ 0 \in 0 .. Len(s) /\ Len(s) \in 0 .. Len(s) /\ Cell(s, 0) = ListHead
      /\ \A i \in 1 .. Len(s) : Cell(s, i) = s[i] /\ s[i] \in Nodes
  BY Pointers
<1>8. Len(s) # 0 => 1 \in 1 .. Len(s) /\ Len(s) \in 1 .. Len(s) /\ 1 - 1 = 0
  BY <1>1
<1>9. Len(s) # 0 => Next_[ListHead] = s[1] /\ Prev_[ListHead] = s[Len(s)] /\ s[1] # ListHead
  BY <1>3, <1>4, <1>5, <1>7, <1>8, ListsAssumption
<1>10. Len(s) = 0 => Next_[ListHead] = ListHead
  BY <1>3, <1>5, <1>7
<1> QED
  BY <1>2, <1>3, <1>4, <1>5, <1>6, <1>8, <1>9, <1>10

(* A node is linked into a ring.                                           *)
LEMMA DlLinked ==
    ASSUME ListTypeOK, Read', NEW s, Represents(s), kind \in {"dlist", "queue"}, UNCHANGED kind,
           NEW n \in Nodes \ ToSet(s), NEW i \in 0 .. Len(s), DlInsertNodeAfter(Cell(s, i), n),
           Count' = IF kind \in {"stack", "queue"} THEN Count + 1 ELSE Count
    PROVE  ListInv' /\ Contents' = InsertAt(s, i + 1, n)
<1>1. n \in Cells /\ n # Cell(s, i) /\ n # Behind(s, i) /\ Cell(s, i) \in Cells
  BY Pointers DEF Cells
<1>2. Behind(s, i) \in Cells /\ Next_[Cell(s, i)] = Behind(s, i)
  BY Ring
<1>3. Next_ \in [Cells -> Cells \cup {NULL}] /\ Prev_ \in [Cells -> Cells \cup {NULL}]
  BY DEF ListTypeOK
<1>4. /\ Next_' = [Next_ EXCEPT ![n] = Next_[Cell(s, i)], ![Cell(s, i)] = n]
      /\ Prev_' = [Prev_ EXCEPT ![n] = Cell(s, i), ![Behind(s, i)] = n]
  BY <1>2 DEF DlInsertNodeAfter
<1>5. /\ Next_' \in [Cells -> Cells \cup {NULL}] /\ Next_'[Cell(s, i)] = n
      /\ Next_'[n] = Next_[Cell(s, i)] /\ \A c \in Cells \ {n, Cell(s, i)} : Next_'[c] = Next_[c]
  BY <1>1, <1>3, <1>4
<1>6. /\ Prev_' \in [Cells -> Cells \cup {NULL}] /\ Prev_'[n] = Cell(s, i)
      /\ Prev_'[Behind(s, i)] = n /\ \A c \in Cells \ {n, Behind(s, i)} : Prev_'[c] = Prev_[c]
  BY <1>1, <1>2, <1>3, <1>4
<1>7. LinkedIn(s, i, n)
  BY <1>5, <1>6 DEF LinkedIn
<1> QED
  BY <1>7, InsertStep

(* And one is unlinked.                                                    *)
LEMMA DlUnlinked ==
    ASSUME ListTypeOK, Read', NEW s, Represents(s), kind \in {"dlist", "queue"}, UNCHANGED kind,
           NEW i \in 1 .. Len(s), DlRemoveNode(s[i]),
           Count' = IF kind \in {"stack", "queue"} THEN Count - 1 ELSE Count
    PROVE  ListInv' /\ Contents' = RemoveAt(s, i)
<1>1. i \in 0 .. Len(s) /\ i - 1 \in 0 .. Len(s) /\ Cell(s, i) = s[i]
  BY Pointers
<1>2. Cell(s, i - 1) \in Cells /\ s[i] \in Cells
  BY <1>1, Pointers DEF Cells
<1>3. Behind(s, i) \in Cells /\ Next_[s[i]] = Behind(s, i) /\ Prev_[s[i]] = Cell(s, i - 1)
  BY <1>1, Ring
<1>4. Next_ \in [Cells -> Cells \cup {NULL}] /\ Prev_ \in [Cells -> Cells \cup {NULL}]
  BY DEF ListTypeOK
<1>5. /\ Next_' = [Next_ EXCEPT ![Cell(s, i - 1)] = Next_[s[i]]]
      /\ Prev_' = [Prev_ EXCEPT ![Behind(s, i)] = Cell(s, i - 1)]
  BY <1>3 DEF DlRemoveNode
<1>6. /\ Next_' \in [Cells -> Cells \cup {NULL}] /\ Next_'[Cell(s, i - 1)] = Next_[s[i]]
      /\ \A c \in Cells \ {Cell(s, i - 1)} : Next_'[c] = Next_[c]
  BY <1>2, <1>3, <1>4, <1>5
<1>7. /\ Prev_' \in [Cells -> Cells \cup {NULL}] /\ Prev_'[Behind(s, i)] = Cell(s, i - 1)
      /\ \A c \in Cells \ {Behind(s, i)} : Prev_'[c] = Prev_[c]
  BY <1>2, <1>3, <1>4, <1>5
<1>8. Unlinked(s, i)
  BY <1>6, <1>7 DEF Unlinked
<1> QED
  BY <1>8, RemoveStep

(* A double list.                                                          *)
LEMMA DlistStep ==
    ASSUME ListTypeOK, Read', NEW s, Represents(s), Dlist
    PROVE  Promised
<1>1. /\ s \in Seq(Nodes) /\ Len(s) \in Nat /\ DOMAIN s = 1 .. Len(s)
      /\ Contents = s /\ Listed = ToSet(s)
  BY Pointers
<1>2. kind = "dlist" /\ kind' = kind /\ Count' = Count
  BY DEF Dlist
<1>3. \A i \in 1 .. Len(s) : Cell(s, i) = s[i] /\ i \in 0 .. Len(s) /\ i - 1 \in 0 .. Len(s) /\ (i - 1) + 1 = i
  BY Pointers
<1>4. 0 \in 0 .. Len(s) /\ Cell(s, 0) = ListHead /\ Len(s) \in 0 .. Len(s)
  BY Pointers
<1>5. /\ \A i \in 0 .. Len(s) : Prev_[Behind(s, i)] = Cell(s, i)
      /\ \A i \in 1 .. Len(s) : Behind(s, i - 1) = s[i]
      /\ Behind(s, Len(s)) = ListHead
  BY <1>2, Ring
<1>6. /\ s = <<>> <=> Next_[ListHead] = ListHead
      /\ s # <<>> => 1 \in 1 .. Len(s) /\ Len(s) \in 1 .. Len(s) /\ Next_[ListHead] = s[1]
                     /\ Prev_[ListHead] = s[Len(s)]
  BY <1>2, Ring
<1>7. ASSUME NEW n \in Nodes \ ToSet(s), NEW i \in 0 .. Len(s), DlInsertNodeAfter(Cell(s, i), n)
      PROVE  ListInv' /\ Contents' = InsertAt(s, i + 1, n)
  BY <1>2, <1>7, DlLinked
<1>8. ASSUME NEW i \in 1 .. Len(s), DlRemoveNode(s[i])
      PROVE  ListInv' /\ Contents' = RemoveAt(s, i)
  BY <1>2, <1>8, DlUnlinked
<1>9. ASSUME NEW n \in Nodes \ Listed, DlInsertNodeAfter(ListHead, n), call' = <<"AddNodeToHead", n>>
      PROVE  Promised
  <2>1. ListInv' /\ Contents' = InsertAt(s, 0 + 1, n)
    BY <1>1, <1>4, <1>7, <1>9
  <2>2. Sequence!Next
    BY <1>1, <1>4, <1>9, <2>1, InsertPromised
  <2> QED
    BY <2>1, <2>2 DEF Promised
<1>10. ASSUME NEW n \in Nodes \ Listed, DlInsertNodeAfter(Prev_[ListHead], n), call' = <<"AddNodeToTail", n>>
       PROVE  Promised
  <2>1. Prev_[ListHead] = Cell(s, Len(s))
    BY <1>4, <1>5
  <2>2. ListInv' /\ Contents' = InsertAt(s, Len(s) + 1, n)
    BY <1>1, <1>4, <1>7, <1>10, <2>1
  <2>3. Sequence!Next
    BY <1>1, <1>4, <1>10, <2>2, InsertPromised
  <2> QED
    BY <2>2, <2>3 DEF Promised
<1>11. ASSUME NEW n \in Nodes \ Listed, NEW m \in Listed, DlInsertNodeAfter(m, n),
              call' = <<"InsertNodeAfter", m, n>>
       PROVE  Promised
  <2>1. PICK i \in 1 .. Len(s) : m = s[i]
    BY <1>1 DEF ToSet
  <2>2. i # 0 /\ i \in 0 .. Len(s) /\ Cell(s, i) = m
    BY <1>3, <2>1
  <2>3. ListInv' /\ Contents' = InsertAt(s, i + 1, n)
    BY <1>1, <1>7, <1>11, <2>2
  <2>4. Sequence!Next
    BY <1>1, <1>11, <2>1, <2>2, <2>3, InsertPromised
  <2> QED
    BY <2>3, <2>4 DEF Promised
<1>12. ASSUME NEW n \in Nodes \ Listed, NEW m \in Listed, DlInsertNodeBefore(m, n),
              call' = <<"InsertNodeBefore", m, n>>
       PROVE  Promised
  <2>1. PICK i \in 1 .. Len(s) : m = s[i]
    BY <1>1 DEF ToSet
  <2>2. i - 1 \in 0 .. Len(s) /\ i - 1 # Len(s) /\ (i - 1) + 1 = i
    BY <1>1, <1>3
  <2>3. Prev_[m] = Cell(s, i - 1)
    BY <1>5, <2>1, <2>2
  <2>4. ListInv' /\ Contents' = InsertAt(s, (i - 1) + 1, n)
    BY <1>1, <1>7, <1>12, <2>2, <2>3 DEF DlInsertNodeBefore
  <2>5. Sequence!Next
    BY <1>1, <1>12, <2>1, <2>2, <2>4, InsertPromised
  <2> QED
    BY <2>4, <2>5 DEF Promised
<1>13. ASSUME NEW n \in Listed, DlRemoveNode(n), call' = <<"RemoveNode", n>>
       PROVE  Promised
  <2>1. PICK i \in 1 .. Len(s) : n = s[i]
    BY <1>1 DEF ToSet
  <2>2. ListInv' /\ Contents' = RemoveAt(s, i)
    BY <1>8, <1>13, <2>1
  <2>3. Sequence!Next
    BY <1>13, <2>1, <2>2, RemovePromised
  <2> QED
    BY <2>2, <2>3 DEF Promised
<1>14. ASSUME NEW op \in FromHead \cup FromTail, NEW end, s = <<>>, DlRemoveNodeFrom(op, end)
       PROVE  Promised
  <2>1. ListInv' /\ Contents' = s /\ call' = <<op, NULL>>
    BY <1>2, <1>6, <1>14, StayStep DEF DlRemoveNodeFrom
  <2>2. Sequence!Next
    BY <1>14, <2>1, StayPromised
  <2> QED
    BY <2>1, <2>2 DEF Promised
<1>15. ASSUME DlRemoveNodeFrom("RemoveNodeFromHead", Next_[ListHead]), s # <<>> PROVE Promised
  <2>1. 1 \in 1 .. Len(s) /\ DlRemoveNode(s[1]) /\ call' = <<"RemoveNodeFromHead", s[1]>>
    BY <1>6, <1>15 DEF DlRemoveNodeFrom
  <2>2. ListInv' /\ Contents' = RemoveAt(s, 1)
    BY <1>8, <2>1
  <2>3. Sequence!Next
    BY <2>1, <2>2, RemovePromised DEF FromHead
  <2> QED
    BY <2>2, <2>3 DEF Promised
<1>16. ASSUME DlRemoveNodeFrom("RemoveNodeFromTail", Prev_[ListHead]), s # <<>> PROVE Promised
  <2>1. Len(s) \in 1 .. Len(s) /\ DlRemoveNode(s[Len(s)]) /\ call' = <<"RemoveNodeFromTail", s[Len(s)]>>
    BY <1>6, <1>16 DEF DlRemoveNodeFrom
  <2>2. ListInv' /\ Contents' = RemoveAt(s, Len(s))
    BY <1>8, <2>1
  <2>3. Sequence!Next
    BY <2>1, <2>2, RemovePromised DEF FromTail
  <2> QED
    BY <2>2, <2>3 DEF Promised
<1>17. {"RemoveNodeFromHead", "RemoveNodeFromTail"} \subseteq FromHead \cup FromTail
  BY DEF FromHead, FromTail
<1> QED
  BY <1>9, <1>10, <1>11, <1>12, <1>13, <1>14, <1>15, <1>16, <1>17 DEF Dlist

(* A queue.                                                                *)
LEMMA QueueStep ==
    ASSUME ListTypeOK, Read', NEW s, Represents(s), Queue
    PROVE  Promised
<1>1. /\ s \in Seq(Nodes) /\ Contents = s /\ Listed = ToSet(s) /\ Len(s) \in Nat
      /\ 0 \in 0 .. Len(s) /\ Cell(s, 0) = ListHead
  BY Pointers
<1>2. kind = "queue" /\ kind' = kind
  BY DEF Queue
<1>3. Count = Len(s)
  BY <1>2 DEF Represents
<1>4. /\ s = <<>> <=> Next_[ListHead] = ListHead
      /\ s = <<>> <=> Len(s) = 0
      /\ s # <<>> => Len(s) \in 1 .. Len(s) /\ Prev_[ListHead] = s[Len(s)]
  BY <1>2, Ring
<1>5. ASSUME NEW n \in Nodes \ Listed, Enqueue(n) PROVE Promised
  <2>1. ListInv' /\ Contents' = InsertAt(s, 0 + 1, n)
    BY <1>1, <1>2, <1>5, DlLinked DEF Enqueue
  <2>2. call' = <<"Enqueue", n>>
    BY <1>5 DEF Enqueue
  <2>3. Sequence!Next
    BY <1>1, <2>1, <2>2, InsertPromised
  <2> QED
    BY <2>1, <2>3 DEF Promised
<1>6. ASSUME Dequeue PROVE Promised
  <2>1. CASE s = <<>>
    <3>1. ListInv' /\ Contents' = s /\ call' = <<"Dequeue", NULL>>
      BY <1>2, <1>3, <1>4, <1>6, <2>1, StayStep DEF Dequeue
    <3>2. Sequence!Next
      BY <2>1, <3>1, StayPromised DEF FromTail
    <3> QED
      BY <3>1, <3>2 DEF Promised
  <2>2. CASE s # <<>>
    <3>1. /\ Len(s) \in 1 .. Len(s) /\ DlRemoveNode(s[Len(s)]) /\ call' = <<"Dequeue", s[Len(s)]>>
          /\ Count' = Count - 1
      BY <1>3, <1>4, <1>6, <2>2 DEF Dequeue, DlRemoveNodeFrom
    <3>2. ListInv' /\ Contents' = RemoveAt(s, Len(s))
      BY <1>2, <3>1, DlUnlinked
    <3>3. Sequence!Next
      BY <3>1, <3>2, RemovePromised DEF FromTail
    <3> QED
      BY <3>2, <3>3 DEF Promised
  <2> QED
    BY <2>1, <2>2
<1> QED
  BY <1>5, <1>6 DEF Queue

(* Nothing is listed in the beginning.                                     *)
LEMMA ListInitInv == ListInit => ListInv /\ Represents(<<>>)
<1> SUFFICES ASSUME ListInit PROVE ListTypeOK /\ Represents(<<>>)
  BY DEF ListInv
<1>1. IsFiniteSet(Nodes)
  BY ListsAssumption
<1>2. Cardinality(Nodes) \in Nat
  BY <1>1, FS_CardinalityType
<1>3. PICK junk \in Nodes \cup {NULL} :
         /\ Next_ = [c \in Cells |-> IF c = ListHead THEN End ELSE junk]
         /\ Prev_ = [c \in Cells |-> IF c = ListHead THEN End ELSE junk]
  BY DEF ListInit, End
<1>4. ListHead \in Cells /\ End \in Cells \cup {NULL} /\ junk \in Cells \cup {NULL}
  BY DEF End, Cells
<1>5. ListTypeOK
  <2>1. Count \in 0 .. Cardinality(Nodes)
    BY <1>2 DEF ListInit
  <2>2. kind \in {"slist", "stack", "dlist", "queue"}
    BY DEF ListInit
  <2> QED
    BY <1>3, <1>4, <2>1, <2>2 DEF ListTypeOK
<1>6. <<>> \in Seq(Nodes) /\ Len(<<>>) = 0 /\ IsInjective(<<>>)
  BY EmptySeq, EmptySet
<1>7. Forward(Next_, <<>>, End)
  BY <1>3, <1>4, <1>6 DEF Forward, Cell
<1>8. kind \in {"dlist", "queue"} => Backward(Prev_, <<>>)
  BY <1>3, <1>4, <1>6 DEF Backward, Cell, Behind, End
<1>9. Count = Len(<<>>)
  BY <1>6 DEF ListInit
<1> QED
  BY <1>5, <1>6, <1>7, <1>8, <1>9 DEF Represents

(* Every call keeps the invariant, and is one on sequences.                *)
LEMMA ListNextInv == ListInv /\ Read' /\ [ListNext]_listVars => Promised
<1> SUFFICES ASSUME ListInv, Read', [ListNext]_listVars PROVE Promised
  OBVIOUS
<1>1. ListTypeOK
  BY DEF ListInv
<1>2. PICK s : Represents(s)
  BY DEF ListInv
<1>3. CASE ListNext
  BY <1>1, <1>2, <1>3, SlistStep, DlistStep, StackStep, QueueStep DEF ListNext
<1>4. CASE UNCHANGED listVars
  <2>1. ListInv' /\ Contents' = s
    BY <1>1, <1>2, <1>4, StayStep DEF listVars
  <2>2. Contents = s /\ call' = call
    BY <1>1, <1>2, <1>4, Pointers DEF listVars
  <2> QED
    BY <2>1, <2>2 DEF Promised
<1> QED
  BY <1>3, <1>4

(* The pointers represent some sequence at any time.                       *)
LEMMA ListInvariant == ListSpec => []ListInv
<1>1. ListInit => ListInv
  BY ListInitInv
<1>2. ListInv /\ Read' /\ [ListNext]_listVars => ListInv'
  BY ListNextInv DEF Promised
<1> QED
  BY <1>1, <1>2, AlwaysRead, PTL DEF ListSpec

(* Every pointer and the count keep their types, for any nodes.            *)
THEOREM ListsTyped == ListSpec => []ListTypeOK
<1>1. ListInv => ListTypeOK
  BY DEF ListInv
<1> QED
  BY <1>1, ListInvariant, PTL

(* For any number of nodes, the single and the double list, the stack and  *)
(* the queue implement sequences, whatever the order of calls.             *)
THEOREM ListsRefine == ListSpec => ListsImplementSequences
<1>1. ListInit => Sequence!Init
  <2> SUFFICES ASSUME ListInit PROVE Sequence!Init
    OBVIOUS
  <2>1. ListTypeOK /\ Represents(<<>>) /\ call = <<>>
    <3>1. ListInv /\ Represents(<<>>)
      BY ListInitInv
    <3>2. call = <<>>
      BY DEF ListInit
    <3> QED
      BY <3>1, <3>2 DEF ListInv
  <2>2. Contents = <<>>
    BY <2>1, Pointers
  <2> QED
    BY <2>1, <2>2 DEF Sequence!Init
<1>2. ListInv /\ Read' /\ [ListNext]_listVars => [Sequence!Next]_<<Contents, call>>
  BY ListNextInv DEF Promised
<1> QED
  BY <1>1, <1>2, AlwaysRead, ListInvariant, PTL DEF ListSpec, ListsImplementSequences, Sequence!Spec

=============================================================================
