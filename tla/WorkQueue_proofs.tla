---------------------------- MODULE WorkQueue_proofs ----------------------------
(***************************************************************************)
(* Proofs about WorkQueue, for any tasks and any room on the heap.         *)
(***************************************************************************)
EXTENDS WorkQueue, SequenceLemmas, TLAPS

Queueing   == {"q_lock", "q_add", "q_event", "q_unlock"}
Destroying == {"d_lock", "d_flag", "d_event", "d_unlock"}

(* Before the worker runs, nothing happened; nor when it could not start.  *)
Fresh ==
    worker \in {"none", "failed"} =>
        /\ Queue = <<>> /\ Event = 0 /\ ~ExitThread /\ ~destroyed
        /\ \A c \in Clients : pc[c] = "out"

(* The worker runs as long as the work queue is there; work functions make *)
(* calls only while they run.                                              *)
WorkerAlive ==
    /\ Alive <=> worker \notin {"none", "failed", "gone"}
    /\ worker \in {"failed", "gone"} => resources = {}
    /\ pc[Worker] # "out" => worker = "run"
    /\ running = NoItem <=> worker # "run"

(* A client has an item in hand from the malloc until it is in the queue.  *)
ItemInHand == \A c \in Clients : item[c] = NoItem <=> pc[c] \notin {"q_lock", "q_add"}

(* Who is between the take and the give of Lock holds it, and nobody else. *)
Holds(c) ==
    \/ pc[c] \in {"q_add", "q_event", "q_unlock", "d_flag", "d_event", "d_unlock"}
    \/ c = Worker /\ worker \in {"check", "drain"}

LockHeld == \A c \in Clients : Holds(c) <=> Lock = c

(* While the worker sleeps, who left it something to do is about to wake it. *)
WakeupPending ==
    worker = "event" /\ Event = 0 =>
        /\ Queue = <<>> \/ \E c \in Clients : pc[c] = "q_event"
        /\ ExitThread => \E c \in Clients : pc[c] = "d_event"

(* DestroyWorkQueue is called once, and sets the flag under Lock.          *)
OneDestroyer ==
    /\ \A c \in Clients : pc[c] \in Destroying =>
          destroyed /\ \A d \in Clients \ {c} : pc[d] \notin Destroying
    /\ ExitThread => destroyed /\ \A c \in Clients : pc[c] \notin {"d_lock", "d_flag"}

(* The caller's side: no task queues work once DestroyWorkQueue is called. *)
Quiet == destroyed /\ ~late => \A t \in Tasks : pc[t] \notin Queueing

(* When the worker leaves it was told to, and finds no one and no work.    *)
CleanExit ==
    worker \in {"exit", "drain", "delete", "gone"} =>
        /\ ExitThread
        /\ ~late => Queue = <<>> /\ \A c \in Clients : pc[c] = "out"

Control == Fresh /\ WorkerAlive /\ ItemInHand /\ LockHeld /\ OneDestroyer /\ Quiet

IInv == TypeOK /\ Control /\ WakeupPending /\ CleanExit /\ ItemsConserved

-----------------------------------------------------------------------------
(* What each step does, as far as the lock, the calls and the worker go.   *)

(* Nothing is queued, held or on the heap at first, and the types are met. *)
LEMMA InitIInv == Init => IInv
<1> SUFFICES ASSUME Init PROVE IInv
  OBVIOUS
<1>1. Queue \in Seq(Items) /\ ToSet(Queue) = {} /\ IsInjective(Queue)
  BY EmptySet DEF Init
<1>2. TypeOK
  BY <1>1 DEF Init, TypeOK, AllResources
<1>3. Control
  BY WorkQueueAssumption
  DEF Init, Control, Fresh, WorkerAlive, Alive, AllResources, ItemInHand, LockHeld, Holds,
      OneDestroyer, Quiet, Destroying, Queueing, Clients
<1>4. WakeupPending /\ CleanExit
  BY DEF Init, WakeupPending, CleanExit
<1>5. ItemsConserved
  BY <1>1 DEF Init, ItemsConserved, Held
<1> QED
  BY <1>2, <1>3, <1>4, <1>5 DEF IInv

(* Every step keeps the types.                                             *)
LEMMA TypeNext == TypeOK /\ ItemInHand /\ [Next]_vars => TypeOK'
<1> SUFFICES ASSUME TypeOK, ItemInHand, [Next]_vars PROVE TypeOK'
  OBVIOUS
<1> USE DEF TypeOK, fields, workerv, clientv, WorkerGo, Go
<1>1. CASE UNCHANGED vars
  BY <1>1 DEF vars
<1>2. ASSUME NEW r \in AllResources, Create(r) \/ CreateFails(r) PROVE TypeOK'
  <2>1. CASE Create(r)
    BY <2>1 DEF Create
  <2>2. CASE CreateFails(r)
    BY <2>2 DEF CreateFails
  <2> QED
    BY <1>2, <2>1, <2>2
<1>3. CASE WorkerStep
  <2>0. Queue # <<>> => Head(Queue) \in Items /\ Tail(Queue) \in Seq(Items)
    BY TailSet
  <2>1. CASE TakeEvent
    BY <2>1 DEF TakeEvent, Take
  <2>2. CASE TakeLock \/ ExitLock
    BY <2>2 DEF TakeLock, ExitLock, TakeMutex, Clients
  <2>3. CASE DequeueItem
    BY <2>0, <2>3 DEF DequeueItem, GiveMutex
  <2>4. CASE FinishItem
    BY <2>4 DEF FinishItem
  <2>5. CASE NoMoreItems \/ Drained
    BY <2>5 DEF NoMoreItems, Drained, GiveMutex
  <2>6. CASE DrainItem
    BY <2>0, <2>6 DEF DrainItem
  <2>7. CASE Delete
    BY <2>7 DEF Delete
  <2> QED
    BY <1>3, <2>1, <2>2, <2>3, <2>4, <2>5, <2>6, <2>7 DEF WorkerStep
<1>4. ASSUME NEW c \in Clients, Call(c) \/ ClientStep(c) PROVE TypeOK'
  <2>1. ASSUME NEW i \in Items, QueueWorkItem(c, i) PROVE TypeOK'
    BY <2>1 DEF QueueWorkItem
  <2>2. CASE DestroyWorkQueue(c)
    BY <2>2 DEF DestroyWorkQueue
  <2>3. CASE QueueLock(c) \/ DestroyLock(c)
    BY <2>3 DEF QueueLock, DestroyLock, TakeMutex
  <2>4. CASE QueueAdd(c)
    <3>1. Append(Queue, item[c]) \in Seq(Items)
      BY <2>4 DEF QueueAdd, ItemInHand
    <3> QED
      BY <2>4, <3>1 DEF QueueAdd
  <2>5. CASE DestroyFlag(c)
    BY <2>5 DEF DestroyFlag
  <2>6. CASE GiveEvent(c)
    BY <2>6 DEF GiveEvent, Give
  <2>7. CASE GiveLock(c)
    BY <2>7 DEF GiveLock, GiveMutex
  <2> QED
    BY <1>4, <2>1, <2>2, <2>3, <2>4, <2>5, <2>6, <2>7 DEF Call, ClientStep
<1> QED
  BY <1>1, <1>2, <1>3, <1>4 DEF Next

(* And everything that does not speak of the items.                        *)
LEMMA ControlNext == TypeOK /\ Control /\ [Next]_vars => Control'
<1> SUFFICES ASSUME TypeOK, Control, [Next]_vars PROVE Control'
  OBVIOUS
<1> USE WorkQueueAssumption
    DEF TypeOK, Control, Fresh, WorkerAlive, Alive, ItemInHand, LockHeld, Holds, OneDestroyer, Quiet,
        Destroying, Queueing, Clients, fields, workerv, clientv, WorkerGo, Go
<1>1. CASE UNCHANGED vars
  BY <1>1 DEF vars
<1>2. ASSUME NEW r \in AllResources, Create(r) \/ CreateFails(r) PROVE Control'
  <2>1. CASE Create(r)
    BY <2>1 DEF Create
  <2>2. CASE CreateFails(r)
    <3>1. resources' = {} /\ resources' # AllResources
      BY <2>2 DEF CreateFails, AllResources
    <3> QED
      BY <2>2, <3>1 DEF CreateFails
  <2> QED
    BY <1>2, <2>1, <2>2
<1>3. CASE WorkerStep
  <2>1. CASE TakeEvent
    BY <2>1 DEF TakeEvent, Take
  <2>2. CASE TakeLock \/ ExitLock
    BY <2>2 DEF TakeLock, ExitLock, TakeMutex
  <2>3. CASE DequeueItem
    BY <2>3 DEF DequeueItem, GiveMutex
  <2>4. CASE FinishItem
    BY <2>4 DEF FinishItem
  <2>5. CASE NoMoreItems \/ Drained
    BY <2>5 DEF NoMoreItems, Drained, GiveMutex
  <2>6. CASE DrainItem
    BY <2>6 DEF DrainItem
  <2>7. CASE Delete
    BY <2>7 DEF Delete, AllResources
  <2> QED
    BY <1>3, <2>1, <2>2, <2>3, <2>4, <2>5, <2>6, <2>7 DEF WorkerStep
<1>4. ASSUME NEW c \in Clients, Call(c) \/ ClientStep(c) PROVE Control'
  <2>1. ASSUME NEW i \in Items, QueueWorkItem(c, i) PROVE Control'
    BY <2>1 DEF QueueWorkItem, MayCall
  <2>2. CASE DestroyWorkQueue(c)
    BY <2>2 DEF DestroyWorkQueue, MayCall
  <2>3. CASE QueueLock(c) \/ DestroyLock(c)
    BY <2>3 DEF QueueLock, DestroyLock, TakeMutex
  <2>4. CASE QueueAdd(c)
    BY <2>4 DEF QueueAdd
  <2>5. CASE DestroyFlag(c)
    BY <2>5 DEF DestroyFlag
  <2>6. CASE GiveEvent(c)
    BY <2>6 DEF GiveEvent, Give
  <2>7. CASE GiveLock(c)
    BY <2>7 DEF GiveLock, GiveMutex
  <2> QED
    BY <1>4, <2>1, <2>2, <2>3, <2>4, <2>5, <2>6, <2>7 DEF Call, ClientStep
<1> QED
  BY <1>1, <1>2, <1>3, <1>4 DEF Next

(* The worker goes to sleep only when there is nothing for it to do.       *)
LEMMA WakeupNext == TypeOK /\ Control /\ WakeupPending /\ [Next]_vars => WakeupPending'
<1> SUFFICES ASSUME TypeOK, Control, WakeupPending, [Next]_vars PROVE WakeupPending'
  OBVIOUS
<1> USE DEF TypeOK, Control, Fresh, WakeupPending, fields, workerv, clientv, WorkerGo, Go
<1>1. CASE UNCHANGED vars
  BY <1>1 DEF vars
<1>2. ASSUME NEW r \in AllResources, Create(r) \/ CreateFails(r) PROVE WakeupPending'
  BY <1>2 DEF Create, CreateFails
<1>3. CASE WorkerStep
  <2>1. CASE NoMoreItems
    BY <2>1 DEF NoMoreItems
  <2>2. CASE DrainItem
    BY <2>2 DEF DrainItem
  <2> QED
    BY <1>3, <2>1, <2>2
    DEF WorkerStep, TakeEvent, TakeLock, DequeueItem, FinishItem, ExitLock, Drained, Delete
<1>4. ASSUME NEW c \in Clients, Call(c) \/ ClientStep(c) PROVE WakeupPending'
  <2>1. ASSUME NEW i \in Items, QueueWorkItem(c, i) PROVE WakeupPending'
    BY <2>1 DEF QueueWorkItem
  <2>2. CASE DestroyWorkQueue(c)
    BY <2>2 DEF DestroyWorkQueue
  <2>3. CASE QueueLock(c) \/ DestroyLock(c)
    BY <2>3 DEF QueueLock, DestroyLock
  <2>4. CASE QueueAdd(c) \/ DestroyFlag(c)
    BY <2>4 DEF QueueAdd, DestroyFlag, LockHeld, Holds
  <2>5. CASE GiveEvent(c)
    BY <2>5 DEF GiveEvent, Give
  <2>6. CASE GiveLock(c)
    BY <2>6 DEF GiveLock
  <2> QED
    BY <1>4, <2>1, <2>2, <2>3, <2>4, <2>5, <2>6 DEF Call, ClientStep
<1> QED
  BY <1>1, <1>2, <1>3, <1>4 DEF Next

(* The worker leaves only when the flag is set and nobody is in a call.    *)
LEMMA CleanExitNext == TypeOK /\ Control /\ CleanExit /\ [Next]_vars => CleanExit'
<1> SUFFICES ASSUME TypeOK, Control, CleanExit, [Next]_vars PROVE CleanExit'
  OBVIOUS
<1> USE DEF TypeOK, Control, CleanExit, fields, workerv, clientv, WorkerGo, Go
<1>1. CASE UNCHANGED vars
  BY <1>1 DEF vars
<1>2. ASSUME NEW r \in AllResources, Create(r) \/ CreateFails(r) PROVE CleanExit'
  BY <1>2 DEF Create, CreateFails
<1>3. CASE WorkerStep
  <2>1. CASE NoMoreItems
    <3>1. ASSUME ExitThread, ~late, NEW c \in Clients PROVE pc[c] = "out"
      BY <2>1, <3>1
      DEF NoMoreItems, WorkerAlive, LockHeld, Holds, OneDestroyer, Quiet, Queueing, Clients
    <3> QED
      BY <2>1, <3>1 DEF NoMoreItems
  <2>2. CASE DrainItem
    BY <2>2 DEF DrainItem
  <2> QED
    BY <1>3, <2>1, <2>2
    DEF WorkerStep, TakeEvent, TakeLock, DequeueItem, FinishItem, ExitLock, Drained, Delete
<1>4. ASSUME NEW c \in Clients, Call(c) \/ ClientStep(c) PROVE CleanExit'
  <2>1. ASSUME NEW i \in Items, QueueWorkItem(c, i) PROVE CleanExit'
    BY <2>1 DEF QueueWorkItem, MayCall, OneDestroyer
  <2>2. CASE DestroyWorkQueue(c)
    BY <2>2 DEF DestroyWorkQueue, OneDestroyer
  <2>3. CASE ClientStep(c)
    BY <2>3 DEF ClientStep, QueueLock, DestroyLock, QueueAdd, DestroyFlag, GiveEvent, GiveLock
  <2> QED
    BY <1>4, <2>1, <2>2, <2>3 DEF Call
<1> QED
  BY <1>1, <1>2, <1>3, <1>4 DEF Next

-----------------------------------------------------------------------------
(* The items.                                                              *)

(* Where an item goes, none is lost or doubled on the way.                 *)
LEMMA ItemsNext == TypeOK /\ Control /\ ItemsConserved /\ [Next]_vars => ItemsConserved'
<1> SUFFICES ASSUME TypeOK, Control, ItemsConserved, [Next]_vars PROVE ItemsConserved'
  OBVIOUS
<1> USE WorkQueueAssumption DEF TypeOK, fields, workerv, clientv, WorkerGo, Go
<1>0. Queue # <<>> =>
         /\ Head(Queue) \in Items /\ ToSet(Queue) = ToSet(Tail(Queue)) \cup {Head(Queue)}
         /\ Head(Queue) \notin ToSet(Tail(Queue)) /\ IsInjective(Tail(Queue))
  BY TailSet DEF ItemsConserved
<1>1. ASSUME UNCHANGED <<Queue, running, item, heap>> PROVE ItemsConserved'
  BY <1>1 DEF ItemsConserved, Held
<1>2. ASSUME NEW r \in AllResources, Create(r) \/ CreateFails(r) PROVE ItemsConserved'
  BY <1>1, <1>2 DEF Create, CreateFails
<1>3. CASE WorkerStep
  <2>1. CASE DequeueItem
    <3>1. running = NoItem
      BY <2>1 DEF DequeueItem, Control, WorkerAlive
    <3> QED
      BY <1>0, <2>1, <3>1 DEF DequeueItem, ItemsConserved, Held
  <2>2. CASE FinishItem
    BY <2>2 DEF FinishItem, ItemsConserved, Held
  <2>3. CASE DrainItem
    BY <1>0, <2>3 DEF DrainItem, ItemsConserved, Held
  <2>4. CASE TakeEvent \/ TakeLock \/ NoMoreItems \/ ExitLock \/ Drained \/ Delete
    BY <1>1, <2>4 DEF TakeEvent, TakeLock, NoMoreItems, ExitLock, Drained, Delete
  <2> QED
    BY <1>3, <2>1, <2>2, <2>3, <2>4 DEF WorkerStep
<1>4. ASSUME NEW c \in Clients, Call(c) \/ ClientStep(c) PROVE ItemsConserved'
  <2>1. ASSUME NEW i \in Items, QueueWorkItem(c, i) PROVE ItemsConserved'
    <3>1. item[c] = NoItem
      BY <2>1 DEF QueueWorkItem, Control, ItemInHand
    <3> QED
      BY <2>1, <3>1 DEF QueueWorkItem, ItemsConserved, Held
  <2>2. CASE QueueAdd(c)
    <3>1. item[c] \in Items
      BY <2>2 DEF QueueAdd, Control, ItemInHand
    <3>2. /\ ToSet(Queue') = ToSet(Queue) \cup {item[c]}
          /\ IsInjective(Queue')
      BY <2>2, <3>1, AppendSet DEF QueueAdd, ItemsConserved, Held
    <3> QED
      BY <2>2, <3>1, <3>2 DEF QueueAdd, ItemsConserved, Held
  <2>3. CASE DestroyWorkQueue(c) \/ QueueLock(c) \/ DestroyLock(c) \/ DestroyFlag(c)
              \/ GiveEvent(c) \/ GiveLock(c)
    BY <1>1, <2>3 DEF DestroyWorkQueue, QueueLock, DestroyLock, DestroyFlag, GiveEvent, GiveLock
  <2> QED
    BY <1>4, <2>1, <2>2, <2>3 DEF Call, ClientStep
<1>5. CASE UNCHANGED vars
  BY <1>1, <1>5 DEF vars
<1> QED
  BY <1>2, <1>3, <1>4, <1>5 DEF Next

-----------------------------------------------------------------------------
(* The theorems.                                                           *)

(* Everything above holds in every state.                                  *)
LEMMA Invariant == Spec => []IInv
<1>1. IInv /\ [Next]_vars => IInv'
  <2>1. Control => ItemInHand
    BY DEF Control
  <2> QED
    BY <2>1, TypeNext, ControlNext, WakeupNext, CleanExitNext, ItemsNext DEF IInv
<1> QED
  BY <1>1, InitIInv, PTL DEF Spec

(* The types hold: no call or step of the worker leaves a field outside of *)
(* what its declaration allows, and only items are ever queued or run.     *)
THEOREM TypeCorrect == Spec => []TypeOK
<1>1. IInv => TypeOK
  BY DEF IInv
<1> QED
  BY <1>1, Invariant, PTL

(* Every allocated item is in one place only, so none is leaked, run twice *)
(* or freed twice, however many tasks queue work and whenever the work     *)
(* queue is destroyed.                                                     *)
THEOREM ItemsInOnePlace == Spec => []ItemsConserved
<1>1. IInv => ItemsConserved
  BY DEF IInv
<1> QED
  BY <1>1, Invariant, PTL

(* The worker is never asleep with work or the order to leave before it,   *)
(* unless who left it holds Lock and is about to give Event.               *)
THEOREM NoWakeupLost == Spec => []NoLostWakeup
<1>1. IInv => NoLostWakeup
  BY WorkQueueAssumption
  DEF IInv, Control, WakeupPending, LockHeld, Holds, NoLostWakeup, Clients
<1> QED
  BY <1>1, Invariant, PTL

(* If the caller keeps its side, the work queue leaves no item, resource   *)
(* or caller behind, and neither does a creation that failed.              *)
THEOREM NothingLeftBehind == Spec => []GoneWithoutTrace
<1>1. IInv => GoneWithoutTrace
  <2> SUFFICES ASSUME IInv, worker \in {"failed", "gone"}, ~late
               PROVE  /\ \A c \in Clients : pc[c] = "out"
                      /\ resources = {} /\ heap = {} /\ Queue = <<>>
    BY DEF GoneWithoutTrace
  <2>1. (\A c \in Clients : pc[c] = "out") /\ Queue = <<>> /\ resources = {}
    BY DEF IInv, Control, Fresh, WorkerAlive, CleanExit
  <2>2. running = NoItem /\ \A c \in Clients : item[c] = NoItem
    BY <2>1 DEF IInv, Control, WorkerAlive, ItemInHand
  <2> QED
    BY <2>1, <2>2, EmptySet DEF IInv, ItemsConserved, Held
<1> QED
  BY <1>1, Invariant, PTL

(* If the caller keeps its side, only the item that ran is freed: what is  *)
(* drained and freed unrun when the worker leaves is nothing.              *)
THEOREM OnlyItemsThatRanAreFreed == Spec => FreedItemsRan
<1>1. ASSUME IInv, [Next]_vars, ~late' PROVE heap \ heap' \subseteq {running}
  <2> USE DEF fields, workerv, clientv
  <2>1. ASSUME NEW r \in AllResources, Create(r) \/ CreateFails(r) PROVE heap' = heap
    BY <2>1 DEF Create, CreateFails
  <2>2. CASE WorkerStep
    <3>1. ~DrainItem
      BY <1>1 DEF DrainItem, IInv, CleanExit
    <3> QED
      BY <2>2, <3>1 DEF WorkerStep, TakeEvent, TakeLock, DequeueItem, FinishItem, NoMoreItems,
                        ExitLock, Drained, Delete
  <2>3. ASSUME NEW c \in Clients, Call(c) \/ ClientStep(c) PROVE heap \subseteq heap'
    BY <2>3 DEF Call, ClientStep, QueueWorkItem, DestroyWorkQueue, QueueLock, QueueAdd,
                DestroyLock, DestroyFlag, GiveEvent, GiveLock
  <2> QED
    BY <1>1, <2>1, <2>2, <2>3 DEF Next, vars
<1> QED
  BY <1>1, Invariant, PTL DEF Spec, FreedItemsRan

=============================================================================
