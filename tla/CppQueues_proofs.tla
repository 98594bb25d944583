--------------------------- MODULE CppQueues_proofs ---------------------------
(***************************************************************************)
(* Proofs about the two queues of the C++ side: the work queue, and the    *)
(* bounded queue of the programs over condition variables, for any tasks,  *)
(* items and length of queue.                                              *)
(***************************************************************************)
EXTENDS CppWorkQueue, BoundedQueue, SequenceLemmas, FiniteSetTheorems, TLAPS

Destroying == {"d_send", "d_take", "d_queue", "d_thread", "d_sem"}

Busy  == worker \in {"unstarted", "dequeue", "run"}
Told  == NULL \in ToSet(queue)
At(p) == \E t \in Tasks : pc[t] = p

(* Who is in a call, and when.  While the destructor runs no task is in    *)
(* another one.                                                            *)
Calls ==
    /\ life \in {"none", "failed", "closed"} => \A t \in Tasks : pc[t] = "out"
    /\ life = "alive" => \A t \in Tasks : pc[t] \in {"out", "send"}
    /\ life = "closing" =>
          \E t \in Tasks : pc[t] \in Destroying /\ \A u \in Tasks \ {t} : pc[u] = "out"
    /\ pc[Worker] = "out" \/ (pc[Worker] = "send" /\ worker = "run")
    /\ \A c \in Clients : item[c] = NULL <=> pc[c] # "send"
    /\ work = NULL <=> worker # "run"

(* How far the destructor and the worker are, each as the other knows it.  *)
Handshake ==
    /\ life \in {"none", "failed"} => worker = "unstarted"
    /\ life \in {"none", "failed", "alive"} \/ At("d_send") =>
          Busy /\ ThreadComplete = 0 /\ ~Told
    /\ At("d_take") => \/ Busy /\ ThreadComplete = 0 /\ Told
                       \/ worker = "give" /\ ThreadComplete = 0 /\ ~Told
                       \/ worker \in {"delete", "gone"} /\ ThreadComplete = 1 /\ ~Told
    /\ At("d_queue") \/ At("d_thread") =>
          worker \in {"delete", "gone"} /\ ThreadComplete = 0 /\ ~Told
    /\ At("d_sem") \/ life = "closed" => worker = "gone" /\ ThreadComplete = 0 /\ ~Told

(* What exists at which point of the destructor.                           *)
Owned ==
    /\ life = "alive" \/ At("d_send") \/ At("d_take") \/ At("d_queue") => objects = AllObjects
    /\ At("d_thread") => objects = AllObjects \ {"WorkItemQueue"}

(* The NULL is sent once, and unless something got behind it is the last.  *)
NullIsLast ==
    /\ \A k, l \in DOMAIN queue : queue[k] = NULL /\ queue[l] = NULL => k = l
    /\ ~late => \A k \in DOMAIN queue : queue[k] = NULL => k = Len(queue)
    /\ ~late /\ ~Busy => queue = <<>>

(* The task is deleted by itself, and then by the destructor.              *)
Deletes ==
    /\ worker # "gone" => deletes = 0
    /\ ~At("d_sem") /\ life # "closed" => deletes <= 1

IInv == TypeOK /\ Calls /\ Handshake /\ Owned /\ NullIsLast /\ Deletes /\ ItemsConserved

Control == Calls /\ Handshake /\ Owned /\ Deletes

(* What is in the queue after an item, or the NULL, was put into it.       *)
LEMMA SendStep ==
    ASSUME TypeOK, NEW p \in Items \cup {NULL}, SendBack(p)
    PROVE  /\ queue' \in Seq(Items \cup {NULL}) /\ Len(queue') <= MaxWorkItems
           /\ ToSet(queue') = ToSet(queue) \cup {p}
           /\ Len(queue) \in Nat /\ DOMAIN queue = 1 .. Len(queue)
           /\ Len(queue') = Len(queue) + 1 /\ DOMAIN queue' = 1 .. Len(queue')
           /\ \A k \in DOMAIN queue : queue'[k] = queue[k]
           /\ queue'[Len(queue')] = p
<1>1. /\ queue \in Seq(Items \cup {NULL}) /\ MaxWorkItems \in Nat
      /\ queue' = Append(queue, p) /\ Len(queue) < MaxWorkItems
  BY CppWorkQueueAssumption DEF TypeOK, SendBack
<1> QED
  BY <1>1, AppendSet, AppendAt

(* And after the worker took the first one out of it.                      *)
LEMMA DequeueStep ==
    ASSUME TypeOK, queue # <<>>, queue' = Tail(queue)
    PROVE  /\ queue' \in Seq(Items \cup {NULL}) /\ Len(queue') <= MaxWorkItems
           /\ Head(queue) \in Items \cup {NULL} /\ Head(queue) = queue[1]
           /\ ToSet(queue) = ToSet(queue') \cup {Head(queue)}
           /\ Len(queue) \in Nat \ {0} /\ DOMAIN queue = 1 .. Len(queue)
           /\ Len(queue') = Len(queue) - 1 /\ DOMAIN queue' = 1 .. Len(queue')
           /\ \A k \in DOMAIN queue' : k + 1 \in DOMAIN queue /\ queue'[k] = queue[k + 1]
<1>1. /\ queue \in Seq(Items \cup {NULL}) /\ MaxWorkItems \in Nat
      /\ Len(queue) <= MaxWorkItems
  BY CppWorkQueueAssumption DEF TypeOK
<1>2. /\ Head(queue) \in Items \cup {NULL} /\ queue' \in Seq(Items \cup {NULL})
      /\ ToSet(queue) = ToSet(queue') \cup {Head(queue)}
  BY <1>1, TailSet
<1> QED
  BY <1>1, <1>2, TailAt

(* Nothing is queued, in a call or on the heap at first.                   *)
LEMMA InitIInv == Init => IInv
<1> SUFFICES ASSUME Init PROVE IInv
  OBVIOUS
<1>1. queue = <<>> /\ ToSet(queue) = {} /\ queue \in Seq(Items \cup {NULL}) /\ Len(queue) = 0
      /\ DOMAIN queue = {}
  BY EmptySet DEF Init
<1>2. TypeOK
  <2>1. Len(queue) <= MaxWorkItems
    BY <1>1, CppWorkQueueAssumption
  <2>2. heap \subseteq Dynamic /\ objects \subseteq AllObjects /\ deletes \in 0 .. 2
    BY DEF Init
  <2> QED
    BY <1>1, <2>1, <2>2 DEF Init, TypeOK
<1>3. Calls /\ Handshake /\ Owned /\ Deletes
  BY <1>1, CppWorkQueueAssumption
  DEF Init, Calls, Handshake, Owned, Deletes, At, Busy, Told, Clients
<1>4. NullIsLast /\ ItemsConserved
  BY <1>1, CppWorkQueueAssumption DEF Init, NullIsLast, Busy, ItemsConserved
<1> QED
  BY <1>2, <1>3, <1>4 DEF IInv

(* Every step keeps the types.                                             *)
LEMMA TypeNext == TypeOK /\ Calls /\ Deletes /\ [Next]_vars => TypeOK'
<1> SUFFICES ASSUME TypeOK, Calls, Deletes, [Next]_vars PROVE TypeOK'
  OBVIOUS
<1> USE DEF TypeOK, workerv, clientv, Go
<1>1. CASE UNCHANGED vars
  BY <1>1 DEF vars
<1>2. CASE Construct \/ ConstructThrows
  BY <1>2 DEF Construct, ConstructThrows, AllObjects
<1>3. CASE WorkerStep
  <2>1. CASE DequeueItem
    <3>1. Head(queue) \in Items \cup {NULL} /\ queue' \in Seq(Items \cup {NULL})
          /\ Len(queue') <= MaxWorkItems
      BY <2>1, DequeueStep DEF DequeueItem
    <3> QED
      BY <2>1, <3>1 DEF DequeueItem
  <2>2. CASE DequeueNull
    <3>1. queue' \in Seq(Items \cup {NULL}) /\ Len(queue') <= MaxWorkItems
      BY <2>2, DequeueStep DEF DequeueNull
    <3> QED
      BY <2>2, <3>1 DEF DequeueNull
  <2>3. CASE FinishItem
    BY <2>3 DEF FinishItem
  <2>4. CASE GiveComplete
    BY <2>4 DEF GiveComplete, Give
  <2>5. CASE DeleteTask
    BY <2>5 DEF DeleteTask, Deletes
  <2> QED
    BY <1>3, <2>1, <2>2, <2>3, <2>4, <2>5 DEF WorkerStep
<1>4. ASSUME NEW c \in Clients, NEW i \in Items, QueueWork(c, i) PROVE TypeOK'
  BY <1>4 DEF QueueWork
<1>5. ASSUME NEW t \in Tasks, Destroy(t) PROVE TypeOK'
  BY <1>5 DEF Destroy, Clients
<1>6. ASSUME NEW c \in Clients, CallStep(c) PROVE TypeOK'
  <2>1. CASE Enqueue(c)
    <3>1. queue' \in Seq(Items \cup {NULL}) /\ Len(queue') <= MaxWorkItems
      BY <2>1, SendStep DEF Enqueue
    <3> QED
      BY <2>1, <3>1 DEF Enqueue
  <2>2. CASE SendNull(c)
    <3>1. queue' \in Seq(Items \cup {NULL}) /\ Len(queue') <= MaxWorkItems
      BY <2>2, SendStep DEF SendNull
    <3> QED
      BY <2>2, <3>1 DEF SendNull
  <2>3. CASE TakeComplete(c)
    BY <2>3 DEF TakeComplete, Take
  <2>4. CASE DeleteQueue(c)
    <3>1. <<>> \in Seq(Items \cup {NULL}) /\ Len(<<>>) <= MaxWorkItems
      BY CppWorkQueueAssumption
    <3> QED
      BY <2>4, <3>1 DEF DeleteQueue
  <2>5. CASE DeleteThread(c)
    BY <2>5 DEF DeleteThread, Calls, Deletes, At, Destroying, Clients
  <2>6. CASE DeleteSemaphore(c)
    BY <2>6 DEF DeleteSemaphore
  <2> QED
    BY <1>6, <2>1, <2>2, <2>3, <2>4, <2>5, <2>6 DEF CallStep
<1> QED
  BY <1>1, <1>2, <1>3, <1>4, <1>5, <1>6 DEF Next

(* And all that the clients, the destructor and the worker know of each    *)
(* other.                                                                  *)
LEMMA ControlNext == TypeOK /\ Control /\ NullIsLast /\ [Next]_vars => Control'
<1> SUFFICES ASSUME TypeOK, Control, NullIsLast, [Next]_vars PROVE Control'
  OBVIOUS
<1> USE CppWorkQueueAssumption
    DEF TypeOK, Control, Calls, Handshake, Owned, Deletes, At, Busy, Destroying, Clients,
        workerv, clientv, Go
<1>1. CASE UNCHANGED vars
  BY <1>1 DEF vars, Told
<1>2. CASE Construct \/ ConstructThrows
  BY <1>2 DEF Construct, ConstructThrows, AllObjects, Told
<1>3. CASE WorkerStep
  <2>1. CASE DequeueItem
    <3>1. Told' <=> Told
      BY <2>1, DequeueStep DEF DequeueItem, Told
    <3>2. work' # NULL
      BY <2>1, DequeueStep DEF DequeueItem
    <3> QED
      BY <2>1, <3>1, <3>2 DEF DequeueItem
  <2>2. CASE DequeueNull
    <3>1. Told /\ ~Told'
      BY <2>2, DequeueStep DEF DequeueNull, Told, NullIsLast, ToSet
    <3> QED
      BY <2>2, <3>1 DEF DequeueNull
  <2>3. CASE FinishItem
    BY <2>3 DEF FinishItem, Told
  <2>4. CASE GiveComplete
    BY <2>4 DEF GiveComplete, Give, Told
  <2>5. CASE DeleteTask
    BY <2>5 DEF DeleteTask, Told
  <2> QED
    BY <1>3, <2>1, <2>2, <2>3, <2>4, <2>5 DEF WorkerStep
<1>4. ASSUME NEW c \in Clients, NEW i \in Items, QueueWork(c, i) PROVE Control'
  BY <1>4 DEF QueueWork, MayCall, Told
<1>5. ASSUME NEW t \in Tasks, Destroy(t) PROVE Control'
  BY <1>5 DEF Destroy, Told
<1>6. ASSUME NEW c \in Clients, CallStep(c) PROVE Control'
  <2>1. CASE Enqueue(c)
    <3>1. Told' <=> Told
      BY <2>1, SendStep DEF Enqueue, Told
    <3> QED
      BY <2>1, <3>1 DEF Enqueue
  <2>2. CASE SendNull(c)
    <3>1. Told'
      BY <2>2, SendStep DEF SendNull, Told
    <3> QED
      BY <2>2, <3>1 DEF SendNull
  <2>3. CASE TakeComplete(c)
    BY <2>3 DEF TakeComplete, Take, Told
  <2>4. CASE DeleteQueue(c)
    <3>1. ~Told'
      BY <2>4, EmptySet DEF DeleteQueue, Told
    <3> QED
      BY <2>4, <3>1 DEF DeleteQueue
  <2>5. CASE DeleteThread(c)
    BY <2>5 DEF DeleteThread, Told
  <2>6. CASE DeleteSemaphore(c)
    BY <2>6 DEF DeleteSemaphore, Told
  <2> QED
    BY <1>6, <2>1, <2>2, <2>3, <2>4, <2>5, <2>6 DEF CallStep
<1> QED
  BY <1>1, <1>2, <1>3, <1>4, <1>5, <1>6 DEF Next

(* The NULL stays the last, and the worker leaves nothing behind it.       *)
LEMMA NullNext == TypeOK /\ Control /\ NullIsLast /\ [Next]_vars => NullIsLast'
<1> SUFFICES ASSUME TypeOK, Control, NullIsLast, [Next]_vars PROVE NullIsLast'
  OBVIOUS
<1> USE CppWorkQueueAssumption DEF workerv, clientv, Go, Busy
<1>1. ASSUME UNCHANGED <<queue, late>>, Busy => Busy' PROVE NullIsLast'
  BY <1>1 DEF NullIsLast
<1>2. CASE UNCHANGED vars
  BY <1>1, <1>2 DEF vars
<1>3. CASE Construct \/ ConstructThrows
  BY <1>1, <1>3 DEF Construct, ConstructThrows
<1>4. CASE WorkerStep
  <2>1. CASE DequeueItem
    BY <2>1, DequeueStep DEF DequeueItem, NullIsLast
  <2>2. CASE DequeueNull
    <3>1. ~late => Len(queue) = 1 /\ Len(queue') = 0
      BY <2>2, DequeueStep DEF DequeueNull, NullIsLast
    <3>2. Len(queue') = 0 => queue' = <<>>
      BY <2>2, DequeueStep, EmptySeq DEF DequeueNull
    <3> QED
      BY <2>2, <3>1, <3>2, DequeueStep DEF DequeueNull, NullIsLast
  <2>3. CASE FinishItem \/ GiveComplete \/ DeleteTask
    BY <1>1, <2>3 DEF FinishItem, GiveComplete, DeleteTask, NullIsLast
  <2> QED
    BY <1>4, <2>1, <2>2, <2>3 DEF WorkerStep
<1>5. ASSUME NEW c \in Clients, NEW i \in Items, QueueWork(c, i) PROVE NullIsLast'
  BY <1>1, <1>5 DEF QueueWork
<1>6. ASSUME NEW t \in Tasks, Destroy(t) PROVE NullIsLast'
  BY <1>1, <1>6 DEF Destroy
<1>7. ASSUME NEW c \in Clients, CallStep(c) PROVE NullIsLast'
  <2>1. CASE Enqueue(c)
    <3>1. item[c] \in Items /\ (pc[c] = "send" => Busy)
      BY <2>1 DEF Enqueue, Control, Calls, Handshake, TypeOK, Clients, Destroying
    <3>2. ~late' => ~late /\ \A k \in DOMAIN queue : queue[k] # NULL
      BY <2>1 DEF Enqueue, TypeOK, ToSet
    <3> QED
      BY <2>1, <3>1, <3>2, SendStep DEF Enqueue, NullIsLast
  <2>2. CASE SendNull(c)
    <3>1. c \in Tasks /\ At("d_send")
      BY <2>2 DEF SendNull, At, Control, Calls, Clients
    <3>2. Busy /\ \A k \in DOMAIN queue : queue[k] # NULL
      BY <3>1 DEF Control, Handshake, Told, ToSet
    <3> QED
      BY <2>2, <3>2, SendStep DEF SendNull, NullIsLast
  <2>3. CASE DeleteQueue(c)
    BY <2>3 DEF DeleteQueue, NullIsLast
  <2>4. CASE TakeComplete(c) \/ DeleteSemaphore(c)
    BY <1>1, <2>4 DEF TakeComplete, DeleteSemaphore
  <2>5. CASE DeleteThread(c)
    <3>1. c \in Tasks /\ At("d_thread")
      BY <2>5 DEF DeleteThread, At, Control, Calls, Clients
    <3> QED
      BY <1>1, <2>5, <3>1 DEF DeleteThread, Control, Handshake
  <2> QED
    BY <1>7, <2>1, <2>2, <2>3, <2>4, <2>5 DEF CallStep
<1> QED
  BY <1>2, <1>3, <1>4, <1>5, <1>6, <1>7 DEF Next

-----------------------------------------------------------------------------
(* The items.                                                              *)

(* A dynamic item is in one place wherever it goes, and the queue that the *)
(* destructor throws away is empty.                                        *)
LEMMA ItemsNext ==
    TypeOK /\ Control /\ NullIsLast /\ ItemsConserved /\ [Next]_vars => ItemsConserved'
<1> SUFFICES ASSUME TypeOK, Control, NullIsLast, ItemsConserved, [Next]_vars, ~late'
             PROVE  ItemsConserved'
  BY DEF ItemsConserved
<1> USE CppWorkQueueAssumption DEF workerv, clientv, Go
<1>1. ASSUME UNCHANGED <<queue, work, item, heap, late>> PROVE ItemsConserved'
  BY <1>1 DEF ItemsConserved
<1>2. CASE UNCHANGED vars
  BY <1>1, <1>2 DEF vars
<1>3. CASE Construct \/ ConstructThrows
  BY <1>1, <1>3 DEF Construct, ConstructThrows
<1>4. CASE WorkerStep
  <2>1. CASE DequeueItem
    <3>1. work = NULL /\ late' = late /\ item' = item /\ heap' = heap /\ work' = queue[1]
      BY <2>1, DequeueStep DEF DequeueItem, Control, Calls
    <3>2. /\ ToSet(queue) = ToSet(queue') \cup {work'}
          /\ \A k \in DOMAIN queue' : k + 1 \in DOMAIN queue /\ queue'[k] = queue[k + 1]
          /\ 1 \in DOMAIN queue /\ DOMAIN queue' \subseteq Nat \ {0}
      BY <2>1, <3>1, DequeueStep DEF DequeueItem
    <3>3. work' \in Dynamic => work' \notin ToSet(queue')
      BY <3>1, <3>2 DEF ItemsConserved, ToSet
    <3> QED
      BY <3>1, <3>2, <3>3 DEF ItemsConserved
  <2>2. CASE DequeueNull
    <3>1. /\ late' = late /\ item' = item /\ heap' = heap /\ work' = work
          /\ ToSet(queue) = ToSet(queue') \cup {NULL}
          /\ \A k \in DOMAIN queue' : k + 1 \in DOMAIN queue /\ queue'[k] = queue[k + 1]
          /\ DOMAIN queue' \subseteq Nat
      BY <2>2, DequeueStep DEF DequeueNull
    <3> QED
      BY <3>1 DEF ItemsConserved
  <2>3. CASE FinishItem
    BY <2>3 DEF FinishItem, ItemsConserved
  <2>4. CASE GiveComplete \/ DeleteTask
    BY <1>1, <2>4 DEF GiveComplete, DeleteTask
  <2> QED
    BY <1>4, <2>1, <2>2, <2>3, <2>4 DEF WorkerStep
<1>5. ASSUME NEW c \in Clients, NEW i \in Items, QueueWork(c, i) PROVE ItemsConserved'
  <2>1. item[c] = NULL
    BY <1>5 DEF QueueWork, Control, Calls
  <2> QED
    BY <1>5, <2>1 DEF QueueWork, ItemsConserved, TypeOK
<1>6. ASSUME NEW t \in Tasks, Destroy(t) PROVE ItemsConserved'
  BY <1>1, <1>6 DEF Destroy
<1>7. ASSUME NEW c \in Clients, CallStep(c) PROVE ItemsConserved'
  <2>1. CASE Enqueue(c)
    <3>1. /\ item[c] \in Items /\ item \in [Clients -> Items \cup {NULL}]
          /\ item' = [item EXCEPT ![c] = NULL]
          /\ heap' = heap /\ work' = work /\ ~late
      BY <2>1 DEF Enqueue, Control, Calls, TypeOK
    <3>2. /\ ToSet(queue') = ToSet(queue) \cup {item[c]}
          /\ \A k \in DOMAIN queue' : k \in DOMAIN queue \/ k = Len(queue')
          /\ \A k \in DOMAIN queue : queue'[k] = queue[k] /\ queue[k] \in ToSet(queue)
          /\ queue'[Len(queue')] = item[c]
      BY <2>1, <3>1, SendStep DEF Enqueue, ToSet
    <3> QED
      BY <3>1, <3>2 DEF ItemsConserved
  <2>2. CASE SendNull(c)
    <3>1. item' = item /\ heap' = heap /\ work' = work /\ late' = late
      BY <2>2 DEF SendNull
    <3>2. /\ ToSet(queue') = ToSet(queue) \cup {NULL}
          /\ \A k \in DOMAIN queue' : k \in DOMAIN queue \/ k = Len(queue')
          /\ \A k \in DOMAIN queue : queue'[k] = queue[k]
          /\ queue'[Len(queue')] = NULL
      BY <2>2, SendStep DEF SendNull
    <3> QED
      BY <3>1, <3>2 DEF ItemsConserved
  <2>3. CASE DeleteQueue(c)
    <3>1. c \in Tasks /\ At("d_queue")
      BY <2>3 DEF DeleteQueue, At, Control, Calls, Clients
    <3>2. ~late /\ queue = <<>>
      BY <2>3, <3>1 DEF DeleteQueue, Control, Handshake, NullIsLast, Busy
    <3> QED
      BY <1>1, <2>3, <3>2 DEF DeleteQueue
  <2>4. CASE TakeComplete(c) \/ DeleteSemaphore(c) \/ DeleteThread(c)
    BY <1>1, <2>4 DEF TakeComplete, DeleteSemaphore, DeleteThread
  <2> QED
    BY <1>7, <2>1, <2>2, <2>3, <2>4 DEF CallStep
<1> QED
  BY <1>2, <1>3, <1>4, <1>5, <1>6, <1>7 DEF Next

-----------------------------------------------------------------------------
(* The theorems.                                                           *)

(* Everything above holds in every state.                                  *)
LEMMA Invariant == Spec => []IInv
<1>1. IInv /\ [Next]_vars => IInv'
  BY TypeNext, ControlNext, NullNext, ItemsNext DEF IInv, Control
<1> QED
  BY <1>1, InitIInv, PTL DEF Spec

(* The types hold: the queue never holds more than its constructor made    *)
(* room for, and the task is deleted twice at most.                        *)
THEOREM TypeCorrect == Spec => []TypeOK
<1>1. IInv => TypeOK
  BY DEF IInv
<1> QED
  BY <1>1, Invariant, PTL

(* A dynamic item is deleted once, after it ran, and none is left in the   *)
(* queue when the destructor throws that away, unless a work item queued   *)
(* it behind the NULL.                                                     *)
THEOREM ItemsInOnePlace == Spec => []ItemsConserved
<1>1. IInv => ItemsConserved
  BY DEF IInv
<1> QED
  BY <1>1, Invariant, PTL

(* The handshake of the destructor with the worker works: what it deletes  *)
(* is not used any more, by the worker, a work item or another task.       *)
THEOREM NothingDeletedIsUsed == Spec => []NoUseAfterDelete
<1>1. IInv => NoUseAfterDelete
  <2> SUFFICES ASSUME IInv PROVE NoUseAfterDelete
    OBVIOUS
  <2> USE CppWorkQueueAssumption
      DEF IInv, TypeOK, Calls, Handshake, Owned, At, Busy, Destroying, Clients, AllObjects
  <2>1. worker \in {"dequeue", "run", "give"} => objects = AllObjects
    OBVIOUS
  <2>2. ASSUME NEW c \in Clients, pc[c] = "send" PROVE objects = AllObjects
    BY <2>1, <2>2
  <2>3. worker = "delete" => "WorkerThread" \in objects
    OBVIOUS
  <2> QED
    BY <2>1, <2>2, <2>3 DEF NoUseAfterDelete
<1> QED
  BY <1>1, Invariant, PTL

-----------------------------------------------------------------------------
(* The bounded queue, of which ConditionVariable_proofs says what its      *)
(* condition variables do.                                                 *)

QP == INSTANCE ConditionVariable_proofs WITH
        Waiters <- Threads, Notifiers <- Threads, Cvs <- {"notEmptyCv", "notFullCv"},
        Timeouts <- FALSE, MaxWaitList <- Cardinality(Threads), pc <- call, Lock <- Locks

(* A wait before and after its thread drops CvLock.                        *)
Early == {"w_lock", "w_push", "w_drop"}
Late  == {"w_take", "w_grab"}

OwnCv(t)   == IF t \in Consumers THEN "notEmptyCv" ELSE "notFullCv"
OtherCv(t) == IF t \in Consumers THEN "notFullCv" ELSE "notEmptyCv"
Blocking(t) == IF t \in Consumers THEN 0 ELSE MaxSize

(* Where a thread is in its loop and in the library go together; outside   *)
(* of the top of the loop and of the sleep of a Wait it has CvLock, and    *)
(* what made it wait stays true until it drops it.                         *)
Loops(t) ==
    /\ call[t] \in {"out", "s_lock", "s_pop"} \cup Early \cup Late
    /\ loop[t] \in {"lock", "signal"} => call[t] = "out"
    /\ call[t] \in Early \cup Late => loop[t] = "check" /\ cv[t] = OwnCv(t)
    /\ call[t] \in {"s_lock", "s_pop"} => loop[t] = "unlock" /\ cv[t] = OtherCv(t)
    /\ loop[t] # "lock" /\ call[t] \notin Late => CvLock = t
    /\ call[t] \in Early => CurSize = Blocking(t)

QueueTyped == loop \in [Threads -> Ats] /\ CurSize \in 0 .. MaxSize

Library_ == QP!Typed /\ QP!UnsignalledAreListed /\ QP!Accurate /\ ~expired

BqInv == QueueTyped /\ Library_ /\ (\A t \in Threads : Loops(t)) /\ NoLostWakeup

(* The steps inside the library are those that the proofs are about.       *)
LEMMA SameSteps == ASSUME NEW t, C!Step(t) PROVE QP!Step(t)
<1> USE DEF C!Go, QP!Go, C!TakeLock, QP!TakeLock, C!ReleaseLock, QP!ReleaseLock,
      C!TakeMutex, QP!TakeMutex, C!GiveMutex, QP!GiveMutex, C!PopAndGive,
      QP!PopAndGive, C!state, QP!state
<1>1. C!WaitLock(t) => QP!WaitLock(t)
  BY DEF C!WaitLock, QP!WaitLock
<1>2. C!WaitPush(t) => QP!WaitPush(t)
  BY DEF C!WaitPush, QP!WaitPush
<1>3. C!WaitDropCvLock(t) => QP!WaitDropCvLock(t)
  BY DEF C!WaitDropCvLock, QP!WaitDropCvLock
<1>4. C!WaitTake(t) => QP!WaitTake(t)
  BY DEF C!WaitTake, QP!WaitTake
<1>5. C!WaitGrabCvLock(t) => QP!WaitGrabCvLock(t)
  BY DEF C!WaitGrabCvLock, QP!WaitGrabCvLock
<1>6. C!NotifyLock(t) => QP!NotifyLock(t)
  BY DEF C!NotifyLock, QP!NotifyLock
<1>7. C!SignalPop(t) => QP!SignalPop(t)
  BY DEF C!SignalPop, QP!SignalPop
<1>8. C!BroadcastPop(t) => QP!BroadcastPop(t)
  BY DEF C!BroadcastPop, QP!BroadcastPop
<1>9. C!NotifyDone(t) => QP!NotifyDone(t)
  BY DEF C!NotifyDone, QP!NotifyDone
<1> QED
  BY <1>1, <1>2, <1>3, <1>4, <1>5, <1>6, <1>7, <1>8, <1>9 DEF C!Step, QP!Step

(* And so are the calls.                                                   *)
LEMMA SameCalls ==
    ASSUME NEW t, NEW c
    PROVE  /\ C!LockCvLock(t) => QP!LockCvLock(t)
           /\ C!UnlockCvLock(t) => QP!UnlockCvLock(t)
           /\ C!CallWait(t, c) => QP!CallWait(t, c)
           /\ C!CallSignal(t, c) => QP!CallSignal(t, c)
<1> USE DEF C!Go, QP!Go, C!TakeMutex, QP!TakeMutex, C!GiveMutex, QP!GiveMutex, C!state, QP!state
<1>1. C!LockCvLock(t) => QP!LockCvLock(t)
  BY DEF C!LockCvLock, QP!LockCvLock
<1>2. C!UnlockCvLock(t) => QP!UnlockCvLock(t)
  BY DEF C!UnlockCvLock, QP!UnlockCvLock
<1>3. C!CallWait(t, c) => QP!CallWait(t, c)
  BY DEF C!CallWait, QP!CallWait
<1>4. C!CallSignal(t, c) => QP!CallSignal(t, c)
  BY DEF C!CallSignal, QP!CallSignal
<1> QED
  BY <1>1, <1>2, <1>3, <1>4

(* Every step of the program is one of the library's or none at all.       *)
LEMMA LibraryStep ==
    ASSUME NEW t \in Threads, ThreadStep(t) PROVE [QP!Next]_(QP!vars)
<1>1. QP!Client(t) \/ QP!Step(t) \/ UNCHANGED QP!vars
  <2>1. CASE LockQueue(t)
    BY <2>1, SameCalls DEF LockQueue, QP!Client
  <2>2. CASE WaitForRoom(t)
    BY <2>2, SameCalls DEF WaitForRoom, QP!Client
  <2>3. CASE WaitForItem(t)
    BY <2>3, SameCalls DEF WaitForItem, QP!Client
  <2>4. CASE Add(t) \/ RemoveItem(t)
    BY <2>4 DEF Add, RemoveItem, Cvars, QP!vars, QP!state
  <2>5. CASE SignalOther(t)
    BY <2>5, SameCalls DEF SignalOther, QP!Client
  <2>6. CASE UnlockQueue(t)
    BY <2>6, SameCalls DEF UnlockQueue, QP!Client
  <2>7. CASE Library(t)
    BY <2>7, SameSteps DEF Library
  <2> QED
    BY <2>1, <2>2, <2>3, <2>4, <2>5, <2>6, <2>7 DEF ThreadStep
<1> QED
  BY <1>1 DEF QP!Next, QP!Threads

(* A thread changes what is its own, and no Wait times out.                *)
LEMMA OthersRest ==
    ASSUME QueueTyped, QP!Typed, NEW t \in Threads, ThreadStep(t)
    PROVE  /\ \A u \in Threads \ {t} : call'[u] = call[u] /\ loop'[u] = loop[u] /\ cv'[u] = cv[u]
           /\ expired' = expired
<1> USE DEF QueueTyped, QP!Typed, QP!Threads, Move, C!Go, C!state, C!TakeMutex, C!GiveMutex
<1>1. CASE LockQueue(t) \/ UnlockQueue(t)
  BY <1>1 DEF LockQueue, UnlockQueue, C!LockCvLock, C!UnlockCvLock
<1>2. CASE WaitForRoom(t) \/ WaitForItem(t)
  BY <1>2 DEF WaitForRoom, WaitForItem, C!CallWait
<1>3. CASE Add(t) \/ RemoveItem(t)
  BY <1>3 DEF Add, RemoveItem, Cvars
<1>4. CASE SignalOther(t)
  BY <1>4 DEF SignalOther, C!CallSignal
<1>5. CASE Library(t)
  BY <1>5 DEF Library, C!Step, C!WaitLock, C!WaitPush, C!WaitDropCvLock, C!WaitTake,
              C!WaitGrabCvLock, C!NotifyLock, C!SignalPop, C!BroadcastPop, C!NotifyDone
<1> QED
  BY <1>1, <1>2, <1>3, <1>4, <1>5 DEF ThreadStep

(* CurSize changes only while the thread that changes it has CvLock, which *)
(* no other thread can then take or drop.                                  *)
LEMMA LockKept ==
    ASSUME QueueTyped, QP!Typed, \A u \in Threads : Loops(u), NEW t \in Threads, ThreadStep(t)
    PROVE  /\ CurSize' \in 0 .. MaxSize
           /\ CurSize' # CurSize => CvLock = t
           /\ CvLock' = CvLock \/ (CvLock = t /\ CvLock' = NoTask) \/ (CvLock = NoTask /\ CvLock' = t)
<1> USE BoundedQueueAssumption
    DEF QueueTyped, QP!Typed, QP!Threads, Move, C!Go, C!state, C!TakeMutex, C!GiveMutex
<1>1. CASE LockQueue(t) \/ UnlockQueue(t)
  BY <1>1 DEF LockQueue, UnlockQueue, C!LockCvLock, C!UnlockCvLock
<1>2. CASE WaitForRoom(t) \/ WaitForItem(t)
  BY <1>2 DEF WaitForRoom, WaitForItem, C!CallWait
<1>3. CASE Add(t) \/ RemoveItem(t)
  BY <1>3 DEF Add, RemoveItem, Cvars, Loops, Late
<1>4. CASE SignalOther(t)
  BY <1>4 DEF SignalOther, C!CallSignal
<1>5. CASE Library(t)
  <2>1. CASE C!WaitDropCvLock(t)
    BY <1>5, <2>1 DEF Library, C!WaitDropCvLock, Loops, Early, Late
  <2>2. CASE C!WaitGrabCvLock(t)
    BY <1>5, <2>2 DEF Library, C!WaitGrabCvLock
  <2>3. CvLock' = CvLock \/ C!WaitDropCvLock(t) \/ C!WaitGrabCvLock(t)
    BY <1>5 DEF Library, C!Step, C!WaitLock, C!WaitPush, C!WaitTake,
                C!NotifyLock, C!SignalPop, C!BroadcastPop, C!NotifyDone
  <2> QED
    BY <1>5, <2>1, <2>2, <2>3 DEF Library
<1> QED
  BY <1>1, <1>2, <1>3, <1>4, <1>5 DEF ThreadStep

(* The thread itself is where its loop says.                               *)
LEMMA LoopsOn ==
    ASSUME QueueTyped, QP!Typed, \A u \in Threads : Loops(u), NEW t \in Threads, ThreadStep(t)
    PROVE  Loops(t)' /\ loop' \in [Threads -> Ats]
<1>1. Loops(t)
  OBVIOUS
<1>2. (t \in Producers <=> t \notin Consumers) /\ call[t] \in QP!PCs
  BY BoundedQueueAssumption DEF QP!Typed, QP!Threads, Threads
<1> USE BoundedQueueAssumption
    DEF QueueTyped, QP!Typed, QP!Threads, Move, C!Go, C!state, C!TakeMutex, C!GiveMutex, Ats,
        Early, Late, Loops, OwnCv, OtherCv, Blocking
<1>3. CASE LockQueue(t) \/ UnlockQueue(t)
  BY <1>1, <1>3 DEF LockQueue, UnlockQueue, C!LockCvLock, C!UnlockCvLock
<1>4. CASE WaitForRoom(t)
  BY <1>1, <1>2, <1>4 DEF WaitForRoom, C!CallWait
<1>5. CASE WaitForItem(t)
  BY <1>1, <1>2, <1>5 DEF WaitForItem, C!CallWait
<1>6. CASE Add(t) \/ RemoveItem(t)
  BY <1>1, <1>6 DEF Add, RemoveItem, Cvars
<1>7. CASE SignalOther(t)
  BY <1>1, <1>2, <1>7 DEF SignalOther, C!CallSignal
<1>8. CASE Library(t)
  <2>1. loop' = loop /\ CurSize' = CurSize /\ C!Step(t)
    BY <1>8 DEF Library
  <2>2. CASE C!WaitLock(t) \/ C!WaitPush(t)
    BY <1>1, <2>1, <2>2 DEF C!WaitLock, C!WaitPush
  <2>3. CASE C!WaitDropCvLock(t) \/ C!WaitTake(t)
    BY <1>1, <2>1, <2>3 DEF C!WaitDropCvLock, C!WaitTake
  <2>4. CASE C!WaitGrabCvLock(t)
    BY <1>1, <2>1, <2>4 DEF C!WaitGrabCvLock
  <2>5. CASE C!NotifyLock(t)
    BY <1>1, <2>1, <2>5 DEF C!NotifyLock
  <2>6. CASE C!SignalPop(t) \/ C!BroadcastPop(t) \/ C!NotifyDone(t)
    BY <1>1, <2>1, <2>6 DEF C!SignalPop, C!BroadcastPop, C!NotifyDone
  <2> QED
    BY <2>1, <2>2, <2>3, <2>4, <2>5, <2>6 DEF C!Step
<1> QED
  BY <1>3, <1>4, <1>5, <1>6, <1>7, <1>8 DEF ThreadStep

(* And so are the others, whom it does not disturb.                        *)
LEMMA LoopsNext ==
    ASSUME QueueTyped, QP!Typed, \A u \in Threads : Loops(u), NEW t \in Threads, ThreadStep(t)
    PROVE  QueueTyped' /\ \A u \in Threads : Loops(u)'
<1>1. QueueTyped'
  BY LockKept, LoopsOn DEF QueueTyped
<1>2. ASSUME NEW u \in Threads \ {t} PROVE Loops(u)'
  <2>1. call'[u] = call[u] /\ loop'[u] = loop[u] /\ cv'[u] = cv[u]
    BY OthersRest
  <2>2. NoTask \notin Threads
    BY BoundedQueueAssumption
  <2>3. (CvLock = u => CvLock' = u) /\ Loops(u)
    BY <2>2, LockKept
  <2>4. CvLock = u => CurSize' = CurSize
    BY LockKept
  <2>5. call[u] \in Early => CvLock = u
    BY <2>3 DEF Loops, Early, Late
  <2> QED
    BY <2>1, <2>3, <2>4, <2>5 DEF Loops, Blocking, OwnCv, OtherCv
<1> QED
  BY <1>1, <1>2, LoopsOn

-----------------------------------------------------------------------------
(* NoLostWakeup, for either side: T waits on c while CurSize is z, and S   *)
(* signals c.                                                              *)

Side(T, S, c, z) ==
    \/ T = Consumers /\ S = Producers /\ c = "notEmptyCv" /\ z = 0
    \/ T = Producers /\ S = Consumers /\ c = "notFullCv" /\ z = MaxSize

Awake(T, S, c, z) == (\A u \in T : Asleep(u)) => CurSize = z \/ Signalling(S, c)

(* What is so of both sides.                                               *)
LEMMA Sides ==
    ASSUME NEW T, NEW S, NEW c, NEW z, Side(T, S, c, z)
    PROVE  /\ T # {} /\ T \subseteq Threads /\ S \subseteq Threads
           /\ \A t \in Threads : t \in T <=> t \notin S
           /\ \A t \in Threads : t \in T <=> OwnCv(t) = c
           /\ \A t \in Threads : t \in S <=> OtherCv(t) = c
           /\ \A t \in T : Blocking(t) = z
           /\ c \in {"notEmptyCv", "notFullCv"}
BY BoundedQueueAssumption DEF Side, Threads, OwnCv, OtherCv, Blocking

(* A thread that falls asleep does so as it drops CvLock, when CurSize is  *)
(* what it waits for to change; every other thread that sleeps slept.      *)
LEMMA FallsAsleep ==
    ASSUME QueueTyped, QP!Typed, \A u \in Threads : Loops(u), NEW t \in Threads, ThreadStep(t)
    PROVE  \/ /\ C!WaitDropCvLock(t) /\ CurSize = Blocking(t) /\ CurSize' = CurSize
              /\ call[t] = "w_drop" /\ loop[t] = "check"
              /\ \A u \in Threads \ {t} : Asleep(u)' => Asleep(u)
           \/ \A u \in Threads : Asleep(u)' => Asleep(u)
<1> USE DEF QueueTyped, QP!Typed, QP!Threads, Move, C!Go, C!state, C!TakeMutex, C!GiveMutex, Asleep
<1>1. CASE LockQueue(t) \/ UnlockQueue(t)
  BY <1>1 DEF LockQueue, UnlockQueue, C!LockCvLock, C!UnlockCvLock
<1>2. CASE WaitForRoom(t) \/ WaitForItem(t)
  BY <1>2 DEF WaitForRoom, WaitForItem, C!CallWait
<1>3. CASE Add(t) \/ RemoveItem(t)
  BY <1>3 DEF Add, RemoveItem, Cvars
<1>4. CASE SignalOther(t)
  BY <1>4 DEF SignalOther, C!CallSignal
<1>5. CASE Library(t)
  <2>1. CurSize' = CurSize /\ C!Step(t)
    BY <1>5 DEF Library
  <2>2. CASE C!WaitDropCvLock(t)
    BY <2>1, <2>2 DEF C!WaitDropCvLock, Loops, Early
  <2>3. CASE C!WaitLock(t) \/ C!WaitPush(t) \/ C!WaitTake(t) \/ C!WaitGrabCvLock(t)
    BY <2>3 DEF C!WaitLock, C!WaitPush, C!WaitTake, C!WaitGrabCvLock
  <2>4. CASE C!NotifyLock(t) \/ C!NotifyDone(t)
    BY <2>4 DEF C!NotifyLock, C!NotifyDone
  <2>5. CASE C!SignalPop(t) \/ C!BroadcastPop(t)
    <3>1. QP!PopAndGive(cv[t]) /\ cv[t] \in {"notEmptyCv", "notFullCv"}
      BY <2>5 DEF C!SignalPop, C!BroadcastPop, C!PopAndGive, QP!PopAndGive
    <3>2. ThreadWaitSem' = [ThreadWaitSem EXCEPT ![Head(WaitList[cv[t]])] = 1]
      BY <3>1 DEF QP!PopAndGive
    <3> QED
      BY <2>5, <3>2 DEF C!SignalPop, C!BroadcastPop
  <2> QED
    BY <2>1, <2>2, <2>3, <2>4, <2>5 DEF C!Step
<1> QED
  BY <1>1, <1>2, <1>3, <1>4, <1>5 DEF ThreadStep

(* A signal, once there is somebody asleep on every thread of the other    *)
(* side, wakes one of them: the front of the list is of that side, and the *)
(* list is not empty.                                                      *)
LEMMA SignalArrives ==
    ASSUME NEW T, NEW S, NEW c, NEW z, Side(T, S, c, z), Library_,
           \A u \in Threads : Loops(u), NEW t \in Threads, cv[t] = c,
           C!SignalPop(t) \/ C!NotifyDone(t), \A u \in T : Asleep(u)
    PROVE  \E u \in T : ~Asleep(u)'
<1> USE DEF Library_
<1>1. c \in {"notEmptyCv", "notFullCv"} /\ WaitList[c] \in Seq(Threads)
  BY Sides DEF QP!Typed, QP!Threads
<1>2. PICK u \in T : u \in Threads /\ Asleep(u) /\ OwnCv(u) = c
  BY Sides
<1>3. u \in ToSet(WaitList[c])
  <2>1. cv[u] = c
    BY <1>2 DEF Asleep, Loops, Late
  <2>2. u \in QP!ToSet(WaitList[c])
    BY <1>2, <2>1 DEF QP!UnsignalledAreListed, QP!Unsignalled, Asleep, QP!Threads
  <2> QED
    BY <2>2 DEF ToSet, QP!ToSet
<1>4. WaitList[c] # <<>>
  BY <1>3, EmptySet
<1>5. C!SignalPop(t)
  BY <1>4 DEF C!NotifyDone
<1>6. Head(WaitList[c]) \in ToSet(WaitList[c])
  BY <1>1, <1>4, TailSet
<1>7. Head(WaitList[c]) \in QP!Waiting(c)
  BY <1>1, <1>6 DEF QP!Accurate, QP!ListedAreWaiting, ToSet, QP!ToSet
<1>8. Head(WaitList[c]) \in Threads /\ OwnCv(Head(WaitList[c])) = c
  BY <1>7 DEF QP!Waiting, QP!Threads, Loops, Early, Late
<1>9. Head(WaitList[c]) \in T
  BY <1>8, Sides
<1>10. ThreadWaitSem'[Head(WaitList[c])] = 1
  BY <1>5, <1>8 DEF C!SignalPop, C!PopAndGive, QP!Typed, QP!Threads
<1> QED
  BY <1>9, <1>10 DEF Asleep

(* Whoever was about to signal still is, or has woken somebody.            *)
LEMMA SignalKept ==
    ASSUME NEW T, NEW S, NEW c, NEW z, Side(T, S, c, z), QueueTyped, Library_,
           \A u \in Threads : Loops(u), NEW t \in Threads, ThreadStep(t),
           \A u \in T : Asleep(u) /\ Asleep(u)', Signalling(S, c)
    PROVE  Signalling(S, c)'
<1> USE DEF Library_
<1>1. PICK s \in S : loop[s] = "signal" \/ (cv[s] = c /\ call[s] \in {"s_lock", "s_pop"})
  BY DEF Signalling
<1>2. s \in Threads /\ OtherCv(s) = c /\ Loops(s)
  BY <1>1, Sides
<1>3. CASE s # t
  BY <1>1, <1>2, <1>3, OthersRest DEF Signalling
<1>4. CASE s = t /\ loop[t] = "signal"
  <2>1. call[t] = "out"
    BY <1>2, <1>4 DEF Loops
  <2>2. ~C!Step(t)
    BY <2>1 DEF C!Step, C!WaitLock, C!WaitPush, C!WaitDropCvLock, C!WaitTake, C!Go,
                C!WaitGrabCvLock, C!NotifyLock, C!SignalPop, C!BroadcastPop, C!NotifyDone
  <2>3. SignalOther(t)
    BY <1>4, <2>2 DEF ThreadStep, LockQueue, WaitForRoom, WaitForItem, Add, RemoveItem,
                      UnlockQueue, Library, Move
  <2>4. C!CallSignal(t, c)
    BY <1>2, <1>4, <2>3, BoundedQueueAssumption DEF SignalOther, OtherCv, Threads
  <2>5. call'[t] = "s_lock" /\ cv'[t] = c
    BY <2>4 DEF C!CallSignal, C!Go, QP!Typed, QP!Threads
  <2> QED
    BY <1>1, <1>4, <2>5 DEF Signalling
<1>5. CASE s = t /\ cv[t] = c /\ call[t] \in {"s_lock", "s_pop"}
  <2>1. Library(t) /\ (C!NotifyLock(t) \/ C!SignalPop(t) \/ C!NotifyDone(t))
    <3>1. loop[t] = "unlock"
      BY <1>2, <1>5 DEF Loops
    <3>2. Library(t)
      BY <1>5, <3>1 DEF ThreadStep, LockQueue, WaitForRoom, WaitForItem, Add, RemoveItem,
                        SignalOther, UnlockQueue, Move, C!UnlockCvLock
    <3> QED
      BY <1>5, <3>2 DEF Library, C!Step, C!WaitLock, C!WaitPush, C!WaitDropCvLock, C!WaitTake,
                        C!WaitGrabCvLock, C!BroadcastPop, C!Go
  <2>2. ~(C!SignalPop(t) \/ C!NotifyDone(t))
    BY <1>5, SignalArrives
  <2>3. call'[t] = "s_pop" /\ cv'[t] = c
    BY <1>5, <2>1, <2>2 DEF C!NotifyLock, C!Go, QP!Typed, QP!Threads
  <2> QED
    BY <1>1, <1>5, <2>3 DEF Signalling
<1> QED
  BY <1>1, <1>3, <1>4, <1>5

(* Neither side loses a wakeup.                                            *)
LEMMA AwakeNext ==
    ASSUME NEW T, NEW S, NEW c, NEW z, Side(T, S, c, z), QueueTyped, Library_,
           \A u \in Threads : Loops(u), Awake(T, S, c, z), NEW t \in Threads, ThreadStep(t)
    PROVE  Awake(T, S, c, z)'
<1> SUFFICES ASSUME \A u \in T : Asleep(u)' PROVE (CurSize' = z) \/ Signalling(S, c)'
  BY DEF Awake
<1> USE DEF Library_
<1>1. T \subseteq Threads /\ S \subseteq Threads
  BY Sides
<1>2. CASE \A u \in T : Asleep(u)
  <2>1. CurSize = z \/ Signalling(S, c)
    BY <1>2 DEF Awake
  <2>2. CASE Signalling(S, c)
    BY <1>2, <2>2, SignalKept
  <2>3. CASE CurSize = z /\ CurSize' # CurSize
    <3>1. Add(t) \/ RemoveItem(t)
      BY <2>3 DEF ThreadStep, LockQueue, WaitForRoom, WaitForItem, SignalOther, UnlockQueue, Library
    <3>2. call[t] = "out" /\ loop'[t] = "signal"
      BY <3>1 DEF Add, RemoveItem, Move, QueueTyped
    <3>3. t \in S
      BY <1>2, <3>2, Sides DEF Asleep
    <3> QED
      BY <3>2, <3>3 DEF Signalling
  <2> QED
    BY <2>1, <2>2, <2>3
<1>3. CASE \E u \in T : ~Asleep(u)
  <2>1. /\ CurSize = Blocking(t) /\ CurSize' = CurSize
        /\ \A u \in Threads \ {t} : Asleep(u)' => Asleep(u)
    BY <1>1, <1>3, FallsAsleep
  <2>2. t \in T
    BY <1>1, <1>3, <2>1
  <2> QED
    BY <2>1, <2>2, Sides
<1> QED
  BY <1>2, <1>3

(* The library's invariants hold across every step of the program.         *)
LEMMA LibraryNext ==
    ASSUME QueueTyped, Library_, NEW t \in Threads, ThreadStep(t) PROVE Library_'
<1>1. [QP!Next]_(QP!vars) /\ expired' = expired
  BY LibraryStep, OthersRest DEF Library_
<1>2. NoTask \notin QP!Threads /\ FALSE \in BOOLEAN /\ Cardinality(Threads) \in Nat
  BY BoundedQueueAssumption, FS_CardinalityType DEF QP!Threads
<1>3. QP!Typed'
  BY <1>1, <1>2, QP!TypedNext DEF Library_
<1>4. QP!UnsignalledAreListed'
  BY <1>1, <1>2, QP!UnsignalledNext DEF Library_
<1>5. QP!Accurate'
  BY <1>1, <1>2, QP!AccurateNext DEF Library_
<1> QED
  BY <1>1, <1>3, <1>4, <1>5 DEF Library_

(* The two sides of NoLostWakeup.                                          *)
LEMMA BothSides ==
    NoLostWakeup <=> \A T, S, c, z : Side(T, S, c, z) => Awake(T, S, c, z)
BY DEF NoLostWakeup, Side, Awake

(* Every step of the program keeps all of it.                              *)
LEMMA BqNextInv == BqInv /\ [BqNext]_bqVars => BqInv'
<1> SUFFICES ASSUME BqInv, [BqNext]_bqVars PROVE BqInv'
  OBVIOUS
<1>1. ASSUME NEW t \in Threads, ThreadStep(t) PROVE BqInv'
  <2>1. QueueTyped' /\ \A u \in Threads : Loops(u)'
    BY <1>1, LoopsNext DEF BqInv, Library_
  <2>2. Library_'
    BY <1>1, LibraryNext DEF BqInv
  <2>3. ASSUME NEW T, NEW S, NEW c, NEW z, Side(T, S, c, z) PROVE Awake(T, S, c, z)'
    <3>1. Awake(T, S, c, z)
      BY <2>3, BothSides DEF BqInv
    <3> QED
      BY <1>1, <2>3, <3>1, AwakeNext DEF BqInv
  <2>4. NoLostWakeup'
    <3>1. Side(Consumers, Producers, "notEmptyCv", 0) /\ Side(Producers, Consumers, "notFullCv", MaxSize)
      BY DEF Side
    <3>2. Awake(Consumers, Producers, "notEmptyCv", 0)' /\ Awake(Producers, Consumers, "notFullCv", MaxSize)'
      BY <2>3, <3>1
    <3> QED
      BY <3>2 DEF Awake, NoLostWakeup
  <2> QED
    BY <2>1, <2>2, <2>4 DEF BqInv
<1>2. CASE UNCHANGED bqVars
  <2>1. UNCHANGED <<loop, CurSize>> /\ UNCHANGED Cvars /\ UNCHANGED QP!vars
    BY <1>2 DEF bqVars, Cvars, QP!vars, QP!state
  <2>2. NoTask \notin QP!Threads /\ FALSE \in BOOLEAN /\ Cardinality(Threads) \in Nat
    BY BoundedQueueAssumption, FS_CardinalityType DEF QP!Threads
  <2>3. Library_'
    BY <2>1, <2>2, QP!TypedNext, QP!UnsignalledNext, QP!AccurateNext DEF BqInv, Library_, QP!vars
  <2>4. QueueTyped' /\ \A u \in Threads : Loops(u)'
    BY <2>1 DEF BqInv, QueueTyped, Loops, Cvars
  <2>5. NoLostWakeup'
    BY <2>1 DEF BqInv, NoLostWakeup, Asleep, Signalling, Cvars
  <2> QED
    BY <2>3, <2>4, <2>5 DEF BqInv
<1> QED
  BY <1>1, <1>2 DEF BqNext

(* And it holds at first, when nobody sleeps.                              *)
LEMMA BqInitInv == BqInit => BqInv
<1> SUFFICES ASSUME BqInit PROVE BqInv
  OBVIOUS
<1>1. QP!Init
  BY DEF BqInit, C!Init, C!Created, QP!Init, QP!Created, C!Threads, QP!Threads
<1>2. NoTask \notin QP!Threads /\ FALSE \in BOOLEAN /\ Cardinality(Threads) \in Nat
  BY BoundedQueueAssumption, FS_CardinalityType DEF QP!Threads
<1>3. QP!Typed /\ QP!Accurate
  BY <1>1, <1>2, QP!TypedInit, QP!AccurateInit
<1>4. \A t \in Threads : call[t] = "out" /\ loop[t] = "lock"
  BY DEF BqInit, C!Init, C!Created, C!Threads
<1>5. ~expired
  BY DEF BqInit, C!Init, C!Created
<1>6. QP!UnsignalledAreListed
  BY <1>4 DEF QP!UnsignalledAreListed, QP!Unsignalled, QP!Threads
<1>7. QueueTyped
  BY BoundedQueueAssumption DEF BqInit, QueueTyped, Ats
<1>8. \A t \in Threads : Loops(t)
  BY <1>4 DEF Loops, Early, Late
<1>9. NoLostWakeup
  BY <1>4, BoundedQueueAssumption DEF NoLostWakeup, Asleep, Threads
<1> QED
  BY <1>3, <1>5, <1>6, <1>7, <1>8, <1>9 DEF BqInv, Library_

(* The program's variables have their types: CurSize, which Remove         *)
(* decrements, never falls below 0.                                        *)
THEOREM ProgramTyped == BqSpec => []BqTypeOK
<1>1. BqInv => BqTypeOK
  BY BoundedQueueAssumption DEF BqInv, QueueTyped, BqTypeOK
<1> QED
  BY <1>1, BqInitInv, BqNextInv, PTL DEF BqSpec

(* The queue is never overfilled and never read when it is empty, however  *)
(* many threads were woken for one item: configASSERT in Add and Remove.   *)
THEOREM QueueBounded == BqSpec => []QueueAsserts
<1>1. BqInv => QueueAsserts
  BY BoundedQueueAssumption DEF BqInv, QueueTyped, QueueAsserts
<1> QED
  BY <1>1, BqInitInv, BqNextInv, PTL DEF BqSpec

(* Any number of producers and consumers on a queue of any size: when all  *)
(* of a side sleep there is nothing for them to do, or they are about to   *)
(* be told.                                                                *)
THEOREM WakeupsArrive == BqSpec => []NoLostWakeup
<1>1. BqInv => NoLostWakeup
  BY DEF BqInv
<1> QED
  BY <1>1, BqInitInv, BqNextInv, PTL DEF BqSpec

(* Who is in no call of the library finds a place on each wait list.       *)
RoomToWait ==
    \A t \in Threads, c \in {"notEmptyCv", "notFullCv"} :
        call[t] = "out" => Len(WaitList[c]) < Cardinality(Threads)

(* As many places on a wait list as there are threads are enough: whoever  *)
(* is about to wait finds one.  So MaxWaitList, which bounds the model and *)
(* not the std::list, hides no behaviour of the program.                   *)
THEOREM ListsHaveRoom == BqSpec => []RoomToWait
<1>1. ASSUME BqInv PROVE RoomToWait
  <2> SUFFICES ASSUME NEW t \in Threads, NEW c \in {"notEmptyCv", "notFullCv"}, call[t] = "out"
               PROVE  Len(WaitList[c]) < Cardinality(Threads)
    BY DEF RoomToWait
  <2>0. QP!Threads = Threads
    BY DEF QP!Threads
  <2>1. WaitList[c] \in Seq(Threads)
    BY <1>1, <2>0 DEF BqInv, Library_, QP!Typed
  <2>2. IsInjective(WaitList[c]) /\ ToSet(WaitList[c]) = QP!Waiting(c)
    BY <1>1 DEF BqInv, Library_, QP!Accurate, QP!ListedAreWaiting, ToSet, QP!ToSet,
                IsInjective, QP!IsInjective
  <2>3. t \notin ToSet(WaitList[c])
    BY <2>2 DEF QP!Waiting
  <2> QED
    BY <2>1, <2>2, <2>3, BoundedQueueAssumption, RoomForOne
<1> QED
  BY <1>1, BqInitInv, BqNextInv, PTL DEF BqSpec

=============================================================================
