---------------------------- MODULE CppWorkQueue ----------------------------
(***************************************************************************)
(* The C++ work queue: cworkqueue.cpp, over the Thread of cthread.cpp and  *)
(* the Queue of cqueue.cpp, from its constructor to its destructor.        *)
(*                                                                         *)
(* The clients are legal ones: a task does not call QueueWork once another *)
(* has started to destroy the work queue, and nobody destroys it while a   *)
(* task is in QueueWork.  Work items, which run on the worker, may queue   *)
(* work at any time.  A static item can be queued again while it is        *)
(* queued; a dynamic one is new, and the work queue deletes it.            *)
(***************************************************************************)
EXTENDS FreeRTOSSemaphore, Sequences, SequencesExt

CONSTANTS
    Tasks,          \* the tasks that call, the worker excepted
    Worker,         \* the worker task
    Items,          \* the work items there are
    Dynamic,        \* those of them with freeAfterComplete
    NULL,           \* the item that tells the worker to leave
    MaxWorkItems

Clients == Tasks \cup {Worker}

ASSUME CppWorkQueueAssumption ==
    /\ Worker \notin Tasks
    /\ Dynamic \subseteq Items /\ NULL \notin Items
    /\ MaxWorkItems \in Nat \ {0}

VARIABLES
    life,           \* of the work queue
    objects,        \* which of the objects it owns exist
    queue,          \* WorkItemQueue, the pointers in it
    ThreadComplete,
    worker,         \* where the worker task is
    work,           \* the item it runs, or NULL
    pc,             \* where each client is, "out" when in no call
    item,           \* the item it queues, or NULL
    heap,           \* the dynamic items that were not deleted
    deletes,        \* history: how often vTaskDelete was called for the worker
    late            \* history: did a work item queue another one behind the NULL?

workerv == <<worker, work, deletes>>
clientv == <<pc, item, heap, late>>
vars    == <<life, objects, queue, ThreadComplete, workerv, clientv>>

AllObjects == {"WorkItemQueue", "ThreadComplete", "WorkerThread"}

TypeOK ==
    /\ life \in {"none", "failed", "alive", "closing", "closed"}
    /\ objects \subseteq AllObjects
    /\ queue \in Seq(Items \cup {NULL}) /\ Len(queue) <= MaxWorkItems
    /\ ThreadComplete \in {0, 1}
    /\ worker \in {"unstarted", "dequeue", "run", "give", "delete", "gone"}
    /\ work \in Items \cup {NULL}
    /\ pc \in [Clients -> {"out", "send", "d_send", "d_take", "d_queue", "d_thread", "d_sem"}]
    /\ item \in [Clients -> Items \cup {NULL}]
    /\ heap \subseteq Dynamic
    /\ deletes \in 0 .. 2
    /\ late \in BOOLEAN

Init ==
    /\ life = "none" /\ objects = {}
    /\ queue = <<>> /\ ThreadComplete = 0
    /\ worker = "unstarted" /\ work = NULL
    /\ pc = [c \in Clients |-> "out"] /\ item = [c \in Clients |-> NULL]
    /\ heap = {} /\ deletes = 0 /\ late = FALSE

-----------------------------------------------------------------------------
(* The constructor.  It does not look at what Start() returns.             *)

Construct ==
    /\ life = "none" /\ life' = "alive"
    /\ objects' = AllObjects
    /\ worker' \in {"unstarted", "dequeue"}
    /\ UNCHANGED <<queue, ThreadComplete, work, deletes, clientv>>

(* One of the `new' throws; nobody deletes what was there before.          *)
ConstructThrows ==
    /\ life = "none" /\ life' = "failed"
    /\ objects' \in {{}, {"WorkItemQueue"}, {"WorkItemQueue", "ThreadComplete"}}
    /\ UNCHANGED <<queue, ThreadComplete, workerv, clientv>>

-----------------------------------------------------------------------------
(* CWorkerThread::Run and TaskFunctionAdapter                              *)

DequeueItem ==
    /\ worker = "dequeue" /\ worker' = "run"
    /\ queue # <<>> /\ Head(queue) # NULL
    /\ work' = Head(queue)
    /\ queue' = Tail(queue)
    /\ UNCHANGED <<life, objects, ThreadComplete, deletes, clientv>>

DequeueNull ==
    /\ worker = "dequeue" /\ worker' = "give"
    /\ queue # <<>> /\ Head(queue) = NULL
    /\ queue' = Tail(queue)
    /\ UNCHANGED <<life, objects, ThreadComplete, work, deletes, clientv>>

(* Mutant: FreeAfterRun() is not asked.                                    *)
FinishItemLeaks ==
    /\ worker = "run" /\ worker' = "dequeue"
    /\ pc[Worker] = "out"
    /\ work' = NULL
    /\ UNCHANGED <<life, objects, queue, ThreadComplete, deletes, clientv>>

(* Run() returns, and the item is deleted if it is dynamic.                *)
FinishItem ==
    /\ worker = "run" /\ worker' = "dequeue"
    /\ pc[Worker] = "out"
    /\ work' = NULL
    /\ heap' = heap \ {work}
    /\ UNCHANGED <<life, objects, queue, ThreadComplete, deletes, pc, item, late>>

(* Mutant: the destructor is not told.                                     *)
GiveCompleteNot ==
    /\ worker = "give" /\ worker' = "delete"
    /\ UNCHANGED <<life, objects, queue, ThreadComplete, work, deletes, clientv>>

GiveComplete ==
    /\ worker = "give" /\ worker' = "delete"
    /\ Give(ThreadComplete)
    /\ UNCHANGED <<life, objects, queue, work, deletes, clientv>>

(* Run() has returned: Cleanup(), which is empty, and vTaskDelete.         *)
DeleteTask ==
    /\ worker = "delete" /\ worker' = "gone"
    /\ deletes' = deletes + 1
    /\ UNCHANGED <<life, objects, queue, ThreadComplete, work, clientv>>

WorkerStep ==
    DequeueItem \/ DequeueNull \/ FinishItem \/ GiveComplete \/ DeleteTask

-----------------------------------------------------------------------------
(* QueueWork *)

Go(c, from, to) == pc[c] = from /\ pc' = [pc EXCEPT ![c] = to]

MayCall(c) == IF c = Worker THEN worker = "run" ELSE life = "alive"

QueueWork(c, i) ==
    /\ MayCall(c)
    /\ Go(c, "out", "send")
    /\ i \notin heap
    /\ item' = [item EXCEPT ![c] = i]
    /\ heap' = heap \cup ({i} \cap Dynamic)
    /\ UNCHANGED <<life, objects, queue, ThreadComplete, workerv, late>>

(* Enqueue waits for ever for a place.                                     *)
SendBack(p) == Len(queue) < MaxWorkItems /\ queue' = Append(queue, p)

Enqueue(c) ==
    /\ Go(c, "send", "out")
    /\ SendBack(item[c])
    /\ item' = [item EXCEPT ![c] = NULL]
    /\ late' = (late \/ NULL \in ToSet(queue))
    /\ UNCHANGED <<life, objects, ThreadComplete, workerv, heap>>

-----------------------------------------------------------------------------
(* The destructor *)

Destroy(t) ==
    /\ life = "alive" /\ life' = "closing"
    /\ \A u \in Tasks : pc[u] = "out"
    /\ Go(t, "out", "d_send")
    /\ UNCHANGED <<objects, queue, ThreadComplete, workerv, item, heap, late>>

SendNull(t) ==
    /\ Go(t, "d_send", "d_take")
    /\ SendBack(NULL)
    /\ UNCHANGED <<life, objects, ThreadComplete, workerv, item, heap, late>>

(* Mutant: the worker is not waited for.                                   *)
TakeCompleteNot(t) ==
    /\ Go(t, "d_take", "d_queue")
    /\ UNCHANGED <<life, objects, queue, ThreadComplete, workerv, item, heap, late>>

TakeComplete(t) ==
    /\ Go(t, "d_take", "d_queue")
    /\ Take(ThreadComplete)
    /\ UNCHANGED <<life, objects, queue, workerv, item, heap, late>>

(* What is in the queue is not looked at.                                  *)
DeleteQueue(t) ==
    /\ Go(t, "d_queue", "d_thread")
    /\ objects' = objects \ {"WorkItemQueue"}
    /\ queue' = <<>>
    /\ UNCHANGED <<life, ThreadComplete, workerv, item, heap, late>>

(* ~Thread deletes the task, wherever that is.                             *)
DeleteThread(t) ==
    /\ Go(t, "d_thread", "d_sem")
    /\ objects' = objects \ {"WorkerThread"}
    /\ worker' = "gone" /\ deletes' = deletes + 1
    /\ UNCHANGED <<life, queue, ThreadComplete, work, item, heap, late>>

DeleteSemaphore(t) ==
    /\ Go(t, "d_sem", "out")
    /\ objects' = objects \ {"ThreadComplete"}
    /\ life' = "closed"
    /\ UNCHANGED <<queue, ThreadComplete, workerv, item, heap, late>>

CallStep(c) ==
    \/ Enqueue(c) \/ SendNull(c) \/ TakeComplete(c)
    \/ DeleteQueue(c) \/ DeleteThread(c) \/ DeleteSemaphore(c)

Next ==
    \/ Construct \/ ConstructThrows
    \/ WorkerStep
    \/ \E c \in Clients : CallStep(c) \/ \E i \in Items : QueueWork(c, i)
    \/ \E t \in Tasks : Destroy(t)

Spec == Init /\ [][Next]_vars

(* The scheduler runs every task that is ready.                            *)
FairSpec == Spec /\ WF_vars(WorkerStep) /\ \A c \in Clients : WF_vars(CallStep(c))

-----------------------------------------------------------------------------
(* Properties *)

(* Every dynamic item is in one place: with the client that queues it, in  *)
(* the queue, or with the worker.  So each is deleted once, after it ran,  *)
(* and none is left when the destructor throws the queue away -- unless a  *)
(* work item queued it behind the NULL.                                    *)
ItemsConserved ==
    LET held == {item[c] : c \in Clients} \cup {work}
    IN  ~late =>
            /\ heap = (held \cup ToSet(queue)) \cap Dynamic
            /\ held \cap ToSet(queue) \cap Dynamic = {}
            /\ \A k, l \in DOMAIN queue : queue[k] = queue[l] /\ queue[k] \in Dynamic => k = l
            /\ \A c, d \in Clients : item[c] \in Dynamic =>
                  item[c] # work /\ (item[c] = item[d] => c = d)

(* The worker, and whoever is in a call, never touch an object that the    *)
(* destructor has deleted: "Semaphore to support deconstruction without    *)
(* race conditions".                                                       *)
NoUseAfterDelete ==
    /\ worker = "dequeue" \/ (\E c \in Clients : pc[c] = "send") => "WorkItemQueue" \in objects
    /\ worker = "give" => "ThreadComplete" \in objects
    /\ worker \in {"dequeue", "run", "give", "delete"} => "WorkerThread" \in objects

(* A work item waits for a place that only the worker it runs on can make. *)
Stuck == pc[Worker] = "send" /\ Len(queue) = MaxWorkItems

(* The destructor returns, if the worker was started, work items stop      *)
(* queueing, and none of them got stuck.                                   *)
DestructorReturns ==
    <>[][\A i \in Items : ~QueueWork(Worker, i)]_vars =>
        (life = "closing" ~> life = "closed" \/ worker = "unstarted" \/ Stuck)

(* The task of a thread is deleted once.  thread.hpp says that Run may     *)
(* return, which deletes the task, and that whoever made the Thread has to *)
(* delete that object as well.                                             *)
TaskDeletedOnce == deletes <= 1

=============================================================================
