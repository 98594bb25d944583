------------------------------- MODULE WorkQueue -------------------------------
(***************************************************************************)
(* The C work queue: c/Source/workqueue.c, with its worker task, the tasks *)
(* that queue work, and one that destroys it.                              *)
(*                                                                         *)
(* A work function runs on the worker, without the lock, and may call the  *)
(* work queue itself: the Worker is one of the clients, while it runs an   *)
(* item.  What is done under Lock in one go, up to and with its release,   *)
(* is one step where no other task can see the difference.                 *)
(*                                                                         *)
(* A work item is a member of Items while it is on the heap; malloc        *)
(* returns any other one, or fails: then QueueWorkItem returns pdFAIL and  *)
(* has done nothing, which is the same as not to call it.                  *)
(***************************************************************************)
EXTENDS FreeRTOSSemaphore, Sequences, SequencesExt

CONSTANTS
    Tasks,          \* the tasks that call, the worker excepted
    Worker,         \* the worker task
    Items,          \* as many as fit on the heap
    NoItem

Clients == Tasks \cup {Worker}

ASSUME WorkQueueAssumption ==
    Worker \notin Tasks /\ NoTask \notin Clients /\ NoItem \notin Items

VARIABLES
    resources,      \* what the work queue has been given and not given back
    Queue, Event, Lock, ExitThread,     \* the fields of pvtWorkQueue_t
    worker,         \* where the worker task is
    running,        \* the item the worker holds, or NoItem
    pc,             \* where each client is, "out" when in no call
    item,           \* the item it queues
    heap,           \* the items that were allocated and not freed
    destroyed,      \* was DestroyWorkQueue called?
    late            \* history: did a QueueWorkItem overlap it, or come later?

fields  == <<resources, Queue, Event, Lock, ExitThread>>
workerv == <<worker, running>>
clientv == <<pc, item, destroyed, late>>
vars    == <<fields, workerv, clientv, heap>>

AllResources == {"struct", "Event", "Lock", "task"}

(* What is there when each of them is created, and deleted if that fails.  *)
Needs == [struct |-> {}, Event |-> {"struct"}, Lock |-> {"struct", "Event"},
          task |-> {"struct", "Event", "Lock"}]

TypeOK ==
    /\ resources \subseteq AllResources
    /\ Queue \in Seq(Items)
    /\ Event \in {0, 1}
    /\ Lock \in Clients \cup {NoTask}
    /\ ExitThread \in BOOLEAN
    /\ worker \in {"none", "failed", "event", "lock", "check", "run", "exit",
                   "drain", "delete", "gone"}
    /\ running \in Items \cup {NoItem}
    /\ pc \in [Clients -> {"out", "q_lock", "q_add", "q_event", "q_unlock",
                           "d_lock", "d_flag", "d_event", "d_unlock"}]
    /\ item \in [Clients -> Items \cup {NoItem}]
    /\ heap \subseteq Items
    /\ destroyed \in BOOLEAN
    /\ late \in BOOLEAN

Init ==
    /\ resources = {} /\ Queue = <<>> /\ Event = 0 /\ Lock = NoTask /\ ExitThread = FALSE
    /\ worker = "none" /\ running = NoItem
    /\ pc = [c \in Clients |-> "out"]
    /\ item = [c \in Clients |-> NoItem]
    /\ heap = {} /\ destroyed = FALSE /\ late = FALSE

(* The work queue exists and may be used.                                  *)
Alive == resources = AllResources

-----------------------------------------------------------------------------
(* CreateWorkQueueEx: the struct, Event, Lock and the task are created in  *)
(* this order.  If one cannot be, the earlier ones are deleted and the     *)
(* caller gets NULL.                                                       *)
Create(r) ==
    /\ worker = "none"
    /\ r \notin resources /\ Needs[r] = resources
    /\ resources' = resources \cup {r}
    /\ worker' = IF resources' = AllResources THEN "event" ELSE "none"
    /\ UNCHANGED <<Queue, Event, Lock, ExitThread, running, clientv, heap>>

CreateFails(r) ==
    /\ worker = "none"
    /\ r \notin resources /\ Needs[r] = resources
    /\ resources' = resources \ Needs[r]
    /\ worker' = "failed"
    /\ UNCHANGED <<Queue, Event, Lock, ExitThread, running, clientv, heap>>

-----------------------------------------------------------------------------
(* The worker: wait for Event, run the items until there are none, leave   *)
(* if asked to.                                                            *)

WorkerGo(from, to) == worker = from /\ worker' = to

TakeEvent ==
    /\ WorkerGo("event", "lock")
    /\ Take(Event)
    /\ UNCHANGED <<resources, Queue, Lock, ExitThread, running, clientv, heap>>

(* Mutant: the worker looks at the queue without Lock.                     *)
TakeLockNot ==
    /\ WorkerGo("lock", "check")
    /\ UNCHANGED <<fields, running, clientv, heap>>

TakeLock ==
    /\ WorkerGo("lock", "check")
    /\ TakeMutex(Lock, Worker)
    /\ UNCHANGED <<resources, Queue, Event, ExitThread, running, clientv, heap>>

DequeueItem ==
    /\ WorkerGo("check", "run")
    /\ Queue # <<>>
    /\ running' = Head(Queue)
    /\ Queue' = Tail(Queue)
    /\ GiveMutex(Lock)
    /\ UNCHANGED <<resources, Event, ExitThread, clientv, heap>>

(* Mutant: the item is not freed.                                          *)
FinishItemLeaks ==
    /\ WorkerGo("run", "lock")
    /\ pc[Worker] = "out"
    /\ running' = NoItem
    /\ UNCHANGED <<fields, clientv, heap>>

(* The function returns, the item is freed.                                *)
FinishItem ==
    /\ WorkerGo("run", "lock")
    /\ pc[Worker] = "out"
    /\ heap' = heap \ {running}
    /\ running' = NoItem
    /\ UNCHANGED <<fields, clientv>>

(* Mutant: the worker leaves when it is told to, whatever is queued.       *)
NoMoreItemsOrExit ==
    /\ WorkerGo("check", IF ExitThread THEN "exit" ELSE "event")
    /\ Queue = <<>> \/ ExitThread
    /\ GiveMutex(Lock)
    /\ UNCHANGED <<resources, Queue, Event, ExitThread, running, clientv, heap>>

NoMoreItems ==
    /\ WorkerGo("check", IF ExitThread THEN "exit" ELSE "event")
    /\ Queue = <<>>
    /\ GiveMutex(Lock)
    /\ UNCHANGED <<resources, Queue, Event, ExitThread, running, clientv, heap>>

(* The cleanup: drain the queue under Lock, delete everything.             *)
ExitLock ==
    /\ WorkerGo("exit", "drain")
    /\ TakeMutex(Lock, Worker)
    /\ UNCHANGED <<resources, Queue, Event, ExitThread, running, clientv, heap>>

DrainItem ==
    /\ worker = "drain"
    /\ Queue # <<>>
    /\ heap' = heap \ {Head(Queue)}
    /\ Queue' = Tail(Queue)
    /\ UNCHANGED <<resources, Event, Lock, ExitThread, workerv, clientv>>

Drained ==
    /\ WorkerGo("drain", "delete")
    /\ Queue = <<>>
    /\ GiveMutex(Lock)
    /\ UNCHANGED <<resources, Queue, Event, ExitThread, running, clientv, heap>>

Delete ==
    /\ WorkerGo("delete", "gone")
    /\ resources' = {}
    /\ UNCHANGED <<Queue, Event, Lock, ExitThread, running, clientv, heap>>

WorkerStep ==
    \/ TakeEvent \/ TakeLock \/ DequeueItem \/ FinishItem \/ NoMoreItems
    \/ ExitLock \/ DrainItem \/ Drained \/ Delete

-----------------------------------------------------------------------------
(* The clients.  Once the work queue is deleted a call of it is undefined  *)
(* and the client is not followed any further.                             *)

Go(c, from, to) == Alive /\ pc[c] = from /\ pc' = [pc EXCEPT ![c] = to]

(* Worker code is called by the item it runs.                              *)
MayCall(c) == c = Worker => worker = "run"

QueueWorkItem(c, i) ==
    /\ MayCall(c)
    /\ Go(c, "out", "q_lock")
    /\ i \notin heap
    /\ heap' = heap \cup {i}
    /\ item' = [item EXCEPT ![c] = i]
    /\ late' = (late \/ (destroyed /\ c # Worker))
    /\ UNCHANGED <<fields, workerv, destroyed>>

QueueLock(c) ==
    /\ Go(c, "q_lock", "q_add")
    /\ TakeMutex(Lock, c)
    /\ UNCHANGED <<resources, Queue, Event, ExitThread, workerv, item, destroyed, late, heap>>

QueueAdd(c) ==
    /\ Go(c, "q_add", "q_event")
    /\ Queue' = Append(Queue, item[c])
    /\ item' = [item EXCEPT ![c] = NoItem]
    /\ UNCHANGED <<resources, Event, Lock, ExitThread, workerv, destroyed, late, heap>>

DestroyWorkQueue(c) ==
    /\ MayCall(c) /\ ~destroyed
    /\ Go(c, "out", "d_lock")
    /\ destroyed' = TRUE
    /\ late' = (late \/ \E t \in Tasks \ {c} : pc[t] # "out")
    /\ UNCHANGED <<fields, workerv, item, heap>>

DestroyLock(c) ==
    /\ Go(c, "d_lock", "d_flag")
    /\ TakeMutex(Lock, c)
    /\ UNCHANGED <<resources, Queue, Event, ExitThread, workerv, item, destroyed, late, heap>>

DestroyFlag(c) ==
    /\ Go(c, "d_flag", "d_event")
    /\ ExitThread' = TRUE
    /\ UNCHANGED <<resources, Queue, Event, Lock, workerv, item, destroyed, late, heap>>

(* Mutant: Event is not given.                                             *)
GiveEventNot(c) ==
    /\ Go(c, "q_event", "q_unlock") \/ Go(c, "d_event", "d_unlock")
    /\ UNCHANGED <<fields, workerv, item, destroyed, late, heap>>

(* Both calls end with a give of Event and then of Lock.                   *)
GiveEvent(c) ==
    /\ Go(c, "q_event", "q_unlock") \/ Go(c, "d_event", "d_unlock")
    /\ Give(Event)
    /\ UNCHANGED <<resources, Queue, Lock, ExitThread, workerv, item, destroyed, late, heap>>

GiveLock(c) ==
    /\ Go(c, "q_unlock", "out") \/ Go(c, "d_unlock", "out")
    /\ GiveMutex(Lock)
    /\ UNCHANGED <<resources, Queue, Event, ExitThread, workerv, item, destroyed, late, heap>>

Call(c) == DestroyWorkQueue(c) \/ \E i \in Items : QueueWorkItem(c, i)

ClientStep(c) ==
    \/ QueueLock(c) \/ QueueAdd(c)
    \/ DestroyLock(c) \/ DestroyFlag(c)
    \/ GiveEvent(c) \/ GiveLock(c)

-----------------------------------------------------------------------------

Next ==
    \/ \E r \in AllResources : Create(r) \/ CreateFails(r)
    \/ WorkerStep
    \/ \E c \in Clients : Call(c) \/ ClientStep(c)

Spec == Init /\ [][Next]_vars

(* Every ready task runs, work functions return, and calls of the queue    *)
(* that were made go on.  Nobody has to make one.                          *)
FairSpec == Spec /\ WF_vars(WorkerStep) /\ \A c \in Clients : WF_vars(ClientStep(c))

-----------------------------------------------------------------------------
(* Properties *)

Held == {item[c] : c \in Clients} \cup {running}

(* Every allocated item is in one place only: with the client that queues  *)
(* it, in the queue, or with the worker.  So none is leaked, run twice, or *)
(* freed twice.                                                            *)
ItemsConserved ==
    /\ heap = (Held \ {NoItem}) \cup ToSet(Queue)
    /\ Held \cap ToSet(Queue) = {}
    /\ IsInjective(Queue)
    /\ \A c \in Clients : item[c] # NoItem => item[c] # running
    /\ \A c, d \in Clients : item[c] = item[d] => c = d \/ item[c] = NoItem

(* No wakeup is lost: the worker is not asleep with work to do, or with    *)
(* the order to leave, unless a client that holds Lock is about to wake    *)
(* it.                                                                     *)
NoLostWakeup ==
    worker = "event" /\ Event = 0 /\ Lock = NoTask => Queue = <<>> /\ ~ExitThread

(* The caller's side of the contract: while no task queues work during or  *)
(* after DestroyWorkQueue -- work functions may -- an item is freed only   *)
(* after it ran, whatever was queued when.                                 *)
FreedItemsRan == [][~late' => heap \ heap' \subseteq {running}]_vars

(* When the work queue is gone nobody is in a call of it, and no item and  *)
(* no resource is left behind; nor is one when it could not be created.    *)
GoneWithoutTrace ==
    worker \in {"failed", "gone"} /\ ~late =>
        /\ \A c \in Clients : pc[c] = "out"
        /\ resources = {} /\ heap = {} /\ Queue = <<>>

(* Every item that was queued runs, unless it was queued too late.         *)
EveryItemRuns == \A i \in Items : i \in ToSet(Queue) ~> running = i \/ late

(* The work queue is gone some time after it was destroyed, if new work is *)
(* not queued for ever.                                                    *)
DestroyCompletes ==
    <>[][\A c \in Clients, i \in Items : ~QueueWorkItem(c, i)]_vars
        => (ExitThread ~> worker = "gone")

=============================================================================
