---------------------------- MODULE ZeroCopyQueue ----------------------------
(***************************************************************************)
(* The zero copy queue, zero_copy_queue.c: a FreeRTOS queue of pointers to *)
(* the items of a memory pool, of which each has a place in the queue.     *)
(* The pool is what MemoryPool promises, and MemPool implements; each call *)
(* is one call of the pool or of the queue, and one step.                  *)
(***************************************************************************)
EXTENDS Naturals, FiniteSets, Sequences, SequencesExt

CONSTANTS
    ZcqTasks,
    Items           \* the items the pool is created with: ItemCount of them

ASSUME ZcqAssumption == IsFiniteSet(Items)

VARIABLES
    zcq,            \* "malloc", "queue" and "pool" while it is created, then
                    \* "created" or "failed"
    Handle,         \* the queue: "none", "open" or "deleted"
    places,         \* how many pointers it holds
    queued,         \* those it holds
    free, out,      \* the items of the pool
    held            \* the items each task has

zcqVars == <<zcq, Handle, places, queued, free, out, held>>

Pool == INSTANCE MemoryPool

ZcqTypeOK ==
    /\ zcq \in {"malloc", "queue", "pool", "created", "failed"}
    /\ Handle \in {"none", "open", "deleted"}
    /\ places \in 0 .. Cardinality(Items)
    /\ queued \in Seq(Items)
    /\ free \subseteq Items /\ out \subseteq Items
    /\ held \in [ZcqTasks -> SUBSET Items]

ZcqInit ==
    /\ zcq = "malloc" /\ Handle = "none" /\ places = 0
    /\ queued = <<>>
    /\ Pool!Init
    /\ held = [t \in ZcqTasks |-> {}]

-----------------------------------------------------------------------------
(* ZcqCreateQueue *)

MallocZcq ==
    /\ zcq = "malloc" /\ zcq' = "queue"
    /\ UNCHANGED <<Handle, places, queued, free, out, held>>

(* malloc or xQueueCreate fails.                                           *)
CreateZcqFails ==
    /\ zcq \in {"malloc", "queue"} /\ zcq' = "failed"
    /\ UNCHANGED <<Handle, places, queued, free, out, held>>

(* Mutant: there is one place too few.                                     *)
CreateHandleShort ==
    /\ zcq = "queue" /\ zcq' = "pool"
    /\ Handle' = "open" /\ places' = Cardinality(Items) - 1
    /\ UNCHANGED <<queued, free, out, held>>

CreateHandle ==
    /\ zcq = "queue" /\ zcq' = "pool"
    /\ Handle' = "open" /\ places' = Cardinality(Items)
    /\ UNCHANGED <<queued, free, out, held>>

CreatePool ==
    /\ zcq = "pool" /\ zcq' = "created"
    /\ Pool!Grow(Items)
    /\ UNCHANGED <<Handle, places, queued, held>>

(* zcq is freed, and then zcq->Handle is read from the freed memory: the   *)
(* queue is deleted, or whatever is there now is taken for it.             *)
CreatePoolFails ==
    /\ zcq = "pool" /\ zcq' = "failed"
    /\ Handle' \in {"open", "deleted"}
    /\ UNCHANGED <<places, queued, free, out, held>>

-----------------------------------------------------------------------------

ZcqAllocateItem(t, item) ==
    /\ zcq = "created"
    /\ Pool!Allocate(item)
    /\ held' = [held EXCEPT ![t] = @ \cup {item}]
    /\ UNCHANGED <<zcq, Handle, places, queued>>

ZcqFreeItem(t, item) ==
    /\ item \in held[t]
    /\ Pool!Free(item)
    /\ held' = [held EXCEPT ![t] = @ \ {item}]
    /\ UNCHANGED <<zcq, Handle, places, queued>>

(* 0 when its Timeout is over, for want of a place: the task keeps the     *)
(* item then.                                                              *)
ZcqEnqueueItem(t, item) ==
    /\ item \in held[t]
    /\ Len(queued) < places
    /\ queued' = Append(queued, item)
    /\ held' = [held EXCEPT ![t] = @ \ {item}]
    /\ UNCHANGED <<zcq, Handle, places, free, out>>

(* NULL when its Timeout is over and the queue still empty.                *)
ZcqDequeueItem(t) ==
    /\ queued # <<>>
    /\ queued' = Tail(queued)
    /\ held' = [held EXCEPT ![t] = @ \cup {Head(queued)}]
    /\ UNCHANGED <<zcq, Handle, places, free, out>>

ZcqNext ==
    \/ MallocZcq \/ CreateZcqFails \/ CreateHandle \/ CreatePool \/ CreatePoolFails
    \/ \E t \in ZcqTasks :
          \/ ZcqDequeueItem(t)
          \/ \E item \in Items :
                ZcqAllocateItem(t, item) \/ ZcqFreeItem(t, item) \/ ZcqEnqueueItem(t, item)

ZcqSpec == ZcqInit /\ [][ZcqNext]_zcqVars

-----------------------------------------------------------------------------
(* Properties *)

(* Nothing is copied, so an item is in one place: free in the pool, once   *)
(* in the queue, or with one task.  Tasks that keep to that, and free and  *)
(* enqueue only what they have, always find a place in the queue: an       *)
(* enqueue never fails, and never blocks, whatever its Timeout.            *)
ItemsHaveOneOwner ==
    /\ IsInjective(queued)
    /\ \A t \in ZcqTasks :
          /\ held[t] \cap (free \cup ToSet(queued)) = {}
          /\ \A u \in ZcqTasks \ {t} : held[t] \cap held[u] = {}
    /\ out = ToSet(queued) \cup UNION {held[t] : t \in ZcqTasks}
    /\ (\E t \in ZcqTasks : held[t] # {}) => Len(queued) < places

=============================================================================
