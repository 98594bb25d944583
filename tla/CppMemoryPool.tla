---------------------------- MODULE CppMemoryPool ----------------------------
(***************************************************************************)
(* The C++ memory pool, cmem_pool.cpp: the addresses of the free items are *)
(* in a std::list outside the items, taken from its front and put back at  *)
(* its end.                                                                *)
(*                                                                         *)
(* Memory is the bytes 1 .. CmpMemory, handed out from the bottom, by      *)
(* malloc or as a preallocated buffer of the caller.  An operation on the  *)
(* list is two steps, a read of it and its update, that Lock has to keep   *)
(* together.                                                               *)
(***************************************************************************)
EXTENDS Naturals, Sequences, SequencesExt, FiniteSets

CONSTANTS
    CmpTasks,
    CmpNoTask,      \* the owner of a mutex that is free
    PointerSize,    \* sizeof(unsigned char *)
    CmpMemory,      \* bound on all memory
    CmpSizes,       \* the item sizes, the alignments, the item counts and
    CmpAlignments,  \* the sizes of preallocated buffers that are asked for
    CmpCounts,
    CmpBuffers

ASSUME CmpAssumption ==
    /\ CmpNoTask \notin CmpTasks
    /\ PointerSize \in Nat \ {0} /\ CmpMemory \in Nat
    /\ CmpSizes \subseteq Nat \ {0} /\ CmpAlignments \subseteq Nat
    /\ CmpCounts \subseteq Nat \ {0} /\ CmpBuffers \subseteq Nat

VARIABLES
    cmp,                    \* "none", "ready" or "failed"
    asked,                  \* the item size the creator asked for
    itemSize,               \* the field ItemSize
    FreeItems,
    PoolLock,               \* the field Lock
    used,                   \* the bytes handed out to the pool
    at,                     \* where each task is, "out" when in no call
    item,                   \* the address it allocates, frees or adds
    bytes,                  \* what is left of the memory it adds
    seen,                   \* FreeItems, as it has read it
    owned                   \* the items the users have

cmpVars == <<cmp, asked, itemSize, FreeItems, PoolLock, used, at, item, bytes, seen, owned>>
calls   == <<at, item, bytes, seen>>

CmpTypeOK ==
    /\ cmp \in {"none", "ready", "failed"}
    /\ asked \in Nat /\ itemSize \in Nat
    /\ FreeItems \in Seq(1 .. CmpMemory)
    /\ PoolLock \in CmpTasks \cup {CmpNoTask}
    /\ used \in 0 .. CmpMemory
    /\ at \in [CmpTasks -> {"out", "a_lock", "a_read", "a_pop", "f_lock", "f_read", "f_push",
                            "m_lock", "m_read", "m_push"}]
    /\ item \in [CmpTasks -> Nat] /\ bytes \in [CmpTasks -> Nat]
    /\ seen \in [CmpTasks -> Seq(1 .. CmpMemory)]
    /\ owned \subseteq 1 .. CmpMemory

CmpInit ==
    /\ cmp = "none" /\ asked = 0 /\ itemSize = 0
    /\ FreeItems = <<>> /\ PoolLock = CmpNoTask /\ used = 0
    /\ at = [t \in CmpTasks |-> "out"]
    /\ item = [t \in CmpTasks |-> 0] /\ bytes = [t \in CmpTasks |-> 0]
    /\ seen = [t \in CmpTasks |-> <<>>]
    /\ owned = {}

-----------------------------------------------------------------------------
(* The constructors *)

(* At least a pointer; the caller has to see that it is a power of two.    *)
CalculateValidAlignment(alignment) == IF alignment < PointerSize THEN PointerSize ELSE alignment
IsPowerOfTwo(n) == \E i \in 0 .. 30 : n = 2 ^ i

(* Mutant: what does not fill an Alignment is dropped.                     *)
RoundedSizeDown(size, alignment) ==
    IF size <= alignment THEN alignment ELSE (size \div alignment) * alignment

(* CalculateItemSize: the size, rounded up to a multiple of Alignment.     *)
RoundedSize(size, alignment) ==
    IF size <= alignment THEN alignment
    ELSE ((size + alignment - 1) \div alignment) * alignment

(* As many items as there is room for in n bytes from `address' on.        *)
ItemsIn(address, n, size) == [i \in 1 .. n \div size |-> address + (i - 1) * size]

Construct(size, alignment, n) ==
    /\ cmp # "ready" /\ cmp' = "ready"
    /\ IsPowerOfTwo(CalculateValidAlignment(alignment))
    /\ used + n <= CmpMemory /\ used' = used + n
    /\ asked' = size
    /\ FreeItems' = ItemsIn(used + 1, n, itemSize')
    /\ UNCHANGED <<PoolLock, calls, owned>>

PoolFromMalloc(size, count, alignment) ==
    /\ itemSize' = RoundedSize(size, CalculateValidAlignment(alignment))
    /\ Construct(size, alignment, count * itemSize')

PoolFromBuffer(size, n, alignment) ==
    /\ itemSize' = RoundedSize(size, CalculateValidAlignment(alignment))
    /\ Construct(size, alignment, n)

(* A bad alignment, or malloc fails, and an exception is thrown.           *)
ConstructorThrows ==
    /\ cmp # "ready" /\ cmp' = "failed"
    /\ UNCHANGED <<asked, itemSize, FreeItems, PoolLock, used, calls, owned>>

(* The mutex cannot be created: what malloc returned is leaked, and never  *)
(* used.                                                                   *)
MutexThrows(size, count, alignment) ==
    LET n == count * RoundedSize(size, CalculateValidAlignment(alignment))
    IN  /\ cmp # "ready" /\ cmp' = "failed"
        /\ IsPowerOfTwo(CalculateValidAlignment(alignment))
        /\ used + n <= CmpMemory /\ used' = used + n
        /\ UNCHANGED <<asked, itemSize, FreeItems, PoolLock, calls, owned>>

-----------------------------------------------------------------------------
(* Allocate, Free and AddMemory *)

Goto(t, from, to) == at[t] = from /\ at' = [at EXCEPT ![t] = to]

Locking(t) ==
    Goto(t, "a_lock", "a_read") \/ Goto(t, "f_lock", "f_read") \/ Goto(t, "m_lock", "m_read")

(* Mutant: there is no LockGuard.                                          *)
GuardNot(t) ==
    /\ Locking(t)
    /\ at[t] = "m_lock" => bytes[t] >= itemSize
    /\ UNCHANGED <<cmp, asked, itemSize, FreeItems, PoolLock, used, item, bytes, seen, owned>>

(* The constructor of LockGuard; AddMemory's takes one for each item.      *)
Guard(t) ==
    /\ Locking(t)
    /\ at[t] = "m_lock" => bytes[t] >= itemSize
    /\ PoolLock = CmpNoTask /\ PoolLock' = t
    /\ UNCHANGED <<cmp, asked, itemSize, FreeItems, used, item, bytes, seen, owned>>

CallAllocate(t) ==
    /\ cmp = "ready"
    /\ Goto(t, "out", "a_lock")
    /\ UNCHANGED <<cmp, asked, itemSize, FreeItems, PoolLock, used, item, bytes, seen, owned>>

(* FreeItems.front(), and the read of any other operation on the list.     *)
ReadList(t) ==
    /\ \/ FreeItems # <<>> /\ Goto(t, "a_read", "a_pop")
       \/ Goto(t, "f_read", "f_push")
       \/ Goto(t, "m_read", "m_push")
    /\ seen' = [seen EXCEPT ![t] = FreeItems]
    /\ UNCHANGED <<cmp, asked, itemSize, FreeItems, PoolLock, used, item, bytes, owned>>

(* Returns NULL.                                                           *)
AllocateNULL(t) ==
    /\ FreeItems = <<>>
    /\ Goto(t, "a_read", "out")
    /\ PoolLock' = CmpNoTask
    /\ UNCHANGED <<cmp, asked, itemSize, FreeItems, used, item, bytes, seen, owned>>

PopFront(t) ==
    /\ Goto(t, "a_pop", "out")
    /\ FreeItems' = Tail(seen[t])
    /\ owned' = owned \cup {Head(seen[t])}
    /\ seen' = [seen EXCEPT ![t] = <<>>]
    /\ PoolLock' = CmpNoTask
    /\ UNCHANGED <<cmp, asked, itemSize, used, item, bytes>>

(* Any task may free what any task allocated.                              *)
CallFree(t, a) ==
    /\ a \in owned /\ owned' = owned \ {a}
    /\ Goto(t, "out", "f_lock")
    /\ item' = [item EXCEPT ![t] = a]
    /\ UNCHANGED <<cmp, asked, itemSize, FreeItems, PoolLock, used, bytes, seen>>

FreePushBack(t) ==
    /\ Goto(t, "f_push", "out")
    /\ FreeItems' = Append(seen[t], item[t])
    /\ seen' = [seen EXCEPT ![t] = <<>>] /\ item' = [item EXCEPT ![t] = 0]
    /\ PoolLock' = CmpNoTask
    /\ UNCHANGED <<cmp, asked, itemSize, used, bytes, owned>>

(* AddMemory(count) asks malloc for count * ItemSize bytes.                *)
CallAddMemory(t, n) ==
    /\ cmp = "ready" /\ n > 0
    /\ used + n <= CmpMemory /\ used' = used + n
    /\ Goto(t, "out", "m_lock")
    /\ item' = [item EXCEPT ![t] = used + 1] /\ bytes' = [bytes EXCEPT ![t] = n]
    /\ UNCHANGED <<cmp, asked, itemSize, FreeItems, PoolLock, seen, owned>>

AddMemoryPushBack(t) ==
    /\ Goto(t, "m_push", "m_lock")
    /\ FreeItems' = Append(seen[t], item[t])
    /\ seen' = [seen EXCEPT ![t] = <<>>]
    /\ item' = [item EXCEPT ![t] = @ + itemSize] /\ bytes' = [bytes EXCEPT ![t] = @ - itemSize]
    /\ PoolLock' = CmpNoTask
    /\ UNCHANGED <<cmp, asked, itemSize, used, owned>>

(* push_back needs memory for the node of the list, and throws: the item   *)
(* stays with the user, or what is left to be added is leaked.             *)
PushBackThrows(t) ==
    /\ \/ Goto(t, "f_push", "out") /\ owned' = owned \cup {item[t]}
       \/ Goto(t, "m_push", "out") /\ owned' = owned
    /\ item' = [item EXCEPT ![t] = 0] /\ bytes' = [bytes EXCEPT ![t] = 0]
    /\ seen' = [seen EXCEPT ![t] = <<>>]
    /\ PoolLock' = CmpNoTask
    /\ UNCHANGED <<cmp, asked, itemSize, FreeItems, used>>

AddMemoryReturns(t) ==
    /\ bytes[t] < itemSize
    /\ Goto(t, "m_lock", "out")
    /\ item' = [item EXCEPT ![t] = 0] /\ bytes' = [bytes EXCEPT ![t] = 0]
    /\ UNCHANGED <<cmp, asked, itemSize, FreeItems, PoolLock, used, seen, owned>>

CmpNext ==
    \/ \E size \in CmpSizes, alignment \in CmpAlignments :
          \/ \E count \in CmpCounts : PoolFromMalloc(size, count, alignment)
          \/ \E n \in CmpBuffers : PoolFromBuffer(size, n, alignment)
          \/ \E count \in CmpCounts : MutexThrows(size, count, alignment)
    \/ ConstructorThrows
    \/ \E t \in CmpTasks :
          \/ CallAllocate(t) \/ (\E a \in owned : CallFree(t, a))
          \/ (\E n \in CmpBuffers : CallAddMemory(t, n))
          \/ (\E count \in CmpCounts : CallAddMemory(t, count * itemSize))
          \/ Guard(t) \/ ReadList(t) \/ AllocateNULL(t) \/ PopFront(t)
          \/ FreePushBack(t) \/ AddMemoryPushBack(t) \/ PushBackThrows(t)
          \/ AddMemoryReturns(t)

CmpSpec == CmpInit /\ [][CmpNext]_cmpVars

-----------------------------------------------------------------------------
(* Properties *)

(* An item that is on its way back into the pool is still out.             *)
Returning == {item[t] : t \in {u \in CmpTasks : at[u] \in {"f_lock", "f_read", "f_push"}}}

PromisedPool == INSTANCE MemoryPool WITH free <- ToSet(FreeItems), out <- owned \cup Returning

(* The pool is a memory pool as MemoryPool promises, in every interleaving *)
(* of Allocate, Free and AddMemory: no item is handed out twice or lost.   *)
CppPoolImplementsMemoryPool == PromisedPool!Spec

(* Items are as large as was asked for, which the rounding to Alignment    *)
(* must not change, lie in the memory the pool was given, and do not       *)
(* overlap, whichever of the four ways they came into the pool.            *)
CppItemsDisjoint ==
    cmp = "ready" =>
        LET all == ToSet(FreeItems) \cup owned
        IN  \A a \in all : /\ a + asked - 1 <= used
                           /\ \A b \in all : a < b => a + asked <= b

=============================================================================
