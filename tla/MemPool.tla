------------------------------- MODULE MemPool -------------------------------
(***************************************************************************)
(* The C memory pool: c/Source/mem_pool.c, over the intrusive stack of     *)
(* stack_simple.c and slist.c, whose Next pointer is at the start of each  *)
(* block; the user's part of a block begins Alignment bytes later.         *)
(*                                                                         *)
(* Memory is the bytes 1 .. MemorySize, handed out from the bottom, be it  *)
(* by malloc, which may fail at any time, or as a preallocated buffer of   *)
(* the caller.  A push and a pop are two steps each, the read of the head  *)
(* of the list and its update, that Lock has to keep together.  A write    *)
(* outside the buffer that is added is undefined, and not followed.        *)
(***************************************************************************)
EXTENDS FreeRTOSSemaphore, Integers, FiniteSets

CONSTANTS
    Tasks,
    PtrSize,        \* sizeof(unsigned char *)
    MemorySize,     \* bound on all memory
    Requests,       \* the item sizes that are asked for
    Alignments,     \* the alignments that are asked for
    Counts,         \* the item counts that are asked for
    StaticSizes     \* the sizes of preallocated buffers

ASSUME MemPoolAssumption ==
    /\ NoTask \notin Tasks
    /\ PtrSize \in Nat \ {0} /\ MemorySize \in Nat
    /\ Requests \subseteq Nat \ {0} /\ Alignments \subseteq Nat
    /\ Counts \subseteq Nat \ {0} /\ StaticSizes \subseteq Nat

NULL      == 0
Addresses == 0 .. MemorySize

VARIABLES
    pool,                   \* "none", "ready", or "failed"
    request,                \* the item size the creator asked for
    ItemSize, Alignment,    \* the fields of MemPool_t
    Lock,
    HeadNext, Count,        \* Stack.Head.Next and Stack.Count
    Next_,                  \* the Next pointer at each address
    brk,                    \* the first byte not handed out
    given,                  \* the buffers the pool was given: <<address, size>>
    out,                    \* the pointers the users have
    pc,                     \* where each task is, "out" when in no call
    ptr,                    \* the block it pushes
    temp,                   \* the head of the list that it has read
    buffer,                 \* the extra memory it adds: <<address, size>>
    overrun                 \* a push went beyond that: the model's

geometry == <<pool, request, ItemSize, Alignment>>
stack    == <<HeadNext, Count, Next_>>
memory   == <<brk, given>>
vars     == <<geometry, Lock, stack, memory, out, pc, ptr, temp, buffer, overrun>>

TypeOK ==
    /\ pool \in {"none", "ready", "failed"}
    /\ request \in Nat /\ ItemSize \in Nat /\ Alignment \in Nat
    /\ Lock \in Tasks \cup {NoTask}
    /\ HeadNext \in Addresses /\ Count \in Nat
    /\ Next_ \in [Addresses -> Addresses]
    /\ brk \in Nat
    /\ given \subseteq Nat \X Nat
    /\ out \subseteq Addresses
    /\ pc \in [Tasks -> {"out", "a_lock", "a_test", "a_pop", "a_unlink", "f_lock", "f_load",
                         "f_link", "x_lock", "x_load", "x_link", "s_lock", "s_load", "s_link"}]
    /\ ptr \in [Tasks -> Nat] /\ temp \in [Tasks -> Addresses]
    /\ buffer \in [Tasks -> Nat \X Nat]
    /\ overrun \in BOOLEAN

Init ==
    /\ pool = "none" /\ request = 0 /\ ItemSize = 0 /\ Alignment = 0
    /\ Lock = NoTask
    /\ HeadNext = NULL /\ Count = 0
    /\ Next_ = [a \in Addresses |-> NULL]
    /\ brk = 1 /\ given = {}
    /\ out = {}
    /\ pc = [t \in Tasks |-> "out"]
    /\ ptr = [t \in Tasks |-> NULL] /\ temp = [t \in Tasks |-> NULL]
    /\ buffer = [t \in Tasks |-> <<NULL, 0>>]
    /\ overrun = FALSE

-----------------------------------------------------------------------------
(* Creation *)

(* At least a pointer, and a power of two; 0 if it is not.                 *)
CalculateAndVerifyAlignment(alignment) ==
    LET a == IF alignment < PtrSize THEN PtrSize ELSE alignment
    IN  IF \E i \in 0 .. 30 : a = 2 ^ i THEN a ELSE 0

(* Mutant: no room for the SlNode_t of the block.                          *)
CalculateItemSizeNoNode(size, alignment) ==
    IF size <= alignment THEN alignment
    ELSE ((size \div alignment) + (IF size % alignment = 0 THEN 0 ELSE 1)) * alignment

(* The size rounded up, and one Alignment more for the SlNode_t.           *)
CalculateItemSize(size, alignment) ==
    IF size <= alignment THEN 2 * alignment
    ELSE ((size \div alignment) + (IF size % alignment = 0 THEN 0 ELSE 1) + 1) * alignment

(* n blocks of `size' bytes each, from `base' on.                          *)
BlocksOf(base, n, size) == {base + i * size : i \in 0 .. n - 1}

(* A buffer of so many bytes is taken from memory and given to the pool.   *)
Obtain(bytes) ==
    /\ brk + bytes <= MemorySize + 1
    /\ brk' = brk + bytes
    /\ given' = given \cup {<<brk, bytes>>}

(* Geometry, and n blocks pushed one after the other.                      *)
Create(size, alignment, n) ==
    /\ pool # "ready" /\ pool' = "ready"
    /\ Alignment' = CalculateAndVerifyAlignment(alignment)
    /\ Alignment' # 0
    /\ request' = size
    /\ ItemSize' = CalculateItemSize(size, Alignment')
    /\ Count' = n
    /\ HeadNext' = IF n = 0 THEN NULL ELSE brk + (n - 1) * ItemSize'
    /\ Next_' = [a \in Addresses |->
                    IF a \in BlocksOf(brk, n, ItemSize') \ {brk} THEN a - ItemSize' ELSE NULL]
    /\ UNCHANGED <<Lock, out, pc, ptr, temp, buffer, overrun>>

CreateMemoryPool(size, count, alignment) ==
    /\ Create(size, alignment, count)
    /\ Obtain(count * ItemSize')

CreateMemoryPoolStatic(size, bytes, alignment) ==
    /\ Create(size, alignment, bytes \div ItemSize')
    /\ Obtain(bytes)

(* A bad alignment, no memory, no mutex: NULL, and nothing is left behind. *)
CreateFails ==
    /\ pool # "ready" /\ pool' = "failed"
    /\ UNCHANGED <<request, ItemSize, Alignment, Lock, stack, memory, out, pc, ptr, temp, buffer, overrun>>

-----------------------------------------------------------------------------
(* MemoryPoolAllocate *)

Go(t, from, to) == pc[t] = from /\ pc' = [pc EXCEPT ![t] = to]

(* Mutant: Lock is not taken.                                              *)
TakeLockNot(t) ==
    /\ Go(t, "a_lock", "a_test") \/ Go(t, "f_lock", "f_load")
    /\ UNCHANGED <<geometry, Lock, stack, memory, out, ptr, temp, buffer, overrun>>

TakeLock(t) ==
    /\ Go(t, "a_lock", "a_test") \/ Go(t, "f_lock", "f_load")
    /\ TakeMutex(Lock, t)
    /\ UNCHANGED <<geometry, stack, memory, out, ptr, temp, buffer, overrun>>

MemoryPoolAllocate(t) ==
    /\ pool = "ready"
    /\ Go(t, "out", "a_lock")
    /\ UNCHANGED <<geometry, Lock, stack, memory, out, ptr, temp, buffer, overrun>>

AllocateTest(t) ==
    /\ Count # 0
    /\ Go(t, "a_test", "a_pop")
    /\ UNCHANGED <<geometry, Lock, stack, memory, out, ptr, temp, buffer, overrun>>

(* Returns NULL.                                                           *)
AllocateNone(t) ==
    /\ Count = 0
    /\ Go(t, "a_test", "out")
    /\ GiveMutex(Lock)
    /\ UNCHANGED <<geometry, stack, memory, out, ptr, temp, buffer, overrun>>

(* PopOffStack counts and reads the head of the list.                      *)
PopOffStack(t) ==
    /\ Go(t, "a_pop", "a_unlink")
    /\ Count' = Count - 1
    /\ temp' = [temp EXCEPT ![t] = HeadNext]
    /\ UNCHANGED <<geometry, Lock, HeadNext, Next_, memory, out, ptr, buffer, overrun>>

(* SlRemoveNodeFromHead updates it, and the user gets what follows the     *)
(* SlNode_t.                                                               *)
RemoveNode(t) ==
    /\ Go(t, "a_unlink", "out")
    /\ HeadNext' = IF temp[t] = NULL THEN HeadNext ELSE Next_[temp[t]]
    /\ out' = out \cup {temp[t] + Alignment}
    /\ temp' = [temp EXCEPT ![t] = NULL]
    /\ GiveMutex(Lock)
    /\ UNCHANGED <<geometry, Count, Next_, memory, ptr, buffer, overrun>>

-----------------------------------------------------------------------------
(* MemoryPoolFree, and AddExtraMemoryToPool with its static form *)

(* Any task may free what any task allocated.                              *)
MemoryPoolFree(t, p) ==
    /\ p \in out
    /\ Go(t, "out", "f_lock")
    /\ out' = out \ {p}
    /\ ptr' = [ptr EXCEPT ![t] = p - Alignment]
    /\ UNCHANGED <<geometry, Lock, stack, memory, temp, buffer, overrun>>

(* PushOnStack: SlInsertNodeAfter(Head, Node) reads the head of the list.  *)
PushLoad(t) ==
    /\ Go(t, "f_load", "f_link") \/ Go(t, "x_load", "x_link") \/ Go(t, "s_load", "s_link")
    /\ temp' = [temp EXCEPT ![t] = HeadNext]
    /\ UNCHANGED <<geometry, Lock, stack, memory, out, ptr, buffer, overrun>>

(* Mutant: the node is not counted.                                        *)
InsertNodeNotCounted(t) ==
    /\ HeadNext' = ptr[t]
    /\ Next_' = [Next_ EXCEPT ![ptr[t]] = temp[t]]
    /\ temp' = [temp EXCEPT ![t] = NULL]
    /\ UNCHANGED Count

(* It updates it, and the node is counted.                                 *)
InsertNode(t) ==
    /\ HeadNext' = ptr[t]
    /\ Next_' = [Next_ EXCEPT ![ptr[t]] = temp[t]]
    /\ temp' = [temp EXCEPT ![t] = NULL]
    /\ Count' = Count + 1

FreePush(t) ==
    /\ Go(t, "f_link", "out")
    /\ InsertNode(t)
    /\ ptr' = [ptr EXCEPT ![t] = NULL]
    /\ GiveMutex(Lock)
    /\ UNCHANGED <<geometry, memory, out, buffer, overrun>>

(* The extra memory is cut into blocks, each of which is pushed under a    *)
(* lock of its own.                                                        *)
AddExtraMemoryToPool(t, count) ==
    /\ pool = "ready"
    /\ Go(t, "out", "x_lock")
    /\ Obtain(count * ItemSize)
    /\ ptr' = [ptr EXCEPT ![t] = brk]
    /\ buffer' = [buffer EXCEPT ![t] = <<brk, count * ItemSize>>]
    /\ UNCHANGED <<geometry, Lock, stack, out, temp, overrun>>

AddExtraMemoryToPoolStatic(t, bytes) ==
    /\ pool = "ready"
    /\ Go(t, "out", "s_lock")
    /\ Obtain(bytes)
    /\ ptr' = [ptr EXCEPT ![t] = brk]
    /\ buffer' = [buffer EXCEPT ![t] = <<brk, bytes>>]
    /\ UNCHANGED <<geometry, Lock, stack, out, temp, overrun>>

(* The block starts and ends in the task's buffer.                         *)
InBuffer(t) == ptr[t] + ItemSize <= buffer[t][1] + buffer[t][2]

(* i < ItemCount: there is room left for a block; but                      *)
(* PreallocatedMemorySize >= ItemSize, which no iteration counts down.     *)
More(t) == IF pc[t] = "x_lock" THEN InBuffer(t) ELSE buffer[t][2] >= ItemSize

AddLock(t) ==
    /\ More(t)
    /\ Go(t, "x_lock", "x_load") \/ Go(t, "s_lock", "s_load")
    /\ TakeMutex(Lock, t)
    /\ UNCHANGED <<geometry, stack, memory, out, ptr, temp, buffer, overrun>>

AddPush(t) ==
    /\ Go(t, "x_link", "x_lock") \/ Go(t, "s_link", "s_lock")
    /\ InBuffer(t)
    /\ InsertNode(t)
    /\ ptr' = [ptr EXCEPT ![t] = @ + ItemSize]
    /\ GiveMutex(Lock)
    /\ UNCHANGED <<geometry, memory, out, buffer, overrun>>

AddPushOverrun(t) ==
    /\ Go(t, "s_link", "s_lock")
    /\ ~InBuffer(t)
    /\ overrun' = TRUE
    /\ UNCHANGED <<geometry, Lock, stack, memory, out, ptr, temp, buffer>>

AddDone(t) ==
    /\ ~More(t)
    /\ Go(t, "x_lock", "out") \/ Go(t, "s_lock", "out")
    /\ ptr' = [ptr EXCEPT ![t] = NULL]
    /\ buffer' = [buffer EXCEPT ![t] = <<NULL, 0>>]
    /\ UNCHANGED <<geometry, Lock, stack, memory, out, temp, overrun>>

Next ==
    /\ ~overrun
    /\ \/ \E size \in Requests, alignment \in Alignments :
             \/ \E count \in Counts : CreateMemoryPool(size, count, alignment)
             \/ \E bytes \in StaticSizes : CreateMemoryPoolStatic(size, bytes, alignment)
       \/ CreateFails
       \/ \E t \in Tasks :
             \/ TakeLock(t)
             \/ MemoryPoolAllocate(t) \/ AllocateNone(t) \/ AllocateTest(t)
             \/ PopOffStack(t) \/ RemoveNode(t)
             \/ (\E p \in out : MemoryPoolFree(t, p)) \/ PushLoad(t) \/ FreePush(t)
             \/ \E count \in Counts : AddExtraMemoryToPool(t, count)
             \/ \E bytes \in StaticSizes : AddExtraMemoryToPoolStatic(t, bytes)
             \/ AddLock(t) \/ AddPush(t) \/ AddPushOverrun(t) \/ AddDone(t)

Spec == Init /\ [][Next]_vars

-----------------------------------------------------------------------------
(* Properties *)

Bytes(a, n) == a .. a + n - 1

(* The blocks from `a' on in so many bytes.                                *)
BlocksIn(a, bytes) == BlocksOf(a, bytes \div ItemSize, ItemSize)

Blocks == UNION {BlocksIn(g[1], g[2]) : g \in given}

(* The blocks that AddExtraMemory has yet to push.                         *)
Coming(t) ==
    IF pc[t] \in {"x_lock", "x_load", "x_link", "s_lock", "s_load", "s_link"}
    THEN {b \in BlocksIn(buffer[t][1], buffer[t][2]) : b >= ptr[t]} ELSE {}

Freeing == {t \in Tasks : pc[t] \in {"f_lock", "f_load", "f_link"}}

(* The nodes met on the way down the stack, of which there cannot be more  *)
(* than there is memory for.                                               *)
Walk[n \in Nat] == IF n = 0 THEN HeadNext ELSE Next_[Walk[n - 1]]
Deepest == MemorySize \div PtrSize
OnStack == {Walk[n] : n \in 0 .. Deepest} \ {NULL}

Owned == {p - Alignment : p \in out} \cup {ptr[t] : t \in Freeing}

(* The chain of Next pointers, threaded through the free blocks, ends, and *)
(* holds Count nodes when nobody is at it; each block of the memory the    *)
(* pool was given is either there, or a user's, or on its way in: calls    *)
(* that overlap lose no block and hand none out twice.                     *)
BlocksConserved ==
    pool = "ready" =>
        LET coming == UNION {Coming(t) : t \in Tasks}
        IN  /\ Walk[Deepest] = NULL
            /\ Lock = NoTask => Cardinality(OnStack) = Count
            /\ OnStack \cup Owned \cup coming = Blocks
            /\ OnStack \cap Owned = {}
            /\ (OnStack \cup Owned) \cap coming = {}
            /\ Cardinality(Owned) = Cardinality(out) + Cardinality(Freeing)

(* What a user may write, the bytes it asked for, is memory of the pool,   *)
(* nobody else's, and no Next pointer of any block: CalculateItemSize      *)
(* leaves room for the payload and the node at any size and alignment.     *)
PayloadsDisjoint ==
    \A p \in out :
        /\ \E g \in given : Bytes(p, request) \subseteq Bytes(g[1], g[2])
        /\ \A q \in out \ {p} : Bytes(p, request) \cap Bytes(q, request) = {}
        /\ \A b \in OnStack \cup Owned : Bytes(p, request) \cap Bytes(b, PtrSize) = {}

(* The pool implements the abstract one: an allocation returns an item     *)
(* that was free, and a call that fails changes nothing.                   *)
Abstract == INSTANCE MemoryPool WITH
    free <- {b + Alignment : b \in OnStack},
    out  <- {b + Alignment : b \in Owned}

ImplementsMemoryPool == Abstract!Spec

(* mem_pool.h says that PreallocatedMemorySize is the size of the buffer   *)
(* that is passed in: no block is made of the memory behind it.            *)
StaysInBuffer == ~overrun

=============================================================================
