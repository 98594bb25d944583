----------------------------- MODULE MemoryPool -----------------------------
(***************************************************************************)
(* What a memory pool promises its users, whatever its data structures:    *)
(* an item that is allocated was free, and is nobody else's until it is    *)
(* freed; the pool only ever grows.                                        *)
(***************************************************************************)
VARIABLES
    free,   \* the items that can be allocated
    out     \* the items that were allocated and not freed

Init == free = {} /\ out = {}

(* Creation and the addition of memory.                                    *)
Grow(items) ==
    /\ items \cap (free \cup out) = {}
    /\ free' = free \cup items
    /\ out' = out

Allocate(item) ==
    /\ item \in free
    /\ free' = free \ {item}
    /\ out' = out \cup {item}

Free(item) ==
    /\ item \in out
    /\ out' = out \ {item}
    /\ free' = free \cup {item}

Next ==
    \/ Grow(free' \ free)
    \/ \E item \in free : Allocate(item)
    \/ \E item \in out : Free(item)

Spec == Init /\ [][Next]_<<free, out>>

=============================================================================
