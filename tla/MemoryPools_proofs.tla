-------------------------- MODULE MemoryPools_proofs --------------------------
(***************************************************************************)
(* Proofs about the memory pools, for any tasks, sizes, alignments, counts *)
(* and amount of memory.                                                   *)
(***************************************************************************)
EXTENDS MemPool, CppMemoryPool, SequenceLemmas, FiniteSetTheorems, TLAPS

-----------------------------------------------------------------------------
(* The C++ memory pool.                                                    *)

Inside(t)   == at[t] \in {"a_read", "a_pop", "f_read", "f_push", "m_read", "m_push"}
Adding(t)   == at[t] \in {"m_lock", "m_read", "m_push"}
Bringing(t) == at[t] \in {"f_lock", "f_read", "f_push"}

(* Nobody is in a call of a pool that is not there.                        *)
NotReady ==
    cmp # "ready" => FreeItems = <<>> /\ owned = {} /\ \A t \in CmpTasks : at[t] = "out"

(* Who has Lock has read the list as it is.                                *)
ListSeen ==
    \A t \in CmpTasks :
        /\ Inside(t) => PoolLock = t
        /\ at[t] \in {"a_pop", "f_push", "m_push"} => seen[t] = FreeItems
        /\ at[t] = "a_pop" => FreeItems # <<>>

(* An item is in one place.                                                *)
Places ==
    /\ IsInjective(FreeItems)
    /\ ToSet(FreeItems) \cap owned = {}
    /\ \A t \in CmpTasks : Bringing(t) =>
          /\ item[t] \notin ToSet(FreeItems) \cup owned
          /\ \A u \in CmpTasks : Bringing(u) /\ item[u] = item[t] => t = u

AllItems == ToSet(FreeItems) \cup owned \cup Returning

(* Items are apart from each other and from what is still to be added.     *)
Geometry ==
    /\ cmp = "ready" => asked \in Nat \ {0} /\ asked <= itemSize
    /\ \A a \in AllItems : a >= 1 /\ a + itemSize <= used + 1
    /\ \A a, b \in AllItems : a = b \/ a + itemSize <= b \/ b + itemSize <= a
    /\ \A t \in CmpTasks : Adding(t) =>
          /\ item[t] >= 1 /\ item[t] + bytes[t] <= used + 1
          /\ at[t] # "m_lock" => bytes[t] >= itemSize
          /\ \A a \in AllItems : a + itemSize <= item[t] \/ item[t] + bytes[t] <= a
          /\ \A u \in CmpTasks : Adding(u) /\ u # t =>
                item[u] + bytes[u] <= item[t] \/ item[t] + bytes[t] <= item[u]

CmpInv == CmpTypeOK /\ NotReady /\ ListSeen /\ Places /\ Geometry

(* Division with a remainder.                                              *)
LEMMA Division ==
    ASSUME NEW a \in Nat, NEW b \in Nat \ {0}
    PROVE  a \div b \in Nat /\ (a \div b) * b <= a /\ a < (a \div b) * b + b
OBVIOUS

(* The multiples of a number are that far apart.                           *)
LEMMA Multiples ==
    ASSUME NEW i \in Nat, NEW j \in Nat, i < j, NEW s \in Nat
    PROVE  i * s \in Nat /\ j * s \in Nat /\ i * s + s <= j * s
OBVIOUS

(* Rounding up to an Alignment makes no item smaller.                      *)
LEMMA RoundedUp ==
    ASSUME NEW size \in Nat \ {0}, NEW alignment \in Nat
    PROVE  /\ RoundedSize(size, CalculateValidAlignment(alignment)) \in Nat
           /\ size <= RoundedSize(size, CalculateValidAlignment(alignment))
<1> DEFINE al == CalculateValidAlignment(alignment)
<1>1. al \in Nat \ {0}
  BY CmpAssumption DEF CalculateValidAlignment
<1> HIDE DEF al
<1>2. CASE size <= al
  BY <1>1, <1>2 DEF RoundedSize, al
<1>3. CASE ~(size <= al)
  <2> DEFINE q == (size + al - 1) \div al
  <2>1. size + al - 1 \in Nat
    BY <1>1
  <2>2. q \in Nat /\ size + al - 1 < q * al + al
    BY <1>1, <2>1, Division
  <2> HIDE DEF q
  <2>3. q * al \in Nat
    BY <1>1, <2>2
  <2>4. RoundedSize(size, al) = q * al
    BY <1>3 DEF RoundedSize, q
  <2> QED
    BY <1>1, <2>2, <2>3, <2>4 DEF al
<1> QED
  BY <1>2, <1>3

(* The items of new memory are inside of it, and apart.                    *)
LEMMA ItemsInStep ==
    ASSUME NEW address \in Nat \ {0}, NEW n \in Nat, NEW size \in Nat \ {0},
           address + n <= CmpMemory + 1, NEW s, s = ItemsIn(address, n, size)
    PROVE  /\ s \in Seq(1 .. CmpMemory) /\ IsInjective(s)
           /\ \A a \in ToSet(s) : a >= address /\ a + size <= address + n
           /\ \A a, b \in ToSet(s) : a = b \/ a + size <= b \/ b + size <= a
<1> DEFINE q == n \div size
<1>1. q \in Nat /\ q * size \in Nat /\ q * size <= n
  BY Division
<1> HIDE DEF q
<1>2. s = [i \in 1 .. q |-> address + (i - 1) * size]
  BY DEF ItemsIn, q
<1>3. ASSUME NEW i \in 1 .. q
      PROVE  /\ (i - 1) * size \in Nat /\ (i - 1) * size + size <= n
             /\ s[i] \in 1 .. CmpMemory /\ s[i] >= address /\ s[i] + size <= address + n
  <2>1. i - 1 \in Nat /\ i - 1 < q
    BY <1>1
  <2>2. (i - 1) * size \in Nat /\ (i - 1) * size + size <= n
    BY <1>1, <2>1, Multiples
  <2>3. s[i] = address + (i - 1) * size
    BY <1>2
  <2> QED
    BY <2>2, <2>3, CmpAssumption
<1>4. ASSUME NEW i \in 1 .. q, NEW j \in 1 .. q, i < j PROVE s[i] + size <= s[j]
  <2>1. i - 1 \in Nat /\ j - 1 \in Nat /\ i - 1 < j - 1
    BY <1>1, <1>4
  <2>2. /\ (i - 1) * size \in Nat /\ (j - 1) * size \in Nat
        /\ (i - 1) * size + size <= (j - 1) * size
    BY <2>1, Multiples
  <2>3. s[i] = address + (i - 1) * size /\ s[j] = address + (j - 1) * size
    BY <1>2
  <2> QED
    BY <2>2, <2>3
<1>5. DOMAIN s = 1 .. q /\ s \in [1 .. q -> 1 .. CmpMemory]
  BY <1>2, <1>3
<1>6. s \in Seq(1 .. CmpMemory)
  BY <1>1, <1>5, SeqDef
<1>7. \A i, j \in 1 .. q : i = j \/ s[i] + size <= s[j] \/ s[j] + size <= s[i]
  BY <1>1, <1>4
<1>8. IsInjective(s)
  <2> SUFFICES ASSUME NEW i \in 1 .. q, NEW j \in 1 .. q, s[i] = s[j] PROVE i = j
    BY <1>5 DEF IsInjective
  <2>1. s[i] \in Nat /\ s[j] \in Nat
    BY <1>5
  <2> QED
    BY <1>7, <2>1
<1>9. \A a \in ToSet(s) : \E i \in 1 .. q : a = s[i]
  BY <1>5 DEF ToSet
<1> QED
  BY <1>3, <1>6, <1>7, <1>8, <1>9

(* Items are addresses.                                                    *)
LEMMA AllTyped ==
    ASSUME CmpTypeOK
    PROVE  /\ ToSet(FreeItems) \subseteq Nat /\ AllItems \subseteq Nat
           /\ itemSize \in Nat /\ used \in Nat
           /\ item \in [CmpTasks -> Nat] /\ bytes \in [CmpTasks -> Nat]
<1>1. CmpMemory \in Nat /\ 1 .. CmpMemory \subseteq Nat
  BY CmpAssumption
<1>2. ToSet(FreeItems) \subseteq 1 .. CmpMemory
  BY EmptyIff DEF CmpTypeOK
<1>3. Returning \subseteq Nat
  BY DEF CmpTypeOK, Returning
<1>4. owned \subseteq Nat /\ used \in Nat
  BY <1>1 DEF CmpTypeOK
<1>5. itemSize \in Nat /\ item \in [CmpTasks -> Nat] /\ bytes \in [CmpTasks -> Nat]
  BY DEF CmpTypeOK
<1>6. ToSet(FreeItems) \subseteq Nat
  BY <1>1, <1>2
<1> QED
  BY <1>3, <1>4, <1>5, <1>6 DEF AllItems

(* Items that stay where they are, in memory that may grow.                *)
LEMMA GeometryKept ==
    ASSUME CmpTypeOK, Geometry, used' \in Nat, used <= used', AllItems' = AllItems,
           UNCHANGED <<asked, itemSize>>, cmp' = "ready" => cmp = "ready",
           \A t \in CmpTasks : Adding(t)' =>
               /\ Adding(t) /\ item'[t] = item[t] /\ bytes'[t] = bytes[t]
               /\ at'[t] # "m_lock" => bytes[t] >= itemSize
    PROVE  Geometry'
<1>1. /\ AllItems \subseteq Nat /\ itemSize \in Nat /\ used \in Nat
      /\ item \in [CmpTasks -> Nat] /\ bytes \in [CmpTasks -> Nat]
  BY AllTyped
<1>2. ASSUME NEW a \in AllItems PROVE a + itemSize <= used' + 1
  <2>1. a \in Nat /\ a + itemSize <= used + 1
    BY <1>1 DEF Geometry
  <2>2. \A x, y, z \in Nat : x <= y + 1 /\ y <= z => x <= z + 1
    OBVIOUS
  <2>3. a + itemSize \in Nat
    BY <1>1, <2>1
  <2> QED
    BY <1>1, <2>1, <2>2, <2>3
<1>3. ASSUME NEW t \in CmpTasks, Adding(t)'
      PROVE  /\ item'[t] >= 1 /\ item'[t] + bytes'[t] <= used' + 1
             /\ at'[t] # "m_lock" => bytes'[t] >= itemSize'
             /\ \A a \in AllItems' : a + itemSize' <= item'[t] \/ item'[t] + bytes'[t] <= a
             /\ \A u \in CmpTasks : Adding(u)' /\ u # t =>
                   item'[u] + bytes'[u] <= item'[t] \/ item'[t] + bytes'[t] <= item'[u]
  BY <1>1, <1>3 DEF Geometry
<1> QED
  BY <1>1, <1>2, <1>3 DEF Geometry

(* What a constructor does.                                                *)
LEMMA CmpConstructInv ==
    ASSUME CmpInv, NEW size \in CmpSizes, NEW alignment \in CmpAlignments, NEW n \in Nat,
           itemSize' = RoundedSize(size, CalculateValidAlignment(alignment)),
           Construct(size, alignment, n)
    PROVE  /\ CmpInv'
           /\ FreeItems = <<>> /\ owned = {} /\ Returning = {}
           /\ owned' = {} /\ Returning' = {}
<1>1. size \in Nat \ {0} /\ alignment \in Nat /\ CmpMemory \in Nat
  BY CmpAssumption
<1>2. itemSize' \in Nat \ {0} /\ size <= itemSize'
  BY <1>1, RoundedUp
<1>3. /\ used \in Nat /\ used' = used + n /\ used + n <= CmpMemory
      /\ cmp # "ready" /\ cmp' = "ready" /\ asked' = size
      /\ FreeItems' = ItemsIn(used + 1, n, itemSize')
      /\ UNCHANGED <<PoolLock, at, item, bytes, seen, owned>>
  BY CmpAssumption DEF Construct, CmpInv, CmpTypeOK, calls
<1>4. /\ FreeItems' \in Seq(1 .. CmpMemory) /\ IsInjective(FreeItems')
      /\ \A a \in ToSet(FreeItems') : a >= used + 1 /\ a + itemSize' <= used + 1 + n
      /\ \A a, b \in ToSet(FreeItems') : a = b \/ a + itemSize' <= b \/ b + itemSize' <= a
  <2>1. used + 1 \in Nat \ {0} /\ (used + 1) + n <= CmpMemory + 1
    BY <1>1, <1>3
  <2>2. FreeItems' = ItemsIn(used + 1, n, itemSize')
    BY <1>3
  <2> QED
    BY <1>2, <2>1, <2>2, ItemsInStep
<1>5. /\ FreeItems = <<>> /\ owned = {} /\ \A t \in CmpTasks : at[t] = "out"
  BY <1>3 DEF CmpInv, NotReady
<1>6. /\ Returning = {} /\ Returning' = {} /\ owned' = {}
      /\ \A t \in CmpTasks : ~Inside(t)' /\ ~Adding(t)' /\ ~Bringing(t)' /\ at'[t] = "out"
  BY <1>3, <1>5 DEF Returning, Inside, Adding, Bringing
<1>7. CmpTypeOK'
  BY <1>1, <1>2, <1>3, <1>4 DEF CmpInv, CmpTypeOK
<1>8. Geometry'
  <2>1. AllItems' = ToSet(FreeItems')
    BY <1>6 DEF AllItems
  <2>2. ASSUME NEW a \in ToSet(FreeItems') PROVE a \in Nat /\ a >= 1 /\ a + itemSize' <= used' + 1
    <3>1. a \in Nat
      BY <1>7, AllTyped, EmptyIff, <1>1, <1>4
    <3>2. a >= used + 1 /\ a + itemSize' <= used + 1 + n
      BY <1>4
    <3> QED
      BY <1>2, <1>3, <3>1, <3>2
  <2> QED
    BY <1>1, <1>2, <1>3, <1>4, <1>6, <2>1, <2>2 DEF Geometry
<1>9. NotReady' /\ ListSeen' /\ Places'
  BY <1>3, <1>4, <1>6 DEF NotReady, ListSeen, Places
<1> QED
  BY <1>5, <1>6, <1>7, <1>8, <1>9 DEF CmpInv

(* All of it holds at first.                                               *)
LEMMA CmpInitInv == CmpInit => CmpInv
<1> SUFFICES ASSUME CmpInit PROVE CmpInv
  OBVIOUS
<1>1. \A t \in CmpTasks : ~Inside(t) /\ ~Adding(t) /\ ~Bringing(t) /\ at[t] = "out"
  BY DEF CmpInit, Inside, Adding, Bringing
<1>2. AllItems = {} /\ IsInjective(FreeItems) /\ ToSet(FreeItems) = {}
  BY EmptySet DEF CmpInit, AllItems, Returning
<1>3. CmpTypeOK
  BY CmpAssumption DEF CmpInit, CmpTypeOK
<1>4. NotReady /\ ListSeen /\ Places
  BY <1>1, <1>2 DEF CmpInit, NotReady, ListSeen, Places
<1>5. Geometry
  BY <1>1, <1>2 DEF CmpInit, Geometry
<1> QED
  BY <1>3, <1>4, <1>5 DEF CmpInv


(* What a step of task t is to the abstract pool.                          *)
PromiseKept == PromisedPool!Next \/ UNCHANGED <<ToSet(FreeItems), owned \cup Returning>>

(* Steps that move no item: calls begin, take Lock and read, or find that  *)
(* there is nothing to do.                                                 *)
LEMMA CmpQuietInv ==
    ASSUME CmpInv, NEW t \in CmpTasks,
           CallAllocate(t) \/ Guard(t) \/ ReadList(t) \/ AllocateNULL(t) \/ AddMemoryReturns(t)
    PROVE  CmpInv' /\ PromiseKept
<1>0. at \in [CmpTasks -> {"out", "a_lock", "a_read", "a_pop", "f_lock", "f_read", "f_push",
                           "m_lock", "m_read", "m_push"}]
  BY DEF CmpInv, CmpTypeOK
<1> USE DEF Goto, Locking, CallAllocate, Guard, ReadList, AllocateNULL, AddMemoryReturns
<1>1. /\ UNCHANGED <<cmp, asked, itemSize, FreeItems, used, owned>>
      /\ cmp = "ready"
      /\ \A u \in CmpTasks \ {t} : /\ at'[u] = at[u] /\ item'[u] = item[u] /\ bytes'[u] = bytes[u]
                                   /\ seen'[u] = seen[u]
  BY <1>0 DEF CmpInv, NotReady, CmpTypeOK
<1>2. /\ Bringing(t)' <=> Bringing(t)
      /\ Bringing(t) => item'[t] = item[t]
      /\ Adding(t)' => Adding(t) /\ item'[t] = item[t] /\ bytes'[t] = bytes[t]
                       /\ (at'[t] # "m_lock" => bytes[t] >= itemSize)
  BY <1>0 DEF Bringing, Adding, CmpInv, Geometry
<1>3. \A u \in CmpTasks : (Bringing(u)' <=> Bringing(u)) /\ (Bringing(u) => item'[u] = item[u])
  BY <1>1, <1>2 DEF Bringing
<1>4. Returning' = Returning
  BY <1>3 DEF Returning, Bringing
<1>5. AllItems' = AllItems
  BY <1>1, <1>4 DEF AllItems
<1>6. CmpTypeOK'
  <2>1. /\ at' \in [CmpTasks -> {"out", "a_lock", "a_read", "a_pop", "f_lock", "f_read", "f_push",
                                 "m_lock", "m_read", "m_push"}]
        /\ PoolLock' \in CmpTasks \cup {CmpNoTask}
    BY <1>0 DEF CmpInv, CmpTypeOK
  <2>2. item' \in [CmpTasks -> Nat] /\ bytes' \in [CmpTasks -> Nat]
    BY DEF CmpInv, CmpTypeOK
  <2>3. seen' \in [CmpTasks -> Seq(1 .. CmpMemory)]
    BY DEF CmpInv, CmpTypeOK
  <2> QED
    BY <1>1, <2>1, <2>2, <2>3 DEF CmpInv, CmpTypeOK
<1>7. Geometry'
  <2>1. used' \in Nat /\ used <= used'
    BY <1>1, AllTyped DEF CmpInv
  <2>2. \A u \in CmpTasks : Adding(u)' =>
           /\ Adding(u) /\ item'[u] = item[u] /\ bytes'[u] = bytes[u]
           /\ at'[u] # "m_lock" => bytes[u] >= itemSize
    BY <1>1, <1>2 DEF Adding, CmpInv, Geometry
  <2> QED
    BY <1>1, <1>5, <2>1, <2>2, GeometryKept DEF CmpInv
<1>8. Places'
  BY <1>1, <1>3 DEF CmpInv, Places
<1>9. ListSeen'
  <2>1. \A u \in CmpTasks \ {t} : Inside(u)' => PoolLock' = u
    BY <1>0, <1>1, CmpAssumption DEF CmpInv, ListSeen, Inside
  <2>2. Inside(t)' => PoolLock' = t
    BY <1>0 DEF CmpInv, CmpTypeOK, ListSeen, Inside
  <2>3. at'[t] \in {"a_pop", "f_push", "m_push"} => seen'[t] = FreeItems
    BY <1>0 DEF CmpInv, CmpTypeOK, ListSeen
  <2>4. at'[t] = "a_pop" => FreeItems # <<>>
    BY <1>0 DEF CmpInv, ListSeen
  <2> QED
    BY <1>1, <2>1, <2>2, <2>3, <2>4 DEF CmpInv, ListSeen
<1> QED
  BY <1>1, <1>4, <1>6, <1>7, <1>8, <1>9 DEF CmpInv, NotReady, PromiseKept

(* An allocation: the first item of the list is the user's.                *)
LEMMA CmpPopInv ==
    ASSUME CmpInv, NEW t \in CmpTasks, PopFront(t)
    PROVE  CmpInv' /\ PromiseKept
<1>0. /\ at \in [CmpTasks -> {"out", "a_lock", "a_read", "a_pop", "f_lock", "f_read", "f_push",
                              "m_lock", "m_read", "m_push"}]
      /\ FreeItems \in Seq(1 .. CmpMemory)
      /\ seen \in [CmpTasks -> Seq(1 .. CmpMemory)] /\ IsInjective(FreeItems)
  BY DEF CmpInv, CmpTypeOK, Places
<1>1. PICK a : a = Head(FreeItems)
  OBVIOUS
<1>2. /\ at[t] = "a_pop" /\ at' = [at EXCEPT ![t] = "out"] /\ seen[t] = FreeItems /\ FreeItems # <<>>
      /\ FreeItems' = Tail(FreeItems) /\ owned' = owned \cup {a}
      /\ PoolLock' = CmpNoTask /\ seen' = [seen EXCEPT ![t] = <<>>]
      /\ UNCHANGED <<cmp, asked, itemSize, used, item, bytes>>
  BY <1>1 DEF PopFront, Goto, CmpInv, ListSeen
<1>3. /\ FreeItems' \in Seq(1 .. CmpMemory) /\ a \in 1 .. CmpMemory /\ IsInjective(FreeItems')
      /\ ToSet(FreeItems) = ToSet(FreeItems') \cup {a} /\ a \notin ToSet(FreeItems')
  BY <1>0, <1>1, <1>2, TailSet
<1>4. \A u \in CmpTasks : (Bringing(u)' <=> Bringing(u)) /\ (Adding(u)' <=> Adding(u))
  BY <1>0, <1>2 DEF Bringing, Adding
<1>5. Returning' = Returning
  BY <1>2, <1>4 DEF Returning, Bringing
<1>6. AllItems' = AllItems
  BY <1>2, <1>3, <1>5 DEF AllItems
<1>7. CmpTypeOK'
  BY <1>0, <1>2, <1>3 DEF CmpInv, CmpTypeOK
<1>8. Geometry'
  <2>1. used' \in Nat /\ used <= used'
    BY <1>2, AllTyped DEF CmpInv
  <2>2. \A u \in CmpTasks : Adding(u)' =>
           /\ Adding(u) /\ item'[u] = item[u] /\ bytes'[u] = bytes[u]
           /\ at'[u] # "m_lock" => bytes[u] >= itemSize
    BY <1>0, <1>2 DEF Adding, CmpInv, Geometry
  <2> QED
    BY <1>2, <1>6, <2>1, <2>2, GeometryKept DEF CmpInv
<1>9. Places'
  <2>1. \A u \in CmpTasks : Bringing(u) => item[u] # a
    BY <1>3 DEF CmpInv, Places
  <2> QED
    BY <1>2, <1>3, <1>4, <2>1 DEF CmpInv, Places
<1>10. ListSeen' /\ NotReady'
  <2>1. \A u \in CmpTasks : Inside(u)' => Inside(u) /\ u # t
    BY <1>0, <1>2 DEF Inside
  <2>2. \A u \in CmpTasks : ~Inside(u)'
    BY <1>2, <2>1 DEF CmpInv, ListSeen, Inside
  <2>3. cmp = "ready"
    BY <1>2 DEF CmpInv, NotReady
  <2> QED
    BY <1>2, <2>2, <2>3 DEF ListSeen, NotReady, Inside
<1>11. PromisedPool!Allocate(a)
  BY <1>2, <1>3, <1>5 DEF PromisedPool!Allocate, CmpInv, Places, Returning, Bringing
<1> QED
  BY <1>3, <1>7, <1>8, <1>9, <1>10, <1>11 DEF CmpInv, PromiseKept, PromisedPool!Next

(* An item that is freed is on its way, and still out.                     *)
LEMMA CmpFreeInv ==
    ASSUME CmpInv, NEW t \in CmpTasks, NEW a \in owned, CallFree(t, a)
    PROVE  CmpInv' /\ PromiseKept
<1>0. /\ at \in [CmpTasks -> {"out", "a_lock", "a_read", "a_pop", "f_lock", "f_read", "f_push",
                              "m_lock", "m_read", "m_push"}]
      /\ item \in [CmpTasks -> Nat] /\ owned \subseteq 1 .. CmpMemory /\ a \in Nat
  BY CmpAssumption DEF CmpInv, CmpTypeOK
<1>1. /\ at[t] = "out" /\ at' = [at EXCEPT ![t] = "f_lock"] /\ owned' = owned \ {a}
      /\ item' = [item EXCEPT ![t] = a]
      /\ UNCHANGED <<cmp, asked, itemSize, FreeItems, PoolLock, used, bytes, seen>>
  BY DEF CallFree, Goto
<1>2. /\ Bringing(t)' /\ ~Bringing(t) /\ ~Adding(t)' /\ ~Adding(t) /\ ~Inside(t)' /\ item'[t] = a
      /\ \A u \in CmpTasks \ {t} : /\ (Bringing(u)' <=> Bringing(u)) /\ (Adding(u)' <=> Adding(u))
                                   /\ (Inside(u)' <=> Inside(u)) /\ item'[u] = item[u] /\ at'[u] = at[u]
  BY <1>0, <1>1 DEF Bringing, Adding, Inside
<1>3. Returning = {item[u] : u \in {v \in CmpTasks : Bringing(v)}}
      /\ Returning' = {item'[u] : u \in {v \in CmpTasks : Bringing(v)'}}
  BY DEF Returning, Bringing
<1>4. Returning' = Returning \cup {a}
  BY <1>2, <1>3
<1>5. AllItems' = AllItems /\ owned' \cup Returning' = owned \cup Returning
  BY <1>1, <1>4 DEF AllItems
<1>6. CmpTypeOK'
  BY <1>0, <1>1 DEF CmpInv, CmpTypeOK
<1>7. Geometry'
  <2>1. used' \in Nat /\ used <= used'
    BY <1>1, AllTyped DEF CmpInv
  <2>2. \A u \in CmpTasks : Adding(u)' =>
           /\ Adding(u) /\ item'[u] = item[u] /\ bytes'[u] = bytes[u]
           /\ at'[u] # "m_lock" => bytes[u] >= itemSize
    BY <1>1, <1>2 DEF CmpInv, Geometry
  <2> QED
    BY <1>1, <1>5, <2>1, <2>2, GeometryKept DEF CmpInv
<1>8. Places'
  <2>1. a \notin ToSet(FreeItems) /\ \A u \in CmpTasks : Bringing(u) => item[u] # a
    BY DEF CmpInv, Places
  <2> QED
    BY <1>1, <1>2, <2>1 DEF CmpInv, Places
<1>9. ListSeen' /\ NotReady'
  BY <1>1, <1>2 DEF CmpInv, ListSeen, NotReady
<1> QED
  BY <1>1, <1>5, <1>6, <1>7, <1>8, <1>9 DEF CmpInv, PromiseKept

(* It is put at the end of the list, or, if there is no memory for a node, *)
(* remains the user's.                                                     *)
LEMMA CmpFreedInv ==
    ASSUME CmpInv, NEW t \in CmpTasks, at[t] = "f_push", FreePushBack(t) \/ PushBackThrows(t)
    PROVE  CmpInv' /\ PromiseKept
<1>0. /\ at \in [CmpTasks -> {"out", "a_lock", "a_read", "a_pop", "f_lock", "f_read", "f_push",
                              "m_lock", "m_read", "m_push"}]
      /\ item \in [CmpTasks -> Nat] /\ bytes \in [CmpTasks -> Nat]
      /\ seen \in [CmpTasks -> Seq(1 .. CmpMemory)] /\ IsInjective(FreeItems)
      /\ owned \subseteq 1 .. CmpMemory /\ FreeItems \in Seq(1 .. CmpMemory)
  BY DEF CmpInv, CmpTypeOK, Places
<1>1. PICK a : a = item[t]
  OBVIOUS
<1>2. /\ at' = [at EXCEPT ![t] = "out"] /\ seen[t] = FreeItems
      /\ item' = [item EXCEPT ![t] = 0] /\ seen' = [seen EXCEPT ![t] = <<>>]
      /\ PoolLock' = CmpNoTask
      /\ bytes' \in [CmpTasks -> Nat] /\ \A u \in CmpTasks \ {t} : bytes'[u] = bytes[u]
      /\ UNCHANGED <<cmp, asked, itemSize, used>>
  <2>1. seen[t] = FreeItems
    BY DEF CmpInv, ListSeen
  <2>2. CASE FreePushBack(t)
    BY <1>0, <2>1, <2>2 DEF FreePushBack, Goto
  <2>3. CASE PushBackThrows(t)
    BY <1>0, <2>1, <2>3 DEF PushBackThrows, Goto
  <2> QED
    BY <2>2, <2>3
<1>3. \/ FreeItems' = Append(FreeItems, a) /\ owned' = owned
      \/ FreeItems' = FreeItems /\ owned' = owned \cup {a}
  BY <1>1, <1>2 DEF FreePushBack, PushBackThrows, Goto
<1>4. /\ Bringing(t) /\ a \in Returning /\ a \notin ToSet(FreeItems) \cup owned
      /\ \A u \in CmpTasks \ {t} : Bringing(u) => item[u] # a
  BY <1>1 DEF Bringing, CmpInv, Places, Returning
<1>5. a \in 1 .. CmpMemory
  <2>1. a \in Nat /\ a >= 1 /\ a + itemSize <= used + 1 /\ used \in Nat /\ used <= CmpMemory
    BY <1>4, AllTyped, CmpAssumption DEF CmpInv, Geometry, AllItems, CmpTypeOK
  <2>2. itemSize \in Nat \ {0}
    BY <1>0 DEF CmpInv, Geometry, CmpTypeOK, NotReady
  <2> QED
    BY <2>1, <2>2, CmpAssumption
<1>6. /\ FreeItems' \in Seq(1 .. CmpMemory) /\ IsInjective(FreeItems') /\ owned' \subseteq 1 .. CmpMemory
      /\ ToSet(FreeItems') \cup owned' = ToSet(FreeItems) \cup owned \cup {a}
      /\ ToSet(FreeItems') \cap owned' = {}
  <2> DEFINE addresses == 1 .. CmpMemory
  <2>1. /\ Append(FreeItems, a) \in Seq(addresses) /\ IsInjective(Append(FreeItems, a))
        /\ ToSet(Append(FreeItems, a)) = ToSet(FreeItems) \cup {a}
    <3>1. FreeItems \in Seq(addresses) /\ a \in addresses
      BY <1>0, <1>5
    <3> HIDE DEF addresses
    <3> QED
      BY <1>0, <1>4, <3>1, AppendSet, AppendAt
  <2>2. ToSet(FreeItems) \cap owned = {} /\ a \notin owned
    BY <1>4 DEF CmpInv, Places
  <2>3. owned \subseteq 1 .. CmpMemory /\ FreeItems \in Seq(addresses) /\ IsInjective(FreeItems)
    BY <1>0 DEF CmpInv, Places
  <2>4. CASE FreeItems' = Append(FreeItems, a) /\ owned' = owned
    BY <2>1, <2>2, <2>3, <2>4
  <2>5. CASE FreeItems' = FreeItems /\ owned' = owned \cup {a}
    BY <1>4, <1>5, <2>2, <2>3, <2>5
  <2> QED
    BY <1>3, <2>4, <2>5
<1>7. /\ ~Bringing(t)' /\ ~Adding(t)' /\ ~Inside(t)'
      /\ \A u \in CmpTasks \ {t} : /\ (Bringing(u)' <=> Bringing(u)) /\ (Adding(u)' <=> Adding(u))
                                   /\ (Inside(u)' <=> Inside(u)) /\ item'[u] = item[u] /\ at'[u] = at[u]
  BY <1>0, <1>2 DEF Bringing, Adding, Inside
<1>8. Returning' = Returning \ {a}
  <2>1. Returning = {item[u] : u \in {v \in CmpTasks : Bringing(v)}}
        /\ Returning' = {item'[u] : u \in {v \in CmpTasks : Bringing(v)'}}
    BY DEF Returning, Bringing
  <2> QED
    BY <1>1, <1>4, <1>7, <2>1
<1>9. AllItems' = AllItems
  BY <1>4, <1>6, <1>8 DEF AllItems
<1>10. CmpTypeOK'
  BY <1>0, <1>2, <1>6 DEF CmpInv, CmpTypeOK
<1>11. Geometry'
  <2>1. used' \in Nat /\ used <= used'
    BY <1>2, AllTyped DEF CmpInv
  <2>2. \A u \in CmpTasks : Adding(u)' =>
           /\ Adding(u) /\ item'[u] = item[u] /\ bytes'[u] = bytes[u]
           /\ at'[u] # "m_lock" => bytes[u] >= itemSize
    BY <1>2, <1>7 DEF CmpInv, Geometry
  <2> QED
    BY <1>2, <1>9, <2>1, <2>2, GeometryKept DEF CmpInv
<1>12. Places'
  BY <1>4, <1>6, <1>7 DEF CmpInv, Places
<1>13. ListSeen' /\ NotReady'
  <2>1. \A u \in CmpTasks : ~Inside(u)'
    BY <1>7 DEF CmpInv, ListSeen, Inside
  <2>2. cmp' = "ready"
    BY <1>2 DEF CmpInv, NotReady
  <2> QED
    BY <2>1, <2>2 DEF ListSeen, NotReady, Inside
<1>14. PromisedPool!Free(a) \/ UNCHANGED <<ToSet(FreeItems), owned \cup Returning>>
  <2>1. CASE FreeItems' = Append(FreeItems, a) /\ owned' = owned
    <3>1. ToSet(FreeItems') = ToSet(FreeItems) \cup {a}
      BY <1>4, <1>6, <2>1 DEF CmpInv, Places
    <3> QED
      BY <1>4, <1>8, <2>1, <3>1 DEF PromisedPool!Free
  <2>2. CASE FreeItems' = FreeItems /\ owned' = owned \cup {a}
    BY <1>4, <1>8, <2>2
  <2> QED
    BY <1>3, <2>1, <2>2
<1> QED
  BY <1>4, <1>10, <1>11, <1>12, <1>13, <1>14 DEF CmpInv, PromiseKept, PromisedPool!Next

(* More memory is asked for, and lies above all that the pool has.         *)
LEMMA CmpAddInv ==
    ASSUME CmpInv, NEW t \in CmpTasks, NEW n \in Nat, CallAddMemory(t, n)
    PROVE  CmpInv' /\ PromiseKept
<1>0. /\ at \in [CmpTasks -> {"out", "a_lock", "a_read", "a_pop", "f_lock", "f_read", "f_push",
                              "m_lock", "m_read", "m_push"}]
      /\ item \in [CmpTasks -> Nat] /\ bytes \in [CmpTasks -> Nat] /\ used \in Nat
      /\ AllItems \subseteq Nat /\ itemSize \in Nat
  BY AllTyped DEF CmpInv, CmpTypeOK
<1>1. /\ at[t] = "out" /\ at' = [at EXCEPT ![t] = "m_lock"] /\ cmp = "ready"
      /\ used' = used + n /\ used + n <= CmpMemory
      /\ item' = [item EXCEPT ![t] = used + 1] /\ bytes' = [bytes EXCEPT ![t] = n]
      /\ UNCHANGED <<cmp, asked, itemSize, FreeItems, PoolLock, seen, owned>>
  BY DEF CallAddMemory, Goto
<1>2. /\ Adding(t)' /\ ~Bringing(t)' /\ ~Bringing(t) /\ ~Inside(t)'
      /\ at'[t] = "m_lock" /\ item'[t] = used + 1 /\ bytes'[t] = n
      /\ \A u \in CmpTasks \ {t} :
            /\ (Bringing(u)' <=> Bringing(u)) /\ (Adding(u)' <=> Adding(u)) /\ (Inside(u)' <=> Inside(u))
            /\ item'[u] = item[u] /\ bytes'[u] = bytes[u] /\ at'[u] = at[u]
  BY <1>0, <1>1 DEF Bringing, Adding, Inside
<1>3. Returning' = Returning /\ AllItems' = AllItems
  BY <1>1, <1>2 DEF Returning, AllItems, Bringing
<1>4. CmpTypeOK'
  BY <1>0, <1>1, CmpAssumption DEF CmpInv, CmpTypeOK
<1>5. Geometry'
  <2>1. ASSUME NEW a \in AllItems PROVE a + itemSize <= used + 1 /\ a + itemSize <= used' + 1
    <3>1. a \in Nat /\ a + itemSize <= used + 1
      BY <1>0 DEF CmpInv, Geometry
    <3>2. used <= used' /\ used' \in Nat
      BY <1>0, <1>1
    <3>3. \A x, y, z \in Nat : x <= y + 1 /\ y <= z => x <= z + 1
      OBVIOUS
    <3>4. a + itemSize \in Nat
      BY <1>0, <3>1
    <3> QED
      BY <1>0, <3>1, <3>2, <3>3, <3>4
  <2>2. ASSUME NEW u \in CmpTasks \ {t}, Adding(u)
        PROVE  /\ item[u] >= 1 /\ item[u] + bytes[u] <= used + 1 /\ item[u] + bytes[u] <= used' + 1
               /\ at[u] # "m_lock" => bytes[u] >= itemSize
               /\ \A a \in AllItems : a + itemSize <= item[u] \/ item[u] + bytes[u] <= a
               /\ \A v \in CmpTasks : Adding(v) /\ v # u =>
                     item[v] + bytes[v] <= item[u] \/ item[u] + bytes[u] <= item[v]
    <3>1. /\ item[u] >= 1 /\ item[u] + bytes[u] <= used + 1
          /\ at[u] # "m_lock" => bytes[u] >= itemSize
          /\ \A a \in AllItems : a + itemSize <= item[u] \/ item[u] + bytes[u] <= a
          /\ \A v \in CmpTasks : Adding(v) /\ v # u =>
                item[v] + bytes[v] <= item[u] \/ item[u] + bytes[u] <= item[v]
      BY <2>2 DEF CmpInv, Geometry
    <3>2. item[u] + bytes[u] \in Nat /\ used' \in Nat /\ used <= used'
      BY <1>0, <1>1
    <3>3. \A x, y, z \in Nat : x <= y + 1 /\ y <= z => x <= z + 1
      OBVIOUS
    <3> QED
      BY <1>0, <3>1, <3>2, <3>3
  <2>3. item'[t] >= 1 /\ item'[t] + bytes'[t] <= used' + 1
    BY <1>0, <1>1, <1>2
  <2> QED
    BY <1>0, <1>1, <1>2, <1>3, <2>1, <2>2, <2>3 DEF CmpInv, Geometry
<1>6. Places' /\ ListSeen' /\ NotReady'
  BY <1>1, <1>2 DEF CmpInv, Places, ListSeen, NotReady
<1> QED
  BY <1>1, <1>3, <1>4, <1>5, <1>6 DEF CmpInv, PromiseKept


(* An item of the new memory joins the list: the rest of it comes next.    *)
LEMMA CmpAddedInv ==
    ASSUME CmpInv, NEW t \in CmpTasks, AddMemoryPushBack(t)
    PROVE  CmpInv' /\ PromiseKept
<1> DEFINE a == item[t]
<1>0. /\ at \in [CmpTasks -> {"out", "a_lock", "a_read", "a_pop", "f_lock", "f_read", "f_push",
                              "m_lock", "m_read", "m_push"}]
      /\ item \in [CmpTasks -> Nat] /\ bytes \in [CmpTasks -> Nat] /\ used \in Nat
      /\ AllItems \subseteq Nat /\ itemSize \in Nat
      /\ seen \in [CmpTasks -> Seq(1 .. CmpMemory)] /\ IsInjective(FreeItems)
      /\ owned \subseteq 1 .. CmpMemory /\ FreeItems \in Seq(1 .. CmpMemory)
      /\ used <= CmpMemory /\ CmpMemory \in Nat
  BY AllTyped, CmpAssumption DEF CmpInv, CmpTypeOK, Places
<1>1. /\ at[t] = "m_push" /\ at' = [at EXCEPT ![t] = "m_lock"]
      /\ FreeItems' = Append(FreeItems, a) /\ seen' = [seen EXCEPT ![t] = <<>>]
      /\ item' = [item EXCEPT ![t] = a + itemSize]
      /\ bytes' = [bytes EXCEPT ![t] = bytes[t] - itemSize]
      /\ PoolLock' = CmpNoTask
      /\ UNCHANGED <<cmp, asked, itemSize, used, owned>>
  BY DEF AddMemoryPushBack, Goto, CmpInv, ListSeen
<1>2. cmp = "ready" /\ itemSize >= 1
  BY <1>0, <1>1 DEF CmpInv, NotReady, Geometry
<1>3. /\ a \in Nat /\ a >= 1 /\ a + bytes[t] <= used + 1 /\ bytes[t] >= itemSize /\ bytes[t] \in Nat
      /\ \A b \in AllItems : b + itemSize <= a \/ a + bytes[t] <= b
      /\ \A u \in CmpTasks : Adding(u) /\ u # t =>
            item[u] + bytes[u] <= a \/ a + bytes[t] <= item[u]
  BY <1>0, <1>1 DEF CmpInv, Geometry, Adding
<1>4. a \in 1 .. CmpMemory /\ a + itemSize <= used + 1
  BY <1>0, <1>2, <1>3
<1>5. a \notin AllItems
  <2>1. ~(a + itemSize <= a) /\ ~(a + bytes[t] <= a)
    BY <1>0, <1>2, <1>3
  <2> HIDE DEF a
  <2> QED
    BY <1>3, <2>1
<1>6. /\ FreeItems' \in Seq(1 .. CmpMemory) /\ IsInjective(FreeItems')
      /\ ToSet(FreeItems') = ToSet(FreeItems) \cup {a}
  <2> DEFINE addresses == 1 .. CmpMemory
  <2>1. FreeItems \in Seq(addresses) /\ a \in addresses /\ a \notin ToSet(FreeItems)
    BY <1>0, <1>4, <1>5 DEF AllItems
  <2> HIDE DEF addresses, a
  <2>2. Append(FreeItems, a) \in Seq(addresses) /\ IsInjective(Append(FreeItems, a))
        /\ ToSet(Append(FreeItems, a)) = ToSet(FreeItems) \cup {a}
    BY <1>0, <2>1, AppendSet, AppendAt
  <2> QED
    BY <1>1, <2>2 DEF addresses
<1>7. /\ ~Bringing(t)' /\ ~Bringing(t) /\ ~Inside(t)' /\ Adding(t) /\ Adding(t)'
      /\ at'[t] = "m_lock" /\ item'[t] = a + itemSize /\ bytes'[t] = bytes[t] - itemSize
      /\ \A u \in CmpTasks \ {t} :
            /\ (Bringing(u)' <=> Bringing(u)) /\ (Adding(u)' <=> Adding(u)) /\ (Inside(u)' <=> Inside(u))
            /\ item'[u] = item[u] /\ bytes'[u] = bytes[u] /\ at'[u] = at[u]
  BY <1>0, <1>1 DEF Bringing, Adding, Inside
<1>8. Returning' = Returning
  BY <1>7 DEF Returning, Bringing
<1>9. AllItems' = AllItems \cup {a}
  BY <1>1, <1>6, <1>8 DEF AllItems
<1>10. bytes[t] - itemSize \in Nat /\ a + itemSize \in Nat
       /\ (a + itemSize) + (bytes[t] - itemSize) = a + bytes[t]
  BY <1>0, <1>3
<1>11. CmpTypeOK'
  <2>1. /\ item' \in [CmpTasks -> Nat] /\ bytes' \in [CmpTasks -> Nat]
        /\ seen' \in [CmpTasks -> Seq(1 .. CmpMemory)]
    <3> HIDE DEF a
    <3>1. <<>> \in Seq(1 .. CmpMemory)
      BY EmptySeq
    <3> QED
      BY <1>0, <1>1, <1>10, <3>1
  <2>2. at' \in [CmpTasks -> {"out", "a_lock", "a_read", "a_pop", "f_lock", "f_read", "f_push",
                              "m_lock", "m_read", "m_push"}]
    BY <1>0, <1>1
  <2>3. /\ cmp \in {"none", "ready", "failed"} /\ asked \in Nat /\ itemSize \in Nat
        /\ used \in 0 .. CmpMemory /\ owned \subseteq 1 .. CmpMemory
    BY DEF CmpInv, CmpTypeOK
  <2> HIDE DEF a
  <2> QED
    BY <1>1, <1>6, <2>1, <2>2, <2>3 DEF CmpTypeOK
<1> HIDE DEF a
<1>12. Geometry'
  <2>1. ASSUME NEW b \in AllItems
        PROVE  /\ b \in Nat /\ b >= 1 /\ b + itemSize <= used + 1
               /\ \/ b + itemSize <= a
                  \/ a + itemSize <= b /\ (a + itemSize) + (bytes[t] - itemSize) <= b
    <3>1. b \in Nat /\ b >= 1 /\ b + itemSize <= used + 1
      BY <1>0 DEF CmpInv, Geometry
    <3>2. b + itemSize <= a \/ a + bytes[t] <= b
      BY <1>3
    <3> QED
      BY <1>0, <1>3, <1>10, <3>1, <3>2
  <2>2. \A b, c \in AllItems' : b = c \/ b + itemSize <= c \/ c + itemSize <= b
    BY <1>9, <2>1 DEF CmpInv, Geometry
  <2>3. \A b \in AllItems' : b >= 1 /\ b + itemSize <= used + 1
    BY <1>3, <1>4, <1>9, <2>1
  <2>4. /\ item'[t] >= 1 /\ item'[t] + bytes'[t] <= used + 1
        /\ \A b \in AllItems' : b + itemSize <= item'[t] \/ item'[t] + bytes'[t] <= b
    <3>1. \A b \in AllItems : b + itemSize <= a => b + itemSize <= a + itemSize
      BY <1>0, <1>3
    <3>2. a + itemSize >= 1
      BY <1>0, <1>3
    <3> QED
      BY <1>3, <1>7, <1>9, <1>10, <2>1, <3>1, <3>2
  <2>5. ASSUME NEW u \in CmpTasks \ {t}, Adding(u)
        PROVE  /\ item[u] \in Nat /\ bytes[u] \in Nat
               /\ item[u] >= 1 /\ item[u] + bytes[u] <= used + 1
               /\ at[u] # "m_lock" => bytes[u] >= itemSize
               /\ \A b \in AllItems' : b + itemSize <= item[u] \/ item[u] + bytes[u] <= b
               /\ item[u] + bytes[u] <= item'[t] \/ item'[t] + bytes'[t] <= item[u]
               /\ \A v \in CmpTasks : Adding(v) /\ v # u =>
                     item[v] + bytes[v] <= item[u] \/ item[u] + bytes[u] <= item[v]
    <3>1. /\ item[u] >= 1 /\ item[u] + bytes[u] <= used + 1
          /\ at[u] # "m_lock" => bytes[u] >= itemSize
          /\ \A b \in AllItems : b + itemSize <= item[u] \/ item[u] + bytes[u] <= b
          /\ \A v \in CmpTasks : Adding(v) /\ v # u =>
                item[v] + bytes[v] <= item[u] \/ item[u] + bytes[u] <= item[v]
      BY <2>5 DEF CmpInv, Geometry
    <3>2. item[u] + bytes[u] <= a \/ a + bytes[t] <= item[u]
      BY <1>3, <2>5
    <3>3. item[u] \in Nat /\ bytes[u] \in Nat
      BY <1>0
    <3>4. item[u] + bytes[u] <= a \/ a + itemSize <= item[u]
      BY <1>0, <1>3, <3>2, <3>3
    <3>5. item[u] + bytes[u] <= a + itemSize \/ (a + itemSize) + (bytes[t] - itemSize) <= item[u]
      <4>1. a + bytes[t] <= item[u] => (a + itemSize) + (bytes[t] - itemSize) <= item[u]
        BY <1>10
      <4>2. item[u] + bytes[u] <= a => item[u] + bytes[u] <= a + itemSize
        BY <1>0, <1>3, <3>3
      <4> QED
        BY <3>2, <4>1, <4>2
    <3> QED
      BY <1>7, <1>9, <3>1, <3>3, <3>4, <3>5
  <2>6. ASSUME NEW u \in CmpTasks, Adding(u)'
        PROVE  /\ item'[u] >= 1 /\ item'[u] + bytes'[u] <= used + 1
               /\ at'[u] # "m_lock" => bytes'[u] >= itemSize
               /\ \A b \in AllItems' : b + itemSize <= item'[u] \/ item'[u] + bytes'[u] <= b
               /\ \A v \in CmpTasks : Adding(v)' /\ v # u =>
                     item'[v] + bytes'[v] <= item'[u] \/ item'[u] + bytes'[u] <= item'[v]
    <3>1. CASE u = t
      BY <1>7, <2>4, <2>5, <3>1
    <3>2. CASE u # t
      BY <1>7, <2>5, <2>6, <3>2
    <3> QED
      BY <3>1, <3>2
  <2>7. cmp' = "ready" => asked' \in Nat \ {0} /\ asked' <= itemSize'
    BY <1>1, <1>2 DEF CmpInv, Geometry
  <2> QED
    BY <1>1, <2>2, <2>3, <2>6, <2>7 DEF Geometry
<1>13. Places'
  <2>1. \A u \in CmpTasks : Bringing(u) => item[u] # a
    BY <1>5 DEF AllItems, Returning, Bringing
  <2>2. a \notin owned
    BY <1>5 DEF AllItems
  <2> QED
    BY <1>1, <1>6, <1>7, <2>1, <2>2 DEF CmpInv, Places
<1>14. ListSeen' /\ NotReady'
  <2>1. \A u \in CmpTasks : ~Inside(u)'
    BY <1>1, <1>7 DEF CmpInv, ListSeen, Inside
  <2> QED
    BY <1>1, <1>2, <2>1 DEF ListSeen, NotReady, Inside
<1>15. PromisedPool!Grow(ToSet(FreeItems') \ ToSet(FreeItems))
  BY <1>1, <1>5, <1>6, <1>8 DEF PromisedPool!Grow, AllItems
<1> QED
  BY <1>11, <1>12, <1>13, <1>14, <1>15 DEF CmpInv, PromiseKept, PromisedPool!Next

(* Or there is no memory for a node, and the rest of it is leaked.         *)
LEMMA CmpLeakedInv ==
    ASSUME CmpInv, NEW t \in CmpTasks, at[t] = "m_push", PushBackThrows(t)
    PROVE  CmpInv' /\ PromiseKept
<1>0. /\ at \in [CmpTasks -> {"out", "a_lock", "a_read", "a_pop", "f_lock", "f_read", "f_push",
                              "m_lock", "m_read", "m_push"}]
      /\ item \in [CmpTasks -> Nat] /\ bytes \in [CmpTasks -> Nat]
      /\ seen \in [CmpTasks -> Seq(1 .. CmpMemory)]
  BY DEF CmpInv, CmpTypeOK
<1>1. /\ at' = [at EXCEPT ![t] = "out"] /\ item' = [item EXCEPT ![t] = 0]
      /\ bytes' = [bytes EXCEPT ![t] = 0] /\ seen' = [seen EXCEPT ![t] = <<>>]
      /\ PoolLock' = CmpNoTask
      /\ UNCHANGED <<cmp, asked, itemSize, FreeItems, used, owned>>
  BY DEF PushBackThrows, Goto
<1>2. /\ ~Bringing(t)' /\ ~Bringing(t) /\ ~Inside(t)' /\ ~Adding(t)'
      /\ \A u \in CmpTasks \ {t} :
            /\ (Bringing(u)' <=> Bringing(u)) /\ (Adding(u)' <=> Adding(u)) /\ (Inside(u)' <=> Inside(u))
            /\ item'[u] = item[u] /\ bytes'[u] = bytes[u] /\ at'[u] = at[u]
  BY <1>0, <1>1 DEF Bringing, Adding, Inside
<1>3. Returning' = Returning /\ AllItems' = AllItems
  BY <1>1, <1>2 DEF Returning, Bringing, AllItems
<1>4. CmpTypeOK'
  BY <1>0, <1>1 DEF CmpInv, CmpTypeOK
<1>5. Geometry'
  <2>1. used' \in Nat /\ used <= used'
    BY <1>1, AllTyped DEF CmpInv
  <2>2. \A u \in CmpTasks : Adding(u)' =>
           /\ Adding(u) /\ item'[u] = item[u] /\ bytes'[u] = bytes[u]
           /\ at'[u] # "m_lock" => bytes[u] >= itemSize
    BY <1>1, <1>2 DEF CmpInv, Geometry
  <2> QED
    BY <1>1, <1>3, <2>1, <2>2, GeometryKept DEF CmpInv
<1>6. Places'
  BY <1>1, <1>2 DEF CmpInv, Places
<1>7. ListSeen' /\ NotReady'
  <2>1. \A u \in CmpTasks : ~Inside(u)'
    BY <1>2 DEF CmpInv, ListSeen, Inside
  <2>2. cmp' = "ready"
    BY <1>1 DEF CmpInv, NotReady
  <2> QED
    BY <2>1, <2>2 DEF ListSeen, NotReady, Inside
<1> QED
  BY <1>1, <1>3, <1>4, <1>5, <1>6, <1>7 DEF CmpInv, PromiseKept

(* A constructor that throws leaves no pool.                               *)
LEMMA CmpThrowsInv ==
    ASSUME CmpInv, cmp # "ready", cmp' = "failed", used' \in 0 .. CmpMemory, used <= used',
           UNCHANGED <<asked, itemSize, FreeItems, PoolLock, calls, owned>>
    PROVE  CmpInv' /\ PromiseKept
<1>1. FreeItems = <<>> /\ owned = {} /\ \A t \in CmpTasks : at[t] = "out"
  BY DEF CmpInv, NotReady
<1>2. \A t \in CmpTasks : ~Inside(t)' /\ ~Adding(t)' /\ ~Bringing(t)' /\ ~Bringing(t)
  BY <1>1 DEF calls, Inside, Adding, Bringing
<1>3. Returning' = Returning /\ AllItems' = AllItems
  BY <1>2 DEF Returning, Bringing, AllItems
<1>4. CmpTypeOK'
  BY DEF CmpInv, CmpTypeOK, calls
<1>5. Geometry'
  <2>1. used' \in Nat
    BY CmpAssumption
  <2> QED
    BY <1>2, <1>3, <2>1, GeometryKept DEF CmpInv
<1>6. Places' /\ ListSeen' /\ NotReady'
  BY <1>1, <1>2 DEF CmpInv, Places, ListSeen, NotReady, calls
<1> QED
  BY <1>3, <1>4, <1>5, <1>6 DEF CmpInv, PromiseKept

(* A product of sizes and counts that are asked for.                       *)
LEMMA AskedFor ==
    ASSUME CmpTypeOK, NEW count \in CmpCounts, NEW size \in CmpSizes, NEW alignment \in CmpAlignments
    PROVE  /\ count * itemSize \in Nat
           /\ count * RoundedSize(size, CalculateValidAlignment(alignment)) \in Nat
<1>1. count \in Nat /\ size \in Nat \ {0} /\ alignment \in Nat /\ itemSize \in Nat
  BY CmpAssumption DEF CmpTypeOK
<1>2. RoundedSize(size, CalculateValidAlignment(alignment)) \in Nat
  BY <1>1, RoundedUp
<1>3. \A x, y \in Nat : x * y \in Nat
  OBVIOUS
<1> QED
  BY <1>1, <1>2, <1>3

(* Every step keeps the invariant, and is one of the abstract pool.        *)
LEMMA CmpNextInv == CmpInv /\ [CmpNext]_cmpVars => CmpInv' /\ PromiseKept
<1> SUFFICES ASSUME CmpInv, [CmpNext]_cmpVars PROVE CmpInv' /\ PromiseKept
  OBVIOUS
<1>0. CmpTypeOK /\ used \in Nat /\ CmpMemory \in Nat /\ CmpBuffers \subseteq Nat
  BY CmpAssumption, AllTyped DEF CmpInv
<1>1. ASSUME NEW size \in CmpSizes, NEW alignment \in CmpAlignments, NEW n \in Nat,
             itemSize' = RoundedSize(size, CalculateValidAlignment(alignment)),
             Construct(size, alignment, n)
      PROVE  CmpInv' /\ PromiseKept
  <2>1. /\ CmpInv' /\ FreeItems = <<>> /\ owned = {} /\ Returning = {}
        /\ owned' = {} /\ Returning' = {}
    BY <1>1, CmpConstructInv
  <2>2. ToSet(FreeItems) = {}
    BY <2>1, EmptySet
  <2>3. PromisedPool!Grow(ToSet(FreeItems') \ ToSet(FreeItems))
    BY <2>1, <2>2 DEF PromisedPool!Grow
  <2> QED
    BY <2>1, <2>3 DEF PromiseKept, PromisedPool!Next
<1>2. ASSUME NEW size \in CmpSizes, NEW alignment \in CmpAlignments, NEW count \in CmpCounts,
             PoolFromMalloc(size, count, alignment)
      PROVE  CmpInv' /\ PromiseKept
  <2>1. count * RoundedSize(size, CalculateValidAlignment(alignment)) \in Nat
    BY <1>0, AskedFor
  <2> QED
    BY <1>1, <1>2, <2>1 DEF PoolFromMalloc
<1>3. ASSUME NEW size \in CmpSizes, NEW alignment \in CmpAlignments, NEW n \in CmpBuffers,
             PoolFromBuffer(size, n, alignment)
      PROVE  CmpInv' /\ PromiseKept
  BY <1>0, <1>1, <1>3 DEF PoolFromBuffer
<1>4. ASSUME NEW size \in CmpSizes, NEW alignment \in CmpAlignments, NEW count \in CmpCounts,
             MutexThrows(size, count, alignment)
      PROVE  CmpInv' /\ PromiseKept
  <2>1. count * RoundedSize(size, CalculateValidAlignment(alignment)) \in Nat
    BY <1>0, AskedFor
  <2>2. /\ cmp # "ready" /\ cmp' = "failed"
        /\ UNCHANGED <<asked, itemSize, FreeItems, PoolLock, calls, owned>>
    BY <1>4 DEF MutexThrows
  <2>3. /\ used' = used + count * RoundedSize(size, CalculateValidAlignment(alignment))
        /\ used' <= CmpMemory
    BY <1>4 DEF MutexThrows
  <2> DEFINE n == count * RoundedSize(size, CalculateValidAlignment(alignment))
  <2>4. n \in Nat /\ used' = used + n
    BY <2>1, <2>3
  <2> HIDE DEF n
  <2>5. used' \in 0 .. CmpMemory /\ used <= used'
    BY <1>0, <2>3, <2>4
  <2> QED
    BY <2>2, <2>5, CmpThrowsInv
<1>5. CASE ConstructorThrows
  <2>1. used \in 0 .. CmpMemory /\ used <= used
    BY <1>0 DEF CmpTypeOK
  <2> QED
    BY <1>5, <2>1, CmpThrowsInv DEF ConstructorThrows
<1>6. ASSUME NEW t \in CmpTasks,
             CallAllocate(t) \/ Guard(t) \/ ReadList(t) \/ AllocateNULL(t) \/ AddMemoryReturns(t)
      PROVE  CmpInv' /\ PromiseKept
  BY <1>6, CmpQuietInv
<1>7. ASSUME NEW t \in CmpTasks, NEW a \in owned, CallFree(t, a) PROVE CmpInv' /\ PromiseKept
  BY <1>7, CmpFreeInv
<1>8. ASSUME NEW t \in CmpTasks, NEW n \in CmpBuffers, CallAddMemory(t, n)
      PROVE  CmpInv' /\ PromiseKept
  BY <1>0, <1>8, CmpAddInv
<1>9. ASSUME NEW t \in CmpTasks, NEW count \in CmpCounts, CallAddMemory(t, count * itemSize)
      PROVE  CmpInv' /\ PromiseKept
  <2>1. count * itemSize \in Nat
    <3>1. count \in Nat /\ itemSize \in Nat
      BY CmpAssumption DEF CmpInv, CmpTypeOK
    <3>2. \A x, y \in Nat : x * y \in Nat
      OBVIOUS
    <3> QED
      BY <3>1, <3>2
  <2> QED
    BY <1>9, <2>1, CmpAddInv
<1>10. ASSUME NEW t \in CmpTasks, PopFront(t) PROVE CmpInv' /\ PromiseKept
  BY <1>10, CmpPopInv
<1>11. ASSUME NEW t \in CmpTasks, FreePushBack(t) PROVE CmpInv' /\ PromiseKept
  <2>1. at[t] = "f_push"
    BY <1>11 DEF FreePushBack, Goto
  <2> QED
    BY <1>11, <2>1, CmpFreedInv
<1>12. ASSUME NEW t \in CmpTasks, AddMemoryPushBack(t) PROVE CmpInv' /\ PromiseKept
  BY <1>12, CmpAddedInv
<1>13. ASSUME NEW t \in CmpTasks, PushBackThrows(t) PROVE CmpInv' /\ PromiseKept
  <2>1. at[t] \in {"f_push", "m_push"}
    BY <1>13 DEF PushBackThrows, Goto
  <2> QED
    BY <1>13, <2>1, CmpFreedInv, CmpLeakedInv
<1>14. CASE UNCHANGED cmpVars
  <2>1. UNCHANGED <<cmp, asked, itemSize, FreeItems, PoolLock, used, at, item, bytes, seen, owned>>
    BY <1>14 DEF cmpVars
  <2>2. UNCHANGED <<AllItems, Returning>>
    BY <2>1 DEF AllItems, Returning
  <2>3. CmpTypeOK' /\ NotReady' /\ ListSeen' /\ Places'
    BY <2>1 DEF CmpInv, CmpTypeOK, NotReady, ListSeen, Places, Inside, Bringing
  <2>4. Geometry'
    BY <2>1, <2>2 DEF CmpInv, Geometry, Adding
  <2> QED
    BY <2>1, <2>2, <2>3, <2>4 DEF CmpInv, PromiseKept
<1> QED
  BY <1>2, <1>3, <1>4, <1>5, <1>6, <1>7, <1>8, <1>9, <1>10, <1>11, <1>12, <1>13, <1>14 DEF CmpNext

(* The variables of the C++ pool have their types: an address is a         *)
(* position of its memory, whatever is in the list.                        *)
THEOREM PoolTyped == CmpSpec => []CmpTypeOK
<1>1. CmpInv => CmpTypeOK
  BY DEF CmpInv
<1> QED
  BY <1>1, CmpInitInv, CmpNextInv, PTL DEF CmpSpec

(* Items are as large as was asked for and do not overlap, however they    *)
(* came into the pool and whoever adds more of them at the same time.      *)
THEOREM PoolItemsDisjoint == CmpSpec => []CppItemsDisjoint
<1>1. ASSUME CmpInv PROVE CppItemsDisjoint
  <2> SUFFICES ASSUME cmp = "ready",
                      NEW a \in ToSet(FreeItems) \cup owned, NEW b \in ToSet(FreeItems) \cup owned
               PROVE  a + asked - 1 <= used /\ (a < b => a + asked <= b)
    BY DEF CppItemsDisjoint
  <2>1. a \in AllItems /\ b \in AllItems
    BY DEF AllItems
  <2>2. a \in Nat /\ b \in Nat /\ asked \in Nat /\ itemSize \in Nat /\ used \in Nat
    BY <1>1, <2>1, AllTyped DEF CmpInv, CmpTypeOK
  <2>3. /\ asked >= 1 /\ asked <= itemSize /\ a + itemSize <= used + 1
        /\ a = b \/ a + itemSize <= b \/ b + itemSize <= a
    BY <1>1, <2>1, <2>2 DEF CmpInv, Geometry
  <2> QED
    BY <2>2, <2>3
<1> QED
  BY <1>1, CmpInitInv, CmpNextInv, PTL DEF CmpSpec

(* The pool is the memory pool that MemoryPool promises: no item is handed *)
(* out twice or lost, whatever Allocate, Free and AddMemory interleave.    *)
THEOREM PoolImplementsMemoryPool == CmpSpec => CppPoolImplementsMemoryPool
<1>1. CmpInit => PromisedPool!Init
  BY EmptySet DEF CmpInit, PromisedPool!Init, Returning
<1>2. CmpInv /\ [CmpNext]_cmpVars =>
         [PromisedPool!Next]_<<ToSet(FreeItems), owned \cup Returning>>
  BY CmpNextInv DEF PromiseKept
<1> QED
  BY <1>1, <1>2, CmpInitInv, CmpNextInv, PTL
  DEF CmpSpec, CppPoolImplementsMemoryPool, PromisedPool!Spec

-----------------------------------------------------------------------------
(* The C memory pool.  First, what is true of numbers and of blocks.       *)

(* What is below the whole part of a quotient.                             *)
LEMMA Quotient ==
    ASSUME NEW a \in Nat, NEW b \in Nat \ {0}, NEW k \in Nat
    PROVE  /\ k * b \in Nat
           /\ k * b + b <= a => k < a \div b
           /\ k < a \div b => k * b + b <= a
<1> DEFINE q == a \div b
<1>1. q \in Nat /\ q * b \in Nat /\ q * b <= a /\ a < q * b + b
  BY Division
<1> HIDE DEF q
<1>2. k < q => k * b \in Nat /\ k * b + b <= q * b
  BY <1>1, Multiples
<1>3. q < k => q * b + b <= k * b
  BY <1>1, Multiples
<1>4. k * b \in Nat
  OBVIOUS
<1>5. k < q \/ q < k \/ k = q
  BY <1>1
<1>6. k = q => k * b = q * b
  OBVIOUS
<1> QED
  BY <1>1, <1>2, <1>3, <1>4, <1>5, <1>6 DEF q

(* A product divided by one of its factors.                                *)
LEMMA Exact ==
    ASSUME NEW n \in Nat, NEW b \in Nat \ {0}
    PROVE  n * b \in Nat /\ (n * b) \div b = n
<1> DEFINE a == n * b
           q == a \div b
<1>1. a \in Nat
  OBVIOUS
<1>2. q \in Nat
  BY <1>1, Division
<1>3. n < q => n * b + b <= a
  BY <1>1, Quotient
<1>4. ~(n < q)
  BY <1>1, <1>3
<1>5. q < n => q * b + b <= n * b /\ q * b \in Nat
  BY <1>2, Multiples
<1>6. a < q * b + b
  BY <1>1, Division
<1> HIDE DEF q
<1>7. ~(q < n)
  <2>1. SUFFICES ASSUME q < n PROVE FALSE
    OBVIOUS
  <2>2. q * b + b <= a /\ q * b \in Nat
    BY <1>5, <2>1
  <2> HIDE DEF a
  <2> QED
    BY <1>1, <1>6, <2>2
<1> QED
  BY <1>1, <1>2, <1>4, <1>7 DEF q

(* The multiples of a number are equal, or that far apart.                 *)
LEMMA Apart ==
    ASSUME NEW i \in Nat, NEW k \in Nat, NEW s \in Nat
    PROVE  /\ i * s \in Nat /\ k * s \in Nat
           /\ i * s = k * s \/ i * s + s <= k * s \/ k * s + s <= i * s
<1>1. CASE i < k
  BY <1>1, Multiples
<1>2. CASE k < i
  BY <1>2, Multiples
<1>3. i * s \in Nat /\ k * s \in Nat
  OBVIOUS
<1> QED
  BY <1>1, <1>2, <1>3

(* The blocks of a buffer of n bytes are at the multiples of the block     *)
(* size, as long as they fit.                                              *)
LEMMA BlockIs ==
    ASSUME NEW a \in Nat, NEW n \in Nat, NEW s \in Nat \ {0}
    PROVE  \A x : x \in BlocksOf(a, n \div s, s) <=>
              \E i \in Nat : x = a + i * s /\ i * s \in Nat /\ i * s + s <= n
<1> DEFINE q == n \div s
<1>1. q \in Nat
  BY Division
<1>2. \A i \in Nat : i * s \in Nat /\ (i < q <=> i * s + s <= n)
  BY Quotient DEF q
<1> HIDE DEF q
<1>3. \A i : i \in 0 .. q - 1 <=> i \in Nat /\ i < q
  BY <1>1
<1>4. BlocksOf(a, q, s) = {a + i * s : i \in 0 .. q - 1}
  BY DEF BlocksOf
<1>5. \A x : x \in BlocksOf(a, q, s) <=> \E i \in 0 .. q - 1 : x = a + i * s
  BY <1>4
<1> QED
  BY <1>2, <1>3, <1>5 DEF q

(* They are inside of the buffer, and no two overlap.                      *)
LEMMA BlocksSpaced ==
    ASSUME NEW a \in Nat, NEW n \in Nat, NEW s \in Nat \ {0}
    PROVE  \A b, c \in BlocksOf(a, n \div s, s) :
              /\ b \in Nat /\ a <= b /\ b + s <= a + n
              /\ b = c \/ b + s <= c \/ c + s <= b
<1> DEFINE B == BlocksOf(a, n \div s, s)
<1> SUFFICES ASSUME NEW b \in B, NEW c \in B
             PROVE  /\ b \in Nat /\ a <= b /\ b + s <= a + n
                    /\ b = c \/ b + s <= c \/ c + s <= b
  OBVIOUS
<1>1. \A x \in B : \E i \in Nat : x = a + i * s /\ i * s \in Nat /\ i * s + s <= n
  BY BlockIs, ZenonT(30)
<1>2. PICK i \in Nat : b = a + i * s /\ i * s \in Nat /\ i * s + s <= n
  BY <1>1
<1>3. PICK k \in Nat : c = a + k * s /\ k * s \in Nat
  BY <1>1
<1>4. i * s = k * s \/ i * s + s <= k * s \/ k * s + s <= i * s
  BY Apart
<1> QED
  BY <1>2, <1>3, <1>4

(* At a multiple of the size there is a block, if it fits, and every other *)
(* block is before or behind it: the loops of AddExtraMemory go from block *)
(* to block.                                                               *)
LEMMA BlockAt ==
    ASSUME NEW a \in Nat, NEW n \in Nat, NEW s \in Nat \ {0}, NEW p, \E k \in Nat : p = a + k * s
    PROVE  /\ p \in Nat
           /\ p + s <= a + n => p \in BlocksOf(a, n \div s, s)
           /\ \A b \in BlocksOf(a, n \div s, s) : b = p \/ b < p \/ p + s <= b
<1>1. PICK k \in Nat : p = a + k * s
  OBVIOUS
<1>2. k * s \in Nat /\ p = a + k * s
  BY <1>1
<1>3. ASSUME p + s <= a + n PROVE p \in BlocksOf(a, n \div s, s)
  <2>1. k * s + s <= n
    BY <1>2, <1>3
  <2>2. \E i \in Nat : p = a + i * s /\ i * s \in Nat /\ i * s + s <= n
    BY <1>2, <2>1
  <2>3. \A x : (\E i \in Nat : x = a + i * s /\ i * s \in Nat /\ i * s + s <= n)
                  => x \in BlocksOf(a, n \div s, s)
    BY BlockIs, ZenonT(30)
  <2> QED
    BY <2>2, <2>3, Zenon
<1>4. ASSUME NEW b \in BlocksOf(a, n \div s, s) PROVE b = p \/ b < p \/ p + s <= b
  <2>1. \A x \in BlocksOf(a, n \div s, s) : \E i \in Nat : x = a + i * s /\ i * s \in Nat
    BY BlockIs, ZenonT(30)
  <2>2. PICK i \in Nat : b = a + i * s /\ i * s \in Nat
    BY <2>1
  <2>3. i * s = k * s \/ i * s + s <= k * s \/ k * s + s <= i * s
    BY Apart
  <2> QED
    BY <1>2, <2>2, <2>3
<1> QED
  BY <1>2, <1>3, <1>4

(* CalculateItemSize leaves room for the request behind an SlNode_t that   *)
(* takes an Alignment.                                                     *)
LEMMA ItemSizeFits ==
    ASSUME NEW size \in Nat \ {0}, NEW alignment \in Nat \ {0}
    PROVE  /\ CalculateItemSize(size, alignment) \in Nat
           /\ alignment + size <= CalculateItemSize(size, alignment)
<1>1. CASE size <= alignment
  BY <1>1 DEF CalculateItemSize
<1>2. CASE ~(size <= alignment)
  <2> DEFINE q == size \div alignment
  <2>1. q \in Nat /\ q * alignment <= size /\ size < q * alignment + alignment
    BY Division
  <2>2. size % alignment = 0 => size = q * alignment
    OBVIOUS
  <2>3. CalculateItemSize(size, alignment)
          = (q + (IF size % alignment = 0 THEN 0 ELSE 1) + 1) * alignment
    BY <1>2 DEF CalculateItemSize
  <2> HIDE DEF q
  <2>4. /\ q * alignment \in Nat
        /\ (q + 0 + 1) * alignment = q * alignment + alignment
        /\ (q + 1 + 1) * alignment = q * alignment + alignment + alignment
    BY <2>1
  <2>5. CASE size % alignment = 0
    BY <2>2, <2>3, <2>4, <2>5
  <2>6. CASE size % alignment # 0
    BY <2>1, <2>3, <2>4, <2>6
  <2> QED
    BY <2>5, <2>6
<1> QED
  BY <1>1, <1>2

(* An alignment that CalculateAndVerifyAlignment accepts leaves room for   *)
(* the Next pointer.                                                       *)
LEMMA AlignmentFits ==
    ASSUME NEW alignment \in Nat, CalculateAndVerifyAlignment(alignment) # 0
    PROVE  /\ CalculateAndVerifyAlignment(alignment) \in Nat
           /\ PtrSize <= CalculateAndVerifyAlignment(alignment)
<1> DEFINE a == IF alignment < PtrSize THEN PtrSize ELSE alignment
<1>1. a \in Nat /\ PtrSize <= a
  BY MemPoolAssumption
<1>2. CalculateAndVerifyAlignment(alignment) = IF \E i \in 0 .. 30 : a = 2 ^ i THEN a ELSE 0
  BY DEF CalculateAndVerifyAlignment
<1> HIDE DEF a
<1>3. CalculateAndVerifyAlignment(alignment) = a
  BY <1>2, Zenon
<1> QED
  BY <1>1, <1>3

-----------------------------------------------------------------------------
(* The stack.                                                              *)

(* f is the stack, f[n] its top.                                           *)
Chain(f, n) ==
    /\ n \in Nat /\ f \in [1 .. n -> Addresses \ {NULL}]
    /\ HeadNext = IF n = 0 THEN NULL ELSE f[n]
    /\ \A i \in 1 .. n : Next_[f[i]] = IF i = 1 THEN NULL ELSE f[i - 1]
    /\ \A i, j \in 1 .. n : f[i] = f[j] => i = j
    /\ Next_[NULL] = NULL

Nodes(f, n) == {f[i] : i \in 1 .. n}

Walks(W) == W = [k \in Nat |-> IF k = 0 THEN HeadNext ELSE Next_[W[k - 1]]]

(* A walk down the stack meets its nodes one after the other, and then     *)
(* NULL.                                                                   *)
LEMMA WalkExists ==
    ASSUME NEW f, NEW n, Chain(f, n)
    PROVE  Walks([k \in Nat |-> IF k < n THEN f[n - k] ELSE NULL])
<1> DEFINE W == [k \in Nat |-> IF k < n THEN f[n - k] ELSE NULL]
           V == [k \in Nat |-> IF k = 0 THEN HeadNext ELSE Next_[W[k - 1]]]
<1>1. ASSUME NEW k \in Nat PROVE W[k] = V[k]
  <2>1. CASE k = 0
    BY <2>1 DEF Chain
  <2>2. CASE k # 0 /\ k < n
    <3>1. /\ k - 1 \in Nat /\ k - 1 < n /\ n - (k - 1) \in 1 .. n /\ n - (k - 1) # 1
          /\ n - (k - 1) - 1 = n - k
      BY <2>2 DEF Chain
    <3>2. W[k - 1] = f[n - (k - 1)] /\ V[k] = Next_[W[k - 1]] /\ W[k] = f[n - k]
      BY <2>2, <3>1
    <3> HIDE DEF W, V
    <3>3. Next_[f[n - (k - 1)]] = f[n - (k - 1) - 1]
      BY <3>1 DEF Chain
    <3> QED
      BY <3>1, <3>2, <3>3
  <2>3. CASE k # 0 /\ k = n
    <3>1. k - 1 \in Nat /\ k - 1 < n /\ n - (k - 1) = 1 /\ 1 \in 1 .. n
      BY <2>3 DEF Chain
    <3>2. W[k - 1] = f[1] /\ V[k] = Next_[W[k - 1]] /\ W[k] = NULL
      BY <2>3, <3>1
    <3> HIDE DEF W, V
    <3>3. Next_[f[1]] = NULL
      BY <3>1 DEF Chain
    <3> QED
      BY <3>2, <3>3
  <2>4. CASE k # 0 /\ k > n
    <3>1. k - 1 \in Nat /\ ~(k - 1 < n) /\ ~(k < n)
      BY <2>4 DEF Chain
    <3>2. W[k - 1] = NULL /\ V[k] = Next_[W[k - 1]] /\ W[k] = NULL
      BY <2>4, <3>1
    <3> HIDE DEF W, V
    <3> QED
      BY <3>2 DEF Chain
  <2>5. n \in Nat
    BY DEF Chain
  <2> HIDE DEF W, V
  <2> QED
    BY <2>1, <2>2, <2>3, <2>4, <2>5
<1>2. V = [k \in Nat |-> V[k]] /\ W = [k \in Nat |-> W[k]]
  OBVIOUS
<1> HIDE DEF W
<1>3. V = [k \in Nat |-> IF k = 0 THEN HeadNext ELSE Next_[W[k - 1]]]
  OBVIOUS
<1> HIDE DEF V
<1> QED
  BY <1>1, <1>2, <1>3 DEF Walks, W

(* The walk of the module is this one.                                     *)
LEMMA WalkIs ==
    ASSUME NEW f, NEW n, Chain(f, n), NEW k \in Nat
    PROVE  Walk[k] = IF k < n THEN f[n - k] ELSE NULL
<1> DEFINE W == [j \in Nat |-> IF j < n THEN f[n - j] ELSE NULL]
<1>1. Walks(W)
  BY WalkExists
<1>2. Walk = CHOOSE V : Walks(V)
  BY DEF Walk, Walks
<1>3. Walks(Walk)
  BY <1>1, <1>2
<1> HIDE DEF W
<1> DEFINE Same == {j \in Nat : Walk[j] = W[j]}
<1>4. 0 \in Same
  BY <1>1, <1>3 DEF Walks
<1>5. ASSUME NEW j \in Same PROVE j + 1 \in Same
  <2>1. j + 1 \in Nat /\ j + 1 # 0 /\ (j + 1) - 1 = j /\ Walk[j] = W[j]
    OBVIOUS
  <2>2. Walk[j + 1] = Next_[Walk[j]]
    BY <1>3, <2>1 DEF Walks
  <2>3. W[j + 1] = Next_[W[j]]
    BY <1>1, <2>1 DEF Walks
  <2> QED
    BY <2>1, <2>2, <2>3
<1> HIDE DEF Same
<1>6. Same = Nat
  BY <1>4, <1>5, NaturalsInductive DEF Same
<1> QED
  BY <1>6 DEF Same, W

OnStackIs(f, n) ==
    Chain(f, n) /\ n <= Deepest => Walk[Deepest] = NULL /\ OnStack = Nodes(f, n)

(* As long as the stack is not deeper than Deepest, OnStack is the set of  *)
(* its nodes.                                                              *)
LEMMA OnStackNodes == \A f, n : OnStackIs(f, n)
<1> SUFFICES ASSUME NEW f, NEW n, Chain(f, n), n <= Deepest
             PROVE  Walk[Deepest] = NULL /\ OnStack = Nodes(f, n)
  BY DEF OnStackIs
<1>1. Deepest \in Nat /\ n \in Nat
  BY MemPoolAssumption, Division DEF Deepest, Chain
<1>2. \A k \in Nat : Walk[k] = IF k < n THEN f[n - k] ELSE NULL
  BY WalkIs
<1>3. ASSUME NEW i \in 1 .. n PROVE f[i] \in OnStack
  <2>1. n - i \in Nat /\ n - i \in 0 .. Deepest /\ n - i < n /\ n - (n - i) = i
    BY <1>1
  <2>2. f[i] # NULL
    BY DEF Chain
  <2> QED
    BY <1>2, <2>1, <2>2 DEF OnStack
<1>4. ASSUME NEW a \in OnStack PROVE a \in Nodes(f, n)
  <2>1. PICK k \in 0 .. Deepest : a = Walk[k] /\ a # NULL
    BY DEF OnStack
  <2>2. k \in Nat /\ k < n /\ n - k \in 1 .. n
    BY <1>1, <1>2, <2>1
  <2> QED
    BY <1>2, <2>1, <2>2 DEF Nodes
<1> QED
  BY <1>1, <1>2, <1>3, <1>4 DEF Nodes

(* A stack of blocks that do not overlap is not deeper than Deepest.       *)
LEMMA DepthBound ==
    ASSUME NEW f, NEW n, Chain(f, n), NEW s \in Nat, PtrSize <= s,
           \A b \in Nodes(f, n) : b + s <= MemorySize + 1,
           \A b, c \in Nodes(f, n) : b = c \/ b + s <= c \/ c + s <= b
    PROVE  n <= Deepest
<1> DEFINE D == 1 .. n
           g == [i \in D |-> (f[i] - 1) \div PtrSize]
<1>1. /\ PtrSize \in Nat \ {0} /\ MemorySize \in Nat /\ n \in Nat
      /\ \A i \in D : f[i] \in Nat /\ f[i] >= 1
  BY MemPoolAssumption DEF Chain, Addresses, NULL
<1>2. Deepest \in Nat /\ Deepest = MemorySize \div PtrSize
  BY <1>1, Division DEF Deepest
<1>3. ASSUME NEW i \in D PROVE g[i] \in 0 .. Deepest - 1
  <2>1. f[i] - 1 \in Nat /\ (f[i] - 1) + PtrSize <= MemorySize
    BY <1>1 DEF Nodes
  <2> DEFINE q == (f[i] - 1) \div PtrSize
  <2>2. q \in Nat /\ q * PtrSize <= f[i] - 1 /\ q * PtrSize \in Nat
    BY <1>1, <2>1, Division, Quotient
  <2>3. g[i] = q
    OBVIOUS
  <2> HIDE DEF q
  <2>4. q * PtrSize + PtrSize <= MemorySize
    BY <1>1, <2>1, <2>2
  <2>5. q < Deepest
    BY <1>1, <1>2, <2>2, <2>4, Quotient
  <2> QED
    BY <1>2, <2>2, <2>3, <2>5
<1>4. ASSUME NEW i \in D, NEW j \in D, g[i] = g[j] PROVE i = j
  <2> DEFINE q == (f[i] - 1) \div PtrSize
             r == (f[j] - 1) \div PtrSize
  <2>1. f[i] - 1 \in Nat /\ f[j] - 1 \in Nat
    BY <1>1
  <2>2. /\ q * PtrSize \in Nat /\ q * PtrSize <= f[i] - 1 /\ f[i] - 1 < q * PtrSize + PtrSize
        /\ r * PtrSize <= f[j] - 1 /\ f[j] - 1 < r * PtrSize + PtrSize
    BY <1>1, <2>1, Division, Quotient
  <2>3. q = r
    BY <1>4
  <2> HIDE DEF q, r
  <2>4. ~(f[i] + s <= f[j]) /\ ~(f[j] + s <= f[i])
    BY <1>1, <2>2, <2>3
  <2>5. f[i] = f[j]
    BY <2>4 DEF Nodes
  <2> QED
    BY <2>5 DEF Chain
<1>5. g \in Injection(D, 0 .. Deepest - 1)
  BY <1>3, <1>4 DEF Injection, IsInjective
<1>6. IsFiniteSet(0 .. Deepest - 1) /\ Cardinality(0 .. Deepest - 1) = Deepest
  <2>1. /\ 0 \in Int /\ Deepest - 1 \in Int
        /\ (IF 0 > Deepest - 1 THEN 0 ELSE (Deepest - 1) - 0 + 1) = Deepest
    BY <1>2
  <2> QED
    BY <2>1, FS_Interval
<1>7. Cardinality(D) <= Deepest
  BY <1>5, <1>6, FS_Injection
<1>8. Cardinality(D) = n
  BY <1>1, FS_Interval
<1> QED
  BY <1>7, <1>8

(* It has as many nodes as its length.                                     *)
LEMMA NodesCounted ==
    ASSUME NEW f, NEW n, Chain(f, n)
    PROVE  IsFiniteSet(Nodes(f, n)) /\ Cardinality(Nodes(f, n)) = n
<1> DEFINE D == 1 .. n
<1>1. IsFiniteSet(D) /\ Cardinality(D) = n
  BY FS_Interval DEF Chain
<1>2. f \in Bijection(D, Nodes(f, n))
  <2>1. f \in [D -> Nodes(f, n)]
    BY DEF Chain, Nodes
  <2>2. f \in Injection(D, Nodes(f, n))
    BY <2>1 DEF Chain, Injection, IsInjective
  <2>3. f \in Surjection(D, Nodes(f, n))
    BY <2>1 DEF Nodes, Surjection
  <2> QED
    BY <2>2, <2>3 DEF Bijection
<1> QED
  BY <1>1, <1>2, FS_Bijection DEF ExistsBijection

-----------------------------------------------------------------------------
(* The invariant.                                                          *)

UnderLock(t) ==
    pc[t] \in {"a_test", "a_pop", "a_unlink", "f_load", "f_link", "x_load", "x_link",
               "s_load", "s_link"}

AddingMore(t) == pc[t] \in {"x_lock", "x_load", "x_link", "s_lock", "s_load", "s_link"}

UsedBlocks  == {p - Alignment : p \in out}
FreedBlocks == {ptr[t] : t \in Freeing}

(* Nothing has happened to a pool that was not created.                    *)
NotCreated ==
    pool # "ready" =>
        /\ brk = 1 /\ given = {} /\ out = {} /\ HeadNext = NULL /\ Count = 0
        /\ Next_ = [a \in Addresses |-> NULL]
        /\ \A t \in Tasks : pc[t] = "out"

(* The memory of the pool, and the sizes of its blocks.                    *)
Sized ==
    /\ 1 <= brk /\ brk <= MemorySize + 1
    /\ pool = "ready" => request >= 1 /\ PtrSize <= Alignment /\ Alignment + request <= ItemSize
    /\ \A g \in given : g[1] >= 1 /\ g[1] + g[2] <= brk
    /\ \A g, h \in given : g = h \/ g[1] + g[2] <= h[1] \/ h[1] + h[2] <= g[1]

(* Who is at the stack has Lock, and has seen the stack as it is.          *)
LocksSeen ==
    \A t \in Tasks :
        /\ UnderLock(t) => Lock = t
        /\ pc[t] \in {"a_unlink", "f_link", "x_link", "s_link"} => temp[t] = HeadNext
        /\ pc[t] = "a_pop" => Count # 0

(* Who adds memory is at the beginning of a block.                         *)
Aligned(p, a) == \E k \in Nat : p = a + k * ItemSize

Adds ==
    \A t \in Tasks : AddingMore(t) => buffer[t] \in given /\ Aligned(ptr[t], buffer[t][1])

(* A node that is popped is counted off before it is unlinked.             *)
CountIs(n) == Count = IF \E t \in Tasks : pc[t] = "a_unlink" THEN n - 1 ELSE n

(* With the blocks S on the stack every block is in one place.             *)
Placed(S) ==
    /\ S \cup Owned \cup UNION {Coming(t) : t \in Tasks} = Blocks
    /\ S \cap Owned = {} /\ UsedBlocks \cap FreedBlocks = {}
    /\ \A t \in Tasks : Coming(t) \cap (S \cup Owned) = {}
    /\ \A t, u \in Tasks : t = u \/ Coming(t) \cap Coming(u) = {}
    /\ \A t, u \in Freeing : t = u \/ ptr[t] # ptr[u]

MpInv ==
    /\ TypeOK /\ NotCreated /\ Sized /\ LocksSeen /\ Adds
    /\ \E f, n : Chain(f, n) /\ CountIs(n) /\ Placed(Nodes(f, n))

(* What TypeOK says of the numbers.                                        *)
LEMMA Numbers ==
    ASSUME TypeOK
    PROVE  /\ PtrSize \in Nat \ {0} /\ MemorySize \in Nat /\ Addresses \subseteq Nat
           /\ request \in Nat /\ ItemSize \in Nat /\ Alignment \in Nat /\ brk \in Nat
           /\ \A g \in given : g[1] \in Nat /\ g[2] \in Nat
           /\ \A t \in Tasks : ptr[t] \in Nat /\ buffer[t][1] \in Nat /\ buffer[t][2] \in Nat
           /\ \A p \in out : p \in Nat
<1>1. PtrSize \in Nat \ {0} /\ MemorySize \in Nat /\ Addresses \subseteq Nat
  BY MemPoolAssumption DEF Addresses
<1>2. request \in Nat /\ ItemSize \in Nat /\ Alignment \in Nat /\ brk \in Nat
  BY DEF TypeOK
<1>3. \A g \in given : g[1] \in Nat /\ g[2] \in Nat
  BY DEF TypeOK
<1>4. \A t \in Tasks : ptr[t] \in Nat /\ buffer[t][1] \in Nat /\ buffer[t][2] \in Nat
  BY DEF TypeOK
<1>5. \A p \in out : p \in Nat
  BY <1>1 DEF TypeOK
<1> QED
  BY <1>1, <1>2, <1>3, <1>4, <1>5

(* Blocks of the size of the pool's are inside of their buffer, and no two *)
(* overlap.                                                                *)
LEMMA BlocksInSpaced ==
    ASSUME ItemSize \in Nat \ {0}, NEW a \in Nat, NEW n \in Nat
    PROVE  \A b, c \in BlocksIn(a, n) :
              /\ b \in Nat /\ a <= b /\ b + ItemSize <= a + n
              /\ b = c \/ b + ItemSize <= c \/ c + ItemSize <= b
BY BlocksSpaced, Zenon DEF BlocksIn

(* At a multiple of that size there is one, if it fits.                    *)
LEMMA BlockInAt ==
    ASSUME ItemSize \in Nat \ {0}, NEW a \in Nat, NEW n \in Nat, NEW p, Aligned(p, a)
    PROVE  /\ p \in Nat
           /\ p + ItemSize <= a + n => p \in BlocksIn(a, n)
           /\ \A b \in BlocksIn(a, n) : b = p \/ b < p \/ p + ItemSize <= b
BY BlockAt, Zenon DEF BlocksIn, Aligned

(* The blocks of the pool are in the memory it was given, and no two       *)
(* overlap.                                                                *)
LEMMA BlocksApart ==
    ASSUME TypeOK, NotCreated, Sized
    PROVE  /\ \A b \in Blocks : /\ pool = "ready" /\ b \in Nat /\ b >= 1 /\ b + ItemSize <= brk
                                /\ b \in Addresses
                                /\ \E g \in given : g[1] <= b /\ b + ItemSize <= g[1] + g[2]
           /\ \A b, c \in Blocks : b = c \/ b + ItemSize <= c \/ c + ItemSize <= b
<1>1. CASE pool # "ready"
  BY <1>1 DEF NotCreated, Blocks
<1>2. CASE pool = "ready"
  <2>1. ItemSize \in Nat \ {0}
    BY <1>2, Numbers DEF Sized
  <2>2. ASSUME NEW g \in given, NEW b \in BlocksIn(g[1], g[2]), NEW c \in BlocksIn(g[1], g[2])
        PROVE  /\ b \in Nat /\ g[1] <= b /\ b + ItemSize <= g[1] + g[2]
               /\ b = c \/ b + ItemSize <= c \/ c + ItemSize <= b
    <3>1. g[1] \in Nat /\ g[2] \in Nat
      BY Numbers
    <3>2. \A x, y \in BlocksIn(g[1], g[2]) :
             /\ x \in Nat /\ g[1] <= x /\ x + ItemSize <= g[1] + g[2]
             /\ x = y \/ x + ItemSize <= y \/ y + ItemSize <= x
      BY <2>1, <3>1, BlocksInSpaced
    <3> QED
      BY <3>2, Zenon
  <2>3. ASSUME NEW b \in Blocks PROVE \E g \in given : b \in BlocksIn(g[1], g[2])
    BY DEF Blocks
  <2>4. ASSUME NEW b \in Blocks
        PROVE  /\ b \in Nat /\ b >= 1 /\ b + ItemSize <= brk /\ b \in Addresses
               /\ \E g \in given : g[1] <= b /\ b + ItemSize <= g[1] + g[2]
    <3>1. PICK g \in given : b \in BlocksIn(g[1], g[2])
      BY <2>3
    <3>2. b \in Nat /\ g[1] <= b /\ b + ItemSize <= g[1] + g[2]
      BY <2>2, <3>1
    <3>3. g[1] >= 1 /\ g[1] + g[2] <= brk /\ g[1] \in Nat /\ g[2] \in Nat /\ brk <= MemorySize + 1
      BY Numbers DEF Sized
    <3>4. brk \in Nat /\ MemorySize \in Nat
      BY Numbers
    <3>5. b >= 1 /\ b + ItemSize <= brk
      BY <2>1, <3>2, <3>3, <3>4
    <3>6. b <= MemorySize
      BY <2>1, <3>2, <3>3, <3>5, <3>4
    <3>7. b \in Addresses
      BY <3>2, <3>6, Numbers DEF Addresses
    <3> QED
      BY <3>1, <3>2, <3>5, <3>7
  <2>5. ASSUME NEW b \in Blocks, NEW c \in Blocks
        PROVE  b = c \/ b + ItemSize <= c \/ c + ItemSize <= b
    <3>1. PICK g \in given : b \in BlocksIn(g[1], g[2])
      BY <2>3
    <3>2. PICK h \in given : c \in BlocksIn(h[1], h[2])
      BY <2>3
    <3>3. CASE g = h
      BY <2>2, <3>1, <3>2, <3>3
    <3>4. CASE g # h
      <4>1. g[1] + g[2] <= h[1] \/ h[1] + h[2] <= g[1]
        BY <3>4 DEF Sized
      <4>2. /\ b \in Nat /\ g[1] <= b /\ b + ItemSize <= g[1] + g[2]
            /\ c \in Nat /\ h[1] <= c /\ c + ItemSize <= h[1] + h[2]
        BY <2>2, <3>1, <3>2
      <4> QED
        BY <2>1, <4>1, <4>2, Numbers
    <3> QED
      BY <3>3, <3>4
  <2> QED
    BY <1>2, <2>4, <2>5
<1> QED
  BY <1>1, <1>2

(* A stack of some of these blocks is what OnStack finds.                  *)
LEMMA OnStackIsNodes ==
    ASSUME TypeOK, NotCreated, Sized, NEW f, NEW n, Chain(f, n), Placed(Nodes(f, n))
    PROVE  n <= Deepest /\ OnStack = Nodes(f, n) /\ Walk[Deepest] = NULL
<1>1. Nodes(f, n) \subseteq Blocks
  BY DEF Placed
<1>2. n <= Deepest
  <2>1. CASE n = 0
    BY <2>1, MemPoolAssumption, Division DEF Deepest
  <2>2. CASE n # 0
    <3>1. f[1] \in Nodes(f, n)
      BY <2>2 DEF Nodes, Chain
    <3>2. pool = "ready"
      BY <1>1, <3>1, BlocksApart
    <3>3. PtrSize <= ItemSize /\ ItemSize \in Nat /\ brk <= MemorySize + 1
      BY <3>2, Numbers DEF Sized
    <3>4. \A b \in Nodes(f, n) : b + ItemSize <= MemorySize + 1
      BY <1>1, <3>3, BlocksApart, Numbers
    <3>5. \A b, c \in Nodes(f, n) : b = c \/ b + ItemSize <= c \/ c + ItemSize <= b
      BY <1>1, BlocksApart
    <3> QED
      BY <3>3, <3>4, <3>5, DepthBound
  <2> QED
    BY <2>1, <2>2
<1> QED
  BY <1>2, OnStackNodes DEF OnStackIs

(* Initially there is nothing at all.                                      *)
LEMMA MpInitInv == Init => MpInv
<1> SUFFICES ASSUME Init PROVE MpInv
  OBVIOUS
<1>1. NULL \in Addresses /\ 1 <= MemorySize + 1
  BY MemPoolAssumption DEF NULL, Addresses
<1>2. TypeOK
  BY <1>1 DEF Init, TypeOK, NULL
<1>3. NotCreated /\ Sized /\ LocksSeen /\ Adds
  BY <1>1 DEF Init, NotCreated, Sized, LocksSeen, Adds, UnderLock, AddingMore
<1>4. Chain(<<>>, 0) /\ CountIs(0) /\ Nodes(<<>>, 0) = {}
  BY <1>1 DEF Init, Chain, CountIs, Nodes
<1>5. Placed({})
  BY DEF Init, Placed, Owned, Coming, Blocks, UsedBlocks, FreedBlocks, Freeing
<1> QED
  BY <1>2, <1>3, <1>4, <1>5 DEF MpInv

-----------------------------------------------------------------------------
(* What the steps are.                                                     *)

(* New memory: so many n, given to the pool, or taken by its extension *)
(* by task t.                                                              *)
Obtained(n) == n \in Nat /\ Obtain(n)

Extend(t, n, first) ==
    /\ pool = "ready" /\ Obtained(n)
    /\ Go(t, "out", first) /\ first \in {"x_lock", "s_lock"}
    /\ ptr' = [ptr EXCEPT ![t] = brk]
    /\ buffer' = [buffer EXCEPT ![t] = <<brk, n>>]
    /\ UNCHANGED <<geometry, Lock, stack, out, temp, overrun>>

NewPool(n) ==
    /\ pool # "ready" /\ pool' = "ready" /\ Obtained(n)
    /\ request' \in Nat \ {0} /\ Alignment' \in Nat /\ ItemSize' \in Nat
    /\ PtrSize <= Alignment' /\ Alignment' + request' <= ItemSize'
    /\ Count' = n \div ItemSize'
    /\ HeadNext' = IF Count' = 0 THEN NULL ELSE brk + (Count' - 1) * ItemSize'
    /\ Next_' = [a \in Addresses |->
                    IF a \in BlocksOf(brk, Count', ItemSize') \ {brk} THEN a - ItemSize' ELSE NULL]
    /\ UNCHANGED <<Lock, out, pc, ptr, temp, buffer, overrun>>

Quiet(t) ==
    \/ TakeLock(t) \/ MemoryPoolAllocate(t) \/ AllocateNone(t) \/ AllocateTest(t) \/ PopOffStack(t)
    \/ PushLoad(t) \/ AddLock(t) \/ AddPushOverrun(t) \/ AddDone(t)

TaskStep(t) ==
    \/ Quiet(t) \/ RemoveNode(t) \/ (\E p \in out : MemoryPoolFree(t, p)) \/ FreePush(t)
    \/ (\E n, first : Extend(t, n, first)) \/ AddPush(t)

(* Both forms of creation make a pool of whole blocks, at any size and     *)
(* alignment that is accepted.                                             *)
LEMMA Creation ==
    ASSUME TypeOK, NEW size \in Requests, NEW alignment \in Alignments
    PROVE  /\ \A count \in Counts : CreateMemoryPool(size, count, alignment) => \E n : NewPool(n)
           /\ \A m \in StaticSizes :
                 CreateMemoryPoolStatic(size, m, alignment) => \E n : NewPool(n)
<1>1. size \in Nat \ {0} /\ alignment \in Nat
  BY MemPoolAssumption
<1>2. ASSUME NEW n, Create(size, alignment, n)
      PROVE  /\ request' = size /\ Alignment' \in Nat /\ ItemSize' \in Nat /\ ItemSize' \in Nat \ {0}
             /\ PtrSize <= Alignment' /\ Alignment' + request' <= ItemSize'
  <2>1. /\ Alignment' = CalculateAndVerifyAlignment(alignment) /\ Alignment' # 0
        /\ request' = size /\ ItemSize' = CalculateItemSize(size, Alignment')
    BY <1>2 DEF Create
  <2>2. Alignment' \in Nat \ {0} /\ PtrSize <= Alignment'
    BY <1>1, <2>1, AlignmentFits
  <2> DEFINE al == Alignment'
  <2>3. al \in Nat \ {0} /\ ItemSize' = CalculateItemSize(size, al)
    BY <2>1, <2>2
  <2> HIDE DEF al
  <2>4. ItemSize' \in Nat /\ al + size <= ItemSize'
    BY <1>1, <2>3, ItemSizeFits
  <2>5. ItemSize' \in Nat \ {0}
    BY <1>1, <2>3, <2>4
  <2> QED
    BY <2>1, <2>2, <2>4, <2>5 DEF al
<1>3. ASSUME NEW count \in Counts, CreateMemoryPool(size, count, alignment) PROVE \E n : NewPool(n)
  <2> DEFINE s == ItemSize'
             n == count * s
  <2>1. Create(size, alignment, count) /\ Obtain(n) /\ count \in Nat
    BY <1>3, MemPoolAssumption DEF CreateMemoryPool
  <2>2. s \in Nat \ {0}
    BY <1>2, <2>1
  <2> HIDE DEF s
  <2>3. n \in Nat /\ n \div s = count
    BY <2>1, <2>2, Exact
  <2> HIDE DEF n
  <2>4. NewPool(n)
    <3>1. Obtained(n) /\ Count' = n \div ItemSize' /\ Count' = count
      BY <2>1, <2>3 DEF Obtained, Create, s
    <3>2. request' \in Nat \ {0} /\ Alignment' \in Nat /\ ItemSize' \in Nat
      BY <1>1, <1>2, <2>1
    <3>3. PtrSize <= Alignment' /\ Alignment' + request' <= ItemSize'
      BY <1>2, <2>1
    <3> QED
      BY <2>1, <3>1, <3>2, <3>3, Zenon DEF Create, NewPool
  <2> QED
    BY <2>4
<1>4. ASSUME NEW m \in StaticSizes, CreateMemoryPoolStatic(size, m, alignment)
      PROVE  \E n : NewPool(n)
  <2>1. Create(size, alignment, m \div ItemSize') /\ Obtain(m) /\ m \in Nat
    BY <1>4, MemPoolAssumption DEF CreateMemoryPoolStatic
  <2>2. NewPool(m)
    <3>1. Obtained(m) /\ Count' = m \div ItemSize'
      BY <2>1 DEF Obtained, Create
    <3>2. request' \in Nat \ {0} /\ Alignment' \in Nat /\ ItemSize' \in Nat
      BY <1>1, <1>2, <2>1
    <3>3. PtrSize <= Alignment' /\ Alignment' + request' <= ItemSize'
      BY <1>2, <2>1
    <3> QED
      BY <2>1, <3>1, <3>2, <3>3, Zenon DEF Create, NewPool
  <2> QED
    BY <2>2
<1> QED
  BY <1>3, <1>4

(* Every step is one of these.                                             *)
LEMMA MpSteps ==
    ASSUME TypeOK, Next
    PROVE  (\E n : NewPool(n)) \/ CreateFails \/ \E t \in Tasks : TaskStep(t)
<1>1. CASE \E size \in Requests, alignment \in Alignments :
             \/ \E count \in Counts : CreateMemoryPool(size, count, alignment)
             \/ \E n \in StaticSizes : CreateMemoryPoolStatic(size, n, alignment)
  BY <1>1, Creation
<1>2. CASE CreateFails
  BY <1>2
<1>3. ASSUME NEW t \in Tasks, NEW count \in Counts, AddExtraMemoryToPool(t, count)
      PROVE  Extend(t, count * ItemSize, "x_lock")
  <2>1. count * ItemSize \in Nat
    BY MemPoolAssumption, Numbers
  <2> DEFINE n == count * ItemSize
  <2>2. n \in Nat /\ AddExtraMemoryToPool(t, count)
    BY <1>3, <2>1
  <2> QED
    BY <2>2 DEF AddExtraMemoryToPool, Extend, Obtained
<1>4. ASSUME NEW t \in Tasks, NEW n \in StaticSizes, AddExtraMemoryToPoolStatic(t, n)
      PROVE  Extend(t, n, "s_lock")
  BY <1>4, MemPoolAssumption DEF AddExtraMemoryToPoolStatic, Extend, Obtained
<1>5. ASSUME NEW t \in Tasks,
             \/ TakeLock(t)
             \/ MemoryPoolAllocate(t) \/ AllocateNone(t) \/ AllocateTest(t)
             \/ PopOffStack(t) \/ RemoveNode(t)
             \/ (\E p \in out : MemoryPoolFree(t, p)) \/ PushLoad(t) \/ FreePush(t)
             \/ \E count \in Counts : AddExtraMemoryToPool(t, count)
             \/ \E n \in StaticSizes : AddExtraMemoryToPoolStatic(t, n)
             \/ AddLock(t) \/ AddPush(t) \/ AddPushOverrun(t) \/ AddDone(t)
      PROVE  TaskStep(t)
  <2>1. CASE \E count \in Counts : AddExtraMemoryToPool(t, count)
    BY <1>3, <2>1, Zenon DEF TaskStep
  <2>2. CASE \E n \in StaticSizes : AddExtraMemoryToPoolStatic(t, n)
    BY <1>4, <2>2, Zenon DEF TaskStep
  <2> QED
    BY <1>5, <2>1, <2>2, Zenon DEF TaskStep, Quiet
<1> QED
  BY <1>1, <1>2, <1>5, Zenon DEF Next

(* A step of a task needs a pool that is there, and leaves its geometry,   *)
(* and the other tasks, alone.                                             *)
LEMMA TaskSteps ==
    ASSUME TypeOK, NotCreated, NEW t \in Tasks, TaskStep(t)
    PROVE  /\ pool = "ready" /\ UNCHANGED geometry
           /\ \A u \in Tasks \ {t} : /\ pc'[u] = pc[u] /\ ptr'[u] = ptr[u]
                                     /\ temp'[u] = temp[u] /\ buffer'[u] = buffer[u]
<1>1. pool = "ready"
  <2>1. pc[t] # "out" \/ out # {} \/ pool = "ready"
    <3>1. CASE Quiet(t)
      BY <3>1 DEF Quiet, TakeLock, MemoryPoolAllocate, AllocateNone, AllocateTest, PopOffStack,
                  PushLoad, AddLock, AddPushOverrun, AddDone, Go
    <3>2. CASE \E p \in out : MemoryPoolFree(t, p)
      BY <3>2
    <3>3. CASE RemoveNode(t) \/ FreePush(t) \/ AddPush(t)
      BY <3>3 DEF RemoveNode, FreePush, AddPush, Go
    <3>4. CASE \E n, first : Extend(t, n, first)
      BY <3>4 DEF Extend
    <3> QED
      BY <3>1, <3>2, <3>3, <3>4 DEF TaskStep
  <2> QED
    BY <2>1 DEF NotCreated
<1>2. UNCHANGED geometry
  BY Zenon DEF TaskStep, Quiet, TakeLock, MemoryPoolAllocate, AllocateNone, AllocateTest, PopOffStack,
      PushLoad, AddLock, AddPushOverrun, AddDone, RemoveNode, MemoryPoolFree, FreePush, AddPush, Extend
<1>3. ASSUME NEW u \in Tasks \ {t} PROVE /\ pc'[u] = pc[u] /\ ptr'[u] = ptr[u]
                                         /\ temp'[u] = temp[u] /\ buffer'[u] = buffer[u]
  <2>1. /\ pc \in [Tasks -> {"out", "a_lock", "a_test", "a_pop", "a_unlink", "f_lock", "f_load",
                         "f_link", "x_lock", "x_load", "x_link", "s_lock", "s_load", "s_link"}]
        /\ ptr \in [Tasks -> Nat] /\ temp \in [Tasks -> Addresses] /\ buffer \in [Tasks -> Nat \X Nat]
    BY DEF TypeOK
  <2>2. CASE Quiet(t)
    BY <2>1, <2>2 DEF Quiet, TakeLock, MemoryPoolAllocate, AllocateNone, AllocateTest, PopOffStack,
                PushLoad, AddLock, AddPushOverrun, AddDone, Go
  <2>3. CASE \E p \in out : MemoryPoolFree(t, p)
    BY <2>1, <2>3 DEF MemoryPoolFree, Go
  <2>4. CASE RemoveNode(t) \/ FreePush(t) \/ AddPush(t)
    BY <2>1, <2>4 DEF RemoveNode, FreePush, AddPush, InsertNode, Go
  <2>5. CASE \E n, first : Extend(t, n, first)
    BY <2>1, <2>5 DEF Extend, Go
  <2> QED
    BY <2>2, <2>3, <2>4, <2>5 DEF TaskStep
<1> QED
  BY <1>1, <1>2, <1>3

-----------------------------------------------------------------------------
(* That the steps keep it.                                                 *)

(* What is on the stack, in use, or on its way in, is a block.             *)
LEMMA Located ==
    ASSUME TypeOK, NotCreated, Sized, NEW S, Placed(S)
    PROVE  /\ S \subseteq Blocks
           /\ \A p \in out : p - Alignment \in Blocks
           /\ \A t \in Freeing : ptr[t] \in Blocks
           /\ \A t \in Tasks : Coming(t) \subseteq Blocks
<1>1. S \cup Owned \cup UNION {Coming(t) : t \in Tasks} = Blocks
  BY DEF Placed
<1>2. \A p \in out : p - Alignment \in Owned
  BY DEF Owned
<1>3. \A t \in Freeing : ptr[t] \in Owned
  BY DEF Owned
<1> QED
  BY <1>1, <1>2, <1>3

(* Who unlinks a node has read the top of the stack.                       *)
LEMMA TopIs ==
    ASSUME TypeOK, LocksSeen, NEW f, NEW n, Chain(f, n), CountIs(n),
           NEW t \in Tasks, pc[t] = "a_unlink"
    PROVE  n \in Nat \ {0} /\ n \in 1 .. n /\ temp[t] = f[n] /\ f[n] # NULL /\ HeadNext = f[n]
<1>1. Count = n - 1 /\ Count \in Nat /\ n \in Nat
  BY DEF TypeOK, CountIs, Chain
<1>2. n \in Nat \ {0} /\ n \in 1 .. n
  BY <1>1
<1>3. HeadNext = f[n] /\ f[n] # NULL
  BY <1>2 DEF Chain
<1> QED
  BY <1>2, <1>3 DEF LocksSeen

(* A new pool has all its blocks on the stack.                             *)
LEMMA NewStack ==
    ASSUME TypeOK, NotCreated, NEW n, NewPool(n)
    PROVE  \E s \in Nat \ {0}, m \in Nat : \E f :
              /\ s = ItemSize' /\ m = n \div s /\ n \in Nat /\ brk = 1 /\ Count' = m
              /\ Chain(f, m)' /\ Nodes(f, m) = BlocksOf(1, m, s)
              /\ HeadNext' \in Addresses /\ Next_' \in [Addresses -> Addresses]
<1>1. PICK s : s = ItemSize'
  OBVIOUS
<1>2. PICK m : m = n \div s
  OBVIOUS
<1>3. PICK f : f = [i \in 1 .. m |-> 1 + (i - 1) * s]
  OBVIOUS
<1>4. n \in Nat /\ s \in Nat /\ PtrSize <= s /\ brk = 1 /\ Count' = m /\ 1 + n <= MemorySize + 1
  <2>1. n \in Nat /\ s \in Nat /\ Count' = m /\ pool # "ready"
    BY <1>1, <1>2 DEF NewPool, Obtained
  <2>2. brk = 1
    BY <2>1 DEF NotCreated
  <2>3. brk + n <= MemorySize + 1
    BY DEF NewPool, Obtained, Obtain
  <2>4. PtrSize <= Alignment' /\ Alignment' \in Nat /\ request' \in Nat /\ Alignment' + request' <= s
    BY <1>1 DEF NewPool
  <2>5. PtrSize \in Nat
    BY MemPoolAssumption
  <2>6. \A a, p, r, b \in Nat : p <= a /\ a + r <= b => p <= b
    OBVIOUS
  <2>7. PtrSize <= s
    BY <2>1, <2>4, <2>5, <2>6, Zenon
  <2> QED
    BY <2>1, <2>2, <2>3, <2>7
<1>5. s \in Nat \ {0} /\ MemorySize \in Nat
  <2>1. PtrSize \in Nat \ {0} /\ MemorySize \in Nat
    BY MemPoolAssumption
  <2> QED
    BY <1>4, <2>1
<1>6. Next_' = [a \in Addresses |-> IF a \in BlocksOf(1, m, s) \ {1} THEN a - s ELSE NULL]
  <2>1. Next_' = [a \in Addresses |->
                     IF a \in BlocksOf(brk, Count', s) \ {brk} THEN a - s ELSE NULL]
    BY <1>1 DEF NewPool
  <2> QED
    BY <1>4, <2>1
<1>7. HeadNext' = IF m = 0 THEN NULL ELSE 1 + (m - 1) * s
  <2>1. HeadNext' = IF Count' = 0 THEN NULL ELSE brk + (Count' - 1) * s
    BY <1>1 DEF NewPool
  <2> QED
    BY <1>4, <2>1
<1>8. m \in Nat /\ m * s <= n /\ m * s \in Nat
  BY <1>4, <1>5, <1>2, Division
<1>9. ASSUME NEW i \in 1 .. m
      PROVE  /\ (i - 1) * s \in Nat /\ (i - 1) * s + s <= n
             /\ f[i] = 1 + (i - 1) * s /\ f[i] \in Addresses \ {NULL}
  <2>1. i - 1 \in Nat /\ i - 1 < m
    BY <1>8
  <2>2. (i - 1) * s \in Nat /\ (i - 1) * s + s <= n
    BY <1>4, <1>5, <1>8, <2>1, Multiples
  <2>3. f[i] = 1 + (i - 1) * s
    BY <1>3
  <2>4. MemorySize \in Nat
    BY <1>5
  <2>5. \A x, z, k, l \in Nat : x + z <= k /\ 1 + k <= l + 1 /\ z # 0 =>
           1 + x \in 0 .. l /\ 1 + x # 0
    OBVIOUS
  <2>6. f[i] \in Addresses \ {NULL}
    BY <1>4, <1>5, <2>2, <2>3, <2>4, <2>5 DEF Addresses, NULL
  <2> QED
    BY <2>2, <2>3, <2>6
<1>10. ASSUME NEW i \in 1 .. m, NEW j \in 1 .. m, i < j PROVE f[i] + s <= f[j]
  <2>1. i - 1 \in Nat /\ j - 1 \in Nat /\ i - 1 < j - 1
    BY <1>8, <1>10
  <2>2. (i - 1) * s \in Nat /\ (j - 1) * s \in Nat /\ (i - 1) * s + s <= (j - 1) * s
    BY <1>4, <2>1, Multiples
  <2> QED
    BY <1>4, <1>9, <2>2
<1>11. \A i, j \in 1 .. m : f[i] = f[j] => i = j
  <2>1. \A i \in 1 .. m : f[i] \in Nat
    BY <1>9, MemPoolAssumption DEF Addresses
  <2> QED
    BY <1>5, <1>8, <1>10, <2>1
<1>12. Nodes(f, m) = BlocksOf(1, m, s)
  <2>1. ASSUME NEW i \in 1 .. m PROVE f[i] \in BlocksOf(1, m, s)
    <3>1. i - 1 \in 0 .. m - 1
      BY <1>8
    <3> QED
      BY <1>9, <3>1 DEF BlocksOf
  <2>2. ASSUME NEW j \in 0 .. m - 1 PROVE 1 + j * s \in Nodes(f, m)
    <3>1. j + 1 \in 1 .. m /\ (j + 1) - 1 = j
      BY <1>8
    <3>2. f[j + 1] = 1 + j * s
      BY <1>9, <3>1
    <3> QED
      BY <3>1, <3>2 DEF Nodes
  <2> QED
    BY <2>1, <2>2 DEF Nodes, BlocksOf
<1>13. Next_' = [a \in Addresses |-> IF a \in Nodes(f, m) \ {1} THEN a - s ELSE NULL]
  BY <1>6, <1>12
<1>14. ASSUME NEW i \in 1 .. m
      PROVE  Next_'[f[i]] = (IF i = 1 THEN NULL ELSE f[i - 1]) /\ f[i] \in Addresses
  <2>1. CASE i = 1
    <3>1. f[i] = 1
      BY <1>5, <1>9, <2>1
    <3> QED
      BY <1>9, <1>13, <2>1, <3>1
  <2>2. CASE i # 1
    <3>1. i - 1 \in 1 .. m /\ 1 \in 1 .. m /\ 1 < i
      BY <1>8, <2>2
    <3>2. f[i] # 1
      BY <1>5, <1>9, <1>10, <3>1, MemPoolAssumption DEF Addresses, NULL
    <3>3. f[i] - s = f[i - 1]
      <4>1. (i - 1) - 1 \in Nat /\ ((i - 1) - 1) * s + s = (i - 1) * s /\ ((i - 1) - 1) * s \in Nat
        BY <1>5, <3>1
      <4>2. f[i - 1] = 1 + ((i - 1) - 1) * s
        BY <1>9, <3>1
      <4> QED
        BY <1>5, <1>9, <4>1, <4>2
    <3>4. f[i] \in Nodes(f, m) \ {1}
      BY <3>2 DEF Nodes
    <3> QED
      BY <1>9, <1>13, <2>2, <3>3, <3>4
  <2> QED
    BY <2>1, <2>2
<1>15. NULL \in Addresses /\ NULL \notin Nodes(f, m)
  BY <1>9, MemPoolAssumption DEF Nodes, Addresses, NULL
<1>16. HeadNext' = IF m = 0 THEN NULL ELSE f[m]
  <2>1. m # 0 => m \in 1 .. m
    BY <1>8
  <2> QED
    BY <1>9, <1>7, <2>1
<1>17. Chain(f, m)'
  <2>1. DOMAIN f = 1 .. m /\ f = [i \in 1 .. m |-> f[i]]
    BY <1>3
  <2>2. f \in [1 .. m -> Addresses \ {NULL}]
    BY <1>9, <2>1
  <2>3. Next_'[NULL] = NULL
    BY <1>13, <1>15
  <2> QED
    BY <1>8, <1>11, <1>14, <1>16, <2>2, <2>3 DEF Chain
<1>18. HeadNext' \in Addresses
  <2>1. m # 0 => m \in 1 .. m
    BY <1>8
  <2> QED
    BY <1>9, <1>15, <1>16, <2>1
<1>19. Next_' \in [Addresses -> Addresses]
  <2>1. ASSUME NEW a \in Nodes(f, m) \ {1} PROVE a - s \in Addresses
    <3>1. PICK i \in 1 .. m : a = f[i]
      BY DEF Nodes
    <3>2. Next_'[f[i]] = a - s
      BY <1>13, <1>14, <3>1
    <3>3. i # 1
      BY <1>5, <1>9, <3>1
    <3>4. i - 1 \in 1 .. m
      BY <1>8, <3>3
    <3> QED
      BY <1>9, <1>14, <3>2, <3>3, <3>4
  <2> QED
    BY <1>13, <1>15, <2>1
<1>20. /\ s = ItemSize' /\ m = n \div s /\ n \in Nat /\ brk = 1 /\ Count' = m
       /\ Chain(f, m)' /\ Nodes(f, m) = BlocksOf(1, m, s)
       /\ HeadNext' \in Addresses /\ Next_' \in [Addresses -> Addresses]
  BY <1>4, <1>12, <1>17, <1>18, <1>19, <1>1, <1>2, Zenon
<1> QED
  BY <1>5, <1>8, <1>20, Zenon

(* Every step of a task keeps the types: Count stays natural, and every    *)
(* pointer stays inside of memory.                                         *)
LEMMA MpTyped ==
    ASSUME TypeOK, NotCreated, Sized, LocksSeen, Adds,
           NEW f, NEW n, Chain(f, n), CountIs(n), Placed(Nodes(f, n)), NEW t \in Tasks, TaskStep(t)
    PROVE  TypeOK'
<1>1. /\ \A p \in out : p - Alignment \in Blocks
      /\ \A u \in Freeing : ptr[u] \in Blocks
      /\ \A u \in Tasks : Coming(u) \subseteq Blocks
      /\ Nodes(f, n) \subseteq Blocks
  BY Located
<1>2. \A b \in Blocks : b \in Nat /\ b + ItemSize <= brk /\ b \in Addresses
  BY BlocksApart
<1>3. NULL \in Addresses /\ NULL \in Nat
  BY MemPoolAssumption DEF NULL, Addresses
<1>4. CASE Quiet(t)
  <2>1. CASE PopOffStack(t)
    <3>1. Count - 1 \in Nat
      BY <2>1 DEF PopOffStack, Go, TypeOK, LocksSeen
    <3> QED
      BY <2>1, <3>1 DEF PopOffStack, Go, TypeOK, geometry, memory
  <2>2. CASE TakeLock(t) \/ AddLock(t)
    BY <2>2 DEF TakeLock, AddLock, TakeMutex, Go, TypeOK, geometry, memory, stack
  <2>3. CASE MemoryPoolAllocate(t) \/ AllocateNone(t) \/ AllocateTest(t)
    BY <2>3 DEF MemoryPoolAllocate, AllocateNone, AllocateTest, GiveMutex, Go, TypeOK, geometry, memory, stack
  <2>4. CASE PushLoad(t)
    BY <2>4 DEF PushLoad, Go, TypeOK, geometry, memory, stack
  <2>5. CASE AddPushOverrun(t)
    BY <2>5 DEF AddPushOverrun, Go, TypeOK, geometry, memory, stack
  <2>6. CASE AddDone(t)
    BY <1>3, <2>6 DEF AddDone, Go, TypeOK, geometry, memory, stack
  <2> QED
    BY <1>4, <2>1, <2>2, <2>3, <2>4, <2>5, <2>6 DEF Quiet
<1>5. CASE RemoveNode(t)
  <2>1. pc[t] = "a_unlink" /\ temp[t] \in Nodes(f, n)
    <3>1. pc[t] = "a_unlink"
      BY <1>5 DEF RemoveNode, Go
    <3> QED
      BY <3>1, TopIs DEF Nodes
  <2>2. temp[t] \in Blocks /\ pool = "ready"
    BY <1>1, <2>1, BlocksApart
  <2>3. temp[t] + Alignment \in Addresses
    <3>1. /\ temp[t] \in Nat /\ temp[t] + ItemSize <= brk /\ brk <= MemorySize + 1
          /\ request >= 1 /\ Alignment + request <= ItemSize
      BY <1>2, <2>2 DEF Sized
    <3> QED
      BY <3>1, Numbers DEF Addresses
  <2> QED
    BY <1>3, <1>5, <2>3 DEF RemoveNode, GiveMutex, Go, TypeOK, geometry, memory
<1>6. CASE \E p \in out : MemoryPoolFree(t, p)
  <2>1. \A p \in out : p - Alignment \in Nat
    BY <1>1, <1>2
  <2> QED
    BY <1>6, <2>1 DEF MemoryPoolFree, Go, TypeOK, geometry, memory, stack
<1>7. CASE FreePush(t)
  <2>1. ptr[t] \in Addresses
    BY <1>1, <1>2, <1>7 DEF FreePush, Go, Freeing
  <2> QED
    BY <1>3, <1>7, <2>1 DEF FreePush, InsertNode, GiveMutex, Go, TypeOK, geometry, memory
<1>8. CASE \E k, first : Extend(t, k, first)
  <2>1. PICK k, first : Extend(t, k, first)
    BY <1>8
  <2>2. brk \in Nat /\ k \in Nat /\ brk' = brk + k /\ given' = given \cup {<<brk, k>>}
    BY <2>1 DEF Extend, Obtained, Obtain, TypeOK
  <2>3. brk' \in Nat /\ <<brk, k>> \in Nat \X Nat
    BY <2>2
  <2>4. pc' \in [Tasks -> {"out", "a_lock", "a_test", "a_pop", "a_unlink", "f_lock", "f_load",
                         "f_link", "x_lock", "x_load", "x_link", "s_lock", "s_load", "s_link"}]
    BY <2>1 DEF Extend, Go, TypeOK
  <2> QED
    BY <2>1, <2>2, <2>3, <2>4 DEF Extend, TypeOK, geometry, stack
<1>9. CASE AddPush(t)
  <2>1. ptr[t] \in Addresses /\ ptr[t] + ItemSize \in Nat
    <3>1. /\ ptr[t] \in Nat /\ ptr[t] + ItemSize <= buffer[t][1] + buffer[t][2]
      BY <1>9 DEF AddPush, InBuffer, TypeOK
    <3>2. buffer[t] \in given
      BY <1>9 DEF AddPush, Go, Adds, AddingMore
    <3>3. pool = "ready" /\ buffer[t][1] + buffer[t][2] <= brk /\ brk <= MemorySize + 1
      BY <3>2, TaskSteps DEF Sized
    <3>4. PtrSize \in Nat \ {0} /\ PtrSize <= Alignment /\ request >= 1 /\ Alignment + request <= ItemSize
      BY <3>3, Numbers DEF Sized
    <3>5. ptr[t] <= MemorySize
      BY <3>1, <3>3, <3>4, Numbers
    <3> QED
      BY <3>1, <3>5, Numbers DEF Addresses
  <2> QED
    BY <1>3, <1>9, <2>1 DEF AddPush, InsertNode, GiveMutex, Go, TypeOK, geometry, memory
<1> QED
  BY <1>4, <1>5, <1>6, <1>7, <1>8, <1>9 DEF TaskStep

(* It keeps the sizes: the buffers that are given do not overlap.          *)
LEMMA MpSized ==
    ASSUME TypeOK, NotCreated, Sized, NEW t \in Tasks, TaskStep(t)
    PROVE  Sized' /\ NotCreated'
<1>1. pool = "ready" /\ UNCHANGED geometry
  BY TaskSteps
<1>2. NotCreated'
  BY <1>1 DEF NotCreated, geometry
<1>3. CASE \E n, first : Extend(t, n, first)
  <2>1. PICK n \in Nat : /\ brk + n <= MemorySize + 1 /\ brk' = brk + n
                         /\ given' = given \cup {<<brk, n>>}
    BY <1>3 DEF Extend, Obtained, Obtain
  <2>2. brk \in Nat /\ brk >= 1
    BY DEF TypeOK, Sized
  <2>3. \A g \in given : /\ g[1] \in Nat /\ g[2] \in Nat /\ g[1] >= 1 /\ g[1] + g[2] <= brk
    BY Numbers DEF Sized
  <2> DEFINE new == <<brk, n>>
  <2>4. new[1] = brk /\ new[2] = n /\ given' = given \cup {new}
    BY <2>1
  <2> HIDE DEF new
  <2>5. \A g \in given' : g[1] >= 1 /\ g[1] + g[2] <= brk'
    BY <2>1, <2>2, <2>3, <2>4
  <2>6. \A g, h \in given' : g = h \/ g[1] + g[2] <= h[1] \/ h[1] + h[2] <= g[1]
    BY <2>3, <2>4 DEF Sized
  <2>7. 1 <= brk' /\ brk' <= MemorySize + 1
    BY <2>1, <2>2
  <2>8. pool' = "ready" => request' >= 1 /\ PtrSize <= Alignment' /\ Alignment' + request' <= ItemSize'
    BY <1>1 DEF Sized, geometry
  <2> QED
    BY <1>2, <2>5, <2>6, <2>7, <2>8 DEF Sized
<1>4. ASSUME UNCHANGED memory PROVE Sized'
  BY <1>1, <1>4 DEF Sized, geometry, memory
<1>5. UNCHANGED memory \/ \E n, first : Extend(t, n, first)
  BY Zenon DEF TaskStep, Quiet, TakeLock, MemoryPoolAllocate, AllocateNone, AllocateTest, PopOffStack,
      PushLoad, AddLock, AddPushOverrun, AddDone, RemoveNode, MemoryPoolFree, FreePush, AddPush
<1> QED
  BY <1>2, <1>3, <1>4, <1>5

(* It keeps LocksSeen: nobody comes between the read of the head of the    *)
(* list and its update.                                                    *)
LEMMA MpLocks ==
    ASSUME TypeOK, NotCreated, LocksSeen, NEW t \in Tasks, TaskStep(t)
    PROVE  LocksSeen'
<1> DEFINE Seen(u) ==
      /\ UnderLock(u) => Lock = u
      /\ pc[u] \in {"a_unlink", "f_link", "x_link", "s_link"} => temp[u] = HeadNext
      /\ pc[u] = "a_pop" => Count # 0
<1>1. /\ pc \in [Tasks -> {"out", "a_lock", "a_test", "a_pop", "a_unlink", "f_lock", "f_load",
                         "f_link", "x_lock", "x_load", "x_link", "s_lock", "s_load", "s_link"}]
      /\ temp \in [Tasks -> Addresses] /\ NoTask \notin Tasks
  BY MemPoolAssumption DEF TypeOK
<1>2. ASSUME NEW u \in Tasks PROVE Seen(u)
  BY DEF LocksSeen
<1>3. ASSUME NEW u \in Tasks \ {t} PROVE Seen(u)'
  <2>1. pc'[u] = pc[u] /\ temp'[u] = temp[u]
    BY TaskSteps
  <2>2. CASE Lock = u
    <3>1. ~UnderLock(t)
      BY <1>2, <2>2
    <3>2. UNCHANGED <<Lock, HeadNext, Count>>
      BY <1>1, <2>2, <3>1 DEF TaskStep, Quiet, TakeLock, TakeMutex, MemoryPoolAllocate, AllocateNone,
          AllocateTest, PopOffStack, PushLoad, AddLock, AddPushOverrun, AddDone, RemoveNode,
          MemoryPoolFree, FreePush, AddPush, Extend, Go, UnderLock, stack
    <3> QED
      BY <1>2, <2>1, <3>2 DEF UnderLock
  <2>3. CASE Lock # u
    BY <1>2, <2>1, <2>3 DEF UnderLock
  <2> QED
    BY <2>2, <2>3
<1>4. Seen(t)'
  <2>1. CASE Quiet(t)
    <3>1. CASE AddPushOverrun(t)
      BY <1>1, <3>1 DEF AddPushOverrun, Go, UnderLock
    <3>2. CASE PushLoad(t)
      BY <1>1, <1>2, <3>2 DEF PushLoad, Go, UnderLock, stack
    <3>3. CASE PopOffStack(t)
      BY <1>1, <1>2, <3>3 DEF PopOffStack, Go, UnderLock
    <3>4. CASE TakeLock(t) \/ AddLock(t)
      BY <1>1, <3>4 DEF TakeLock, AddLock, TakeMutex, Go, UnderLock
    <3>5. CASE MemoryPoolAllocate(t) \/ AllocateNone(t) \/ AddDone(t)
      BY <1>1, <3>5 DEF MemoryPoolAllocate, AllocateNone, AddDone, Go, UnderLock
    <3>6. CASE AllocateTest(t)
      BY <1>1, <1>2, <3>6 DEF AllocateTest, Go, UnderLock, stack
    <3> QED
      BY <2>1, <3>1, <3>2, <3>3, <3>4, <3>5, <3>6 DEF Quiet
  <2>2. CASE RemoveNode(t) \/ FreePush(t)
    BY <1>1, <2>2 DEF RemoveNode, FreePush, Go, UnderLock
  <2>3. CASE \E p \in out : MemoryPoolFree(t, p)
    BY <1>1, <2>3 DEF MemoryPoolFree, Go, UnderLock
  <2>4. CASE \E n, first : Extend(t, n, first)
    BY <1>1, <2>4 DEF Extend, Go, UnderLock
  <2>5. CASE AddPush(t)
    BY <1>1, <2>5 DEF AddPush, Go, UnderLock
  <2> QED
    BY <2>1, <2>2, <2>3, <2>4, <2>5 DEF TaskStep
<1>5. \A u \in Tasks : Seen(u)'
  BY <1>3, <1>4
<1> QED
  BY <1>5 DEF LocksSeen, UnderLock

(* It keeps Adds: the extra memory is cut at the block boundaries.         *)
LEMMA MpAdds ==
    ASSUME TypeOK, NotCreated, Adds, NEW t \in Tasks, TaskStep(t)
    PROVE  Adds'
<1> DEFINE AtBlock(u) == buffer[u] \in given /\ Aligned(ptr[u], buffer[u][1])
<1>1. /\ pc \in [Tasks -> {"out", "a_lock", "a_test", "a_pop", "a_unlink", "f_lock", "f_load",
                         "f_link", "x_lock", "x_load", "x_link", "s_lock", "s_load", "s_link"}]
      /\ ptr \in [Tasks -> Nat] /\ buffer \in [Tasks -> Nat \X Nat] /\ ItemSize \in Nat
      /\ ItemSize' = ItemSize /\ brk \in Nat
  BY TaskSteps DEF TypeOK, geometry
<1>2. given \subseteq given'
  BY DEF TaskStep, Quiet, TakeLock, MemoryPoolAllocate, AllocateNone, AllocateTest, PopOffStack,
      PushLoad, AddLock, AddPushOverrun, AddDone, RemoveNode, MemoryPoolFree, FreePush, AddPush,
      Extend, Obtained, Obtain, memory
<1>3. ASSUME NEW u \in Tasks, AddingMore(u), ptr'[u] = ptr[u], buffer'[u] = buffer[u]
      PROVE  AtBlock(u)'
  <2>1. buffer[u] \in given
    BY <1>3 DEF Adds
  <2>2. PICK k \in Nat : ptr[u] = buffer[u][1] + k * ItemSize
    BY <1>3 DEF Adds, Aligned
  <2>3. ptr'[u] = buffer'[u][1] + k * ItemSize'
    BY <1>1, <1>3, <2>2
  <2> QED
    BY <1>2, <1>3, <2>1, <2>3 DEF Aligned
<1>4. ASSUME NEW u \in Tasks \ {t}, AddingMore(u)' PROVE AtBlock(u)'
  <2>1. AddingMore(u) /\ ptr'[u] = ptr[u] /\ buffer'[u] = buffer[u]
    BY <1>4, TaskSteps DEF AddingMore
  <2> QED
    BY <1>3, <2>1
<1>5. ASSUME AddingMore(t)' PROVE AtBlock(t)'
  <2>1. CASE \E n, first : Extend(t, n, first)
    <3>1. PICK n, first : Extend(t, n, first)
      BY <2>1
    <3>2. /\ given' = given \cup {<<brk, n>>} /\ ptr' = [ptr EXCEPT ![t] = brk]
          /\ buffer' = [buffer EXCEPT ![t] = <<brk, n>>]
      BY <3>1 DEF Extend, Obtained, Obtain
    <3>3. buffer'[t] = <<brk, n>> /\ ptr'[t] = brk
      BY <1>1, <3>2
    <3>4. ptr'[t] = buffer'[t][1] + 0 * ItemSize'
      BY <1>1, <3>3
    <3> QED
      BY <3>2, <3>3, <3>4 DEF Aligned
  <2>2. CASE AddPush(t)
    <3>1. AddingMore(t) /\ ptr'[t] = ptr[t] + ItemSize /\ buffer'[t] = buffer[t]
      BY <1>1, <2>2 DEF AddPush, Go, AddingMore
    <3>2. PICK k \in Nat : ptr[t] = buffer[t][1] + k * ItemSize
      BY <3>1 DEF Adds, Aligned
    <3>3. buffer[t][1] \in Nat
      BY <1>1
    <3>4. k + 1 \in Nat /\ ptr'[t] = buffer'[t][1] + (k + 1) * ItemSize'
      <4>1. k * ItemSize \in Nat /\ (k + 1) * ItemSize = k * ItemSize + ItemSize
        BY <1>1
      <4>2. \A x, y, z \in Nat : (x + y) + z = x + (y + z)
        OBVIOUS
      <4> QED
        BY <1>1, <3>1, <3>2, <3>3, <4>1, <4>2
    <3>5. buffer[t] \in given
      BY <3>1 DEF Adds
    <3> QED
      BY <1>2, <3>1, <3>4, <3>5 DEF Aligned
  <2>3. CASE Quiet(t) \/ RemoveNode(t) \/ (\E p \in out : MemoryPoolFree(t, p)) \/ FreePush(t)
    <3>1. AddingMore(t) /\ ptr'[t] = ptr[t] /\ buffer'[t] = buffer[t]
      BY <1>1, <1>5, <2>3 DEF Quiet, TakeLock, MemoryPoolAllocate, AllocateNone, AllocateTest, PopOffStack,
          PushLoad, AddLock, AddPushOverrun, AddDone, RemoveNode, MemoryPoolFree, FreePush, Go, AddingMore
    <3> QED
      BY <1>3, <3>1
  <2> QED
    BY <2>1, <2>2, <2>3 DEF TaskStep
<1> QED
  BY <1>4, <1>5, Zenon DEF Adds

-----------------------------------------------------------------------------
(* Where the blocks are.                                                   *)

(* After the step the stack is of the nodes S.                             *)
StackIs(S) == \E f, n : Chain(f, n)' /\ CountIs(n)' /\ Nodes(f, n) = S

Unlinking == \E u \in Tasks : pc[u] = "a_unlink"

(* Only one task at a time unlinks a node.                                 *)
LEMMA Unlinks ==
    ASSUME TypeOK, NotCreated, LocksSeen, NEW t \in Tasks, TaskStep(t)
    PROVE  /\ pc[t] # "a_unlink" /\ pc'[t] # "a_unlink" => (Unlinking' <=> Unlinking)
           /\ UnderLock(t) /\ pc[t] # "a_unlink" => ~Unlinking
           /\ pc[t] = "a_unlink" /\ pc'[t] # "a_unlink" => Unlinking /\ ~Unlinking'
           /\ pc'[t] = "a_unlink" => Unlinking'
<1>1. \A u \in Tasks \ {t} : pc'[u] = pc[u]
  BY TaskSteps
<1>2. ASSUME UnderLock(t), NEW u \in Tasks \ {t} PROVE pc[u] # "a_unlink"
  <2>1. Lock = t /\ (UnderLock(u) => Lock = u)
    BY <1>2 DEF LocksSeen
  <2> QED
    BY <2>1 DEF UnderLock
<1>3. pc[t] = "a_unlink" => UnderLock(t)
  BY DEF UnderLock
<1> QED
  BY <1>1, <1>2, <1>3 DEF Unlinking

(* What is on its way in stays so, unless its task starts, goes on, or     *)
(* ends.                                                                   *)
LEMMA ComingKept ==
    ASSUME NEW u \in Tasks, ItemSize' = ItemSize, AddingMore(u)' <=> AddingMore(u),
           AddingMore(u) => ptr'[u] = ptr[u] /\ buffer'[u] = buffer[u]
    PROVE  Coming(u)' = Coming(u)
BY DEF AddingMore, Coming, BlocksIn, BlocksOf

(* Then, if nothing is allocated or freed either, nothing moves.           *)
LEMMA SamePlaces ==
    ASSUME NEW S, Placed(S), UNCHANGED <<given, ItemSize, Alignment, out>>,
           Freeing' = Freeing, \A u \in Freeing : ptr'[u] = ptr[u],
           \A u \in Tasks : Coming(u)' = Coming(u)
    PROVE  Placed(S)' /\ Owned' = Owned
<1>1. Blocks' = Blocks
  BY DEF Blocks, BlocksIn, BlocksOf
<1>2. UsedBlocks' = UsedBlocks
  BY DEF UsedBlocks
<1>3. FreedBlocks' = FreedBlocks
  BY DEF FreedBlocks
<1>4. Owned' = UsedBlocks' \cup FreedBlocks' /\ Owned = UsedBlocks \cup FreedBlocks
  BY DEF Owned, UsedBlocks, FreedBlocks
<1>5. UNION {Coming(u)' : u \in Tasks} = UNION {Coming(u) : u \in Tasks}
  OBVIOUS
<1> QED
  BY <1>1, <1>2, <1>3, <1>4, <1>5 DEF Placed

(* That is so in all the steps of a task but five.                         *)
LEMMA QuietStep ==
    ASSUME TypeOK, NotCreated, Sized, LocksSeen, Adds,
           NEW f, NEW n, Chain(f, n), CountIs(n), Placed(Nodes(f, n)), NEW t \in Tasks, Quiet(t)
    PROVE  StackIs(Nodes(f, n)) /\ Placed(Nodes(f, n))' /\ Owned' = Owned
<1>1. /\ pc \in [Tasks -> {"out", "a_lock", "a_test", "a_pop", "a_unlink", "f_lock", "f_load",
                         "f_link", "x_lock", "x_load", "x_link", "s_lock", "s_load", "s_link"}]
      /\ ptr \in [Tasks -> Nat] /\ buffer \in [Tasks -> Nat \X Nat]
  BY DEF TypeOK
<1>2. /\ pool = "ready" /\ ItemSize' = ItemSize /\ Alignment' = Alignment
      /\ \A u \in Tasks \ {t} : pc'[u] = pc[u] /\ ptr'[u] = ptr[u] /\ buffer'[u] = buffer[u]
      /\ TaskStep(t)
  BY TaskSteps DEF TaskStep, geometry
<1>3. UNCHANGED <<HeadNext, Next_, given, out>>
  BY DEF Quiet, TakeLock, MemoryPoolAllocate, AllocateNone, AllocateTest, PopOffStack,
      PushLoad, AddLock, AddPushOverrun, AddDone, stack, memory
<1>4. Chain(f, n)'
  BY <1>3 DEF Chain
<1>5. CountIs(n)'
  <2>1. CASE PopOffStack(t)
    <3>1. /\ UnderLock(t) /\ pc[t] # "a_unlink" /\ pc'[t] = "a_unlink" /\ Count' = Count - 1
      BY <1>1, <2>1 DEF PopOffStack, Go, UnderLock
    <3>2. ~Unlinking /\ Unlinking'
      BY <1>2, <3>1, Unlinks
    <3> QED
      BY <3>1, <3>2 DEF CountIs, Unlinking
  <2>2. CASE ~PopOffStack(t)
    <3>1. pc[t] # "a_unlink" /\ pc'[t] # "a_unlink" /\ Count' = Count
      BY <1>1, <2>2 DEF Quiet, TakeLock, MemoryPoolAllocate, AllocateNone, AllocateTest,
          PushLoad, AddLock, AddPushOverrun, AddDone, Go, stack
    <3>2. Unlinking' <=> Unlinking
      BY <1>2, <3>1, Unlinks
    <3> QED
      BY <3>1, <3>2 DEF CountIs, Unlinking
  <2> QED
    BY <2>1, <2>2
<1>6. Freeing' = Freeing /\ \A u \in Freeing : ptr'[u] = ptr[u]
  <2>1. t \in Freeing' <=> t \in Freeing
    BY <1>1 DEF Freeing, Quiet, TakeLock, MemoryPoolAllocate, AllocateNone, AllocateTest, PopOffStack,
        PushLoad, AddLock, AddPushOverrun, AddDone, Go
  <2>2. t \in Freeing => ptr'[t] = ptr[t]
    BY <1>1 DEF Freeing, Quiet, TakeLock, MemoryPoolAllocate, AllocateNone, AllocateTest, PopOffStack,
        PushLoad, AddLock, AddPushOverrun, AddDone, Go
  <2>3. \A u \in Tasks \ {t} : u \in Freeing' <=> u \in Freeing
    BY <1>2 DEF Freeing
  <2>4. Freeing \subseteq Tasks /\ Freeing' \subseteq Tasks
    BY DEF Freeing
  <2> QED
    BY <1>2, <2>1, <2>2, <2>3, <2>4
<1>7. ASSUME NEW u \in Tasks PROVE Coming(u)' = Coming(u)
  <2>1. CASE u # t
    <3>1. AddingMore(u)' <=> AddingMore(u)
      BY <1>2, <2>1 DEF AddingMore
    <3> QED
      BY <1>2, <2>1, <3>1, ComingKept
  <2>2. CASE u = t /\ ~AddDone(t)
    <3>1. /\ AddingMore(u)' <=> AddingMore(u)
          /\ AddingMore(u) => ptr'[u] = ptr[u] /\ buffer'[u] = buffer[u]
      BY <1>1, <2>2 DEF Quiet, TakeLock, MemoryPoolAllocate, AllocateNone, AllocateTest, PopOffStack,
          PushLoad, AddLock, AddPushOverrun, Go, AddingMore
    <3> QED
      BY <1>2, <3>1, ComingKept
  <2>3. CASE u = t /\ AddDone(t)
    <3>1. Coming(t)' = {}
      BY <1>1, <2>3 DEF AddDone, Go, Coming
    <3>2. ASSUME NEW b \in Coming(t) PROVE FALSE
      <4>1. /\ buffer[t][1] \in Nat /\ buffer[t][2] \in Nat /\ ptr[t] \in Nat
            /\ ItemSize \in Nat \ {0}
        <5>1. PtrSize \in Nat \ {0} /\ PtrSize <= Alignment /\ request >= 1 /\ Alignment + request <= ItemSize
          BY <1>2, Numbers DEF Sized
        <5> QED
          BY <5>1, Numbers
      <4>2. b \in BlocksIn(buffer[t][1], buffer[t][2]) /\ b >= ptr[t]
        BY DEF Coming
      <4>3. b \in Nat /\ buffer[t][1] <= b /\ b + ItemSize <= buffer[t][1] + buffer[t][2]
        BY <4>1, <4>2, BlocksInSpaced
      <4>4. ~InBuffer(t) \/ ~(buffer[t][2] >= ItemSize)
        BY <2>3 DEF AddDone, More
      <4> QED
        BY <4>1, <4>2, <4>3, <4>4 DEF InBuffer
    <3> QED
      BY <2>3, <3>1, <3>2
  <2> QED
    BY <2>1, <2>2, <2>3
<1>8. Placed(Nodes(f, n))' /\ Owned' = Owned
  BY <1>2, <1>3, <1>6, <1>7, SamePlaces
<1> QED
  BY <1>4, <1>5, <1>8 DEF StackIs

(* SlRemoveNodeFromHead takes the top off the stack.                       *)
LEMMA Popped ==
    ASSUME NEW f, NEW n, Chain(f, n), n # 0, HeadNext' = Next_[f[n]], Next_' = Next_
    PROVE  \E g : Chain(g, n - 1)' /\ Nodes(g, n - 1) = Nodes(f, n) \ {f[n]}
<1> DEFINE g == [i \in 1 .. n - 1 |-> f[i]]
<1>1. n \in Nat /\ n - 1 \in Nat /\ n \in 1 .. n /\ \A i \in 1 .. n - 1 : i \in 1 .. n /\ i # n
  BY DEF Chain
<1>2. \A i \in 1 .. n - 1 : g[i] = f[i]
  OBVIOUS
<1>3. g \in [1 .. n - 1 -> Addresses \ {NULL}]
  BY <1>1 DEF Chain
<1> HIDE DEF g
<1>4. HeadNext' = IF n - 1 = 0 THEN NULL ELSE g[n - 1]
  <2>1. HeadNext' = IF n = 1 THEN NULL ELSE f[n - 1]
    BY <1>1 DEF Chain
  <2>2. n # 1 => n - 1 \in 1 .. n - 1
    BY <1>1
  <2> QED
    BY <1>1, <1>2, <2>1, <2>2
<1>5. \A i \in 1 .. n - 1 : Next_'[g[i]] = IF i = 1 THEN NULL ELSE g[i - 1]
  <2> SUFFICES ASSUME NEW i \in 1 .. n - 1 PROVE Next_'[g[i]] = IF i = 1 THEN NULL ELSE g[i - 1]
    OBVIOUS
  <2>1. Next_[f[i]] = IF i = 1 THEN NULL ELSE f[i - 1]
    BY <1>1 DEF Chain
  <2>2. i # 1 => i - 1 \in 1 .. n - 1
    BY <1>1
  <2> QED
    BY <1>2, <2>1, <2>2
<1>6. \A i, j \in 1 .. n - 1 : g[i] = g[j] => i = j
  BY <1>1, <1>2 DEF Chain
<1>7. Chain(g, n - 1)'
  BY <1>1, <1>3, <1>4, <1>5, <1>6 DEF Chain
<1>8. Nodes(g, n - 1) = Nodes(f, n) \ {f[n]}
  <2>1. ASSUME NEW i \in 1 .. n - 1 PROVE g[i] \in Nodes(f, n) \ {f[n]}
    BY <1>1, <1>2 DEF Chain, Nodes
  <2>2. ASSUME NEW i \in 1 .. n, f[i] # f[n] PROVE f[i] \in Nodes(g, n - 1)
    <3>1. i \in 1 .. n - 1
      BY <1>1, <2>2
    <3> QED
      BY <1>2, <3>1 DEF Nodes
  <2> QED
    BY <2>1, <2>2 DEF Nodes
<1> QED
  BY <1>7, <1>8

PutOn(p) == HeadNext' = p /\ Next_' = [Next_ EXCEPT ![p] = HeadNext]

(* SlInsertNodeAfter puts a node on top of it.                             *)
LEMMA Pushed ==
    ASSUME NEW f, NEW n, Chain(f, n), NEW p \in Addresses \ {NULL}, p \notin Nodes(f, n),
           Next_ \in [Addresses -> Addresses], PutOn(p)
    PROVE  \E g : Chain(g, n + 1)' /\ Nodes(g, n + 1) = Nodes(f, n) \cup {p}
<1> DEFINE g == [i \in 1 .. n + 1 |-> IF i = n + 1 THEN p ELSE f[i]]
<1>1. /\ n \in Nat /\ n + 1 \in Nat /\ n + 1 # 0 /\ n + 1 \in 1 .. n + 1
      /\ \A i \in 1 .. n + 1 : i = n + 1 \/ i \in 1 .. n
      /\ \A i \in 1 .. n : i \in 1 .. n + 1 /\ i # n + 1
  BY DEF Chain
<1>2. g[n + 1] = p /\ \A i \in 1 .. n : g[i] = f[i]
  BY <1>1
<1>3. /\ \A i \in 1 .. n : f[i] \in Addresses \ {NULL} /\ f[i] # p
      /\ \A i \in 1 .. n : Next_[f[i]] = IF i = 1 THEN NULL ELSE f[i - 1]
      /\ \A i, j \in 1 .. n : f[i] = f[j] => i = j
      /\ HeadNext = (IF n = 0 THEN NULL ELSE f[n]) /\ Next_[NULL] = NULL
  BY DEF Chain, Nodes
<1>4. g \in [1 .. n + 1 -> Addresses \ {NULL}]
  BY <1>1, <1>3
<1> HIDE DEF g
<1>5. \A i \in 1 .. n + 1 : Next_'[g[i]] = IF i = 1 THEN NULL ELSE g[i - 1]
  <2> SUFFICES ASSUME NEW i \in 1 .. n + 1
               PROVE  Next_'[g[i]] = IF i = 1 THEN NULL ELSE g[i - 1]
    OBVIOUS
  <2>1. CASE i = n + 1
    <3>1. Next_'[p] = HeadNext
      BY DEF PutOn
    <3>2. i - 1 = n /\ (i = 1 <=> n = 0) /\ (n # 0 => n \in 1 .. n)
      BY <1>1, <2>1
    <3> QED
      BY <1>2, <1>3, <2>1, <3>1, <3>2
  <2>2. CASE i \in 1 .. n
    <3>1. g[i] = f[i] /\ Next_'[f[i]] = Next_[f[i]]
      BY <1>2, <1>3, <2>2 DEF PutOn
    <3>2. i # 1 => i - 1 \in 1 .. n
      BY <1>1, <2>2
    <3> QED
      BY <1>2, <1>3, <2>2, <3>1, <3>2
  <2> QED
    BY <1>1, <2>1, <2>2
<1>6. \A i, j \in 1 .. n + 1 : g[i] = g[j] => i = j
  BY <1>1, <1>2, <1>3
<1>7. HeadNext' = (IF n + 1 = 0 THEN NULL ELSE g[n + 1]) /\ Next_'[NULL] = NULL
  <2>1. NULL \in Addresses
    BY MemPoolAssumption DEF NULL, Addresses
  <2> QED
    BY <1>1, <1>2, <1>3, <2>1 DEF PutOn
<1>8. Chain(g, n + 1)'
  BY <1>1, <1>4, <1>5, <1>6, <1>7 DEF Chain
<1>9. Nodes(g, n + 1) = Nodes(f, n) \cup {p}
  <2>1. ASSUME NEW i \in 1 .. n + 1 PROVE g[i] \in Nodes(f, n) \cup {p}
    BY <1>1, <1>2 DEF Nodes
  <2>2. ASSUME NEW i \in 1 .. n PROVE f[i] \in Nodes(g, n + 1)
    BY <1>1, <1>2 DEF Nodes
  <2>3. p \in Nodes(g, n + 1)
    BY <1>1, <1>2 DEF Nodes
  <2> QED
    BY <2>1, <2>2, <2>3 DEF Nodes
<1> QED
  BY <1>8, <1>9

(* Blocks that change hands, and none that comes in.                       *)
LEMMA Rearranged ==
    ASSUME NEW S, Placed(S), NEW T, Blocks' = Blocks, \A u \in Tasks : Coming(u)' = Coming(u),
           T \cup Owned' = S \cup Owned, T \cap Owned' = {}, UsedBlocks' \cap FreedBlocks' = {},
           \A u, v \in Freeing' : u = v \/ ptr'[u] # ptr'[v]
    PROVE  Placed(T)'
<1>1. UNION {Coming(u)' : u \in Tasks} = UNION {Coming(u) : u \in Tasks}
  OBVIOUS
<1>2. T \cup Owned' \cup UNION {Coming(u)' : u \in Tasks} = Blocks'
  BY <1>1 DEF Placed
<1>3. /\ \A u \in Tasks : Coming(u)' \cap (T \cup Owned') = {}
      /\ \A u, v \in Tasks : u = v \/ Coming(u)' \cap Coming(v)' = {}
  BY DEF Placed
<1> QED
  BY <1>2, <1>3 DEF Placed

(* The end of MemoryPoolAllocate: a block goes from the stack to a user.   *)
LEMMA PopStep ==
    ASSUME TypeOK, NotCreated, Sized, LocksSeen,
           NEW f, NEW n, Chain(f, n), CountIs(n), Placed(Nodes(f, n)), NEW t \in Tasks, RemoveNode(t),
           NEW b, b = temp[t]
    PROVE  /\ b \in Nodes(f, n) /\ Owned' = Owned \cup {b}
           /\ StackIs(Nodes(f, n) \ {b}) /\ Placed(Nodes(f, n) \ {b})'
<1>1. /\ pc \in [Tasks -> {"out", "a_lock", "a_test", "a_pop", "a_unlink", "f_lock", "f_load",
                         "f_link", "x_lock", "x_load", "x_link", "s_lock", "s_load", "s_link"}]
      /\ pc[t] = "a_unlink" /\ pc'[t] = "out" /\ ptr' = ptr /\ buffer' = buffer
      /\ given' = given /\ Count' = Count /\ Next_' = Next_ /\ out' = out \cup {b + Alignment}
      /\ HeadNext' = IF b = NULL THEN HeadNext ELSE Next_[b]
  BY DEF TypeOK, RemoveNode, Go, memory
<1>2. /\ pool = "ready" /\ ItemSize' = ItemSize /\ Alignment' = Alignment
      /\ \A u \in Tasks \ {t} : pc'[u] = pc[u]
      /\ TaskStep(t)
  BY TaskSteps DEF TaskStep, geometry
<1>3. n \in Nat \ {0} /\ n \in 1 .. n /\ b = f[n] /\ f[n] # NULL /\ HeadNext = f[n]
  BY <1>1, TopIs
<1>4. b \in Nodes(f, n)
  BY <1>3 DEF Nodes
<1>5. StackIs(Nodes(f, n) \ {b})
  <2>1. PICK g : Chain(g, n - 1)' /\ Nodes(g, n - 1) = Nodes(f, n) \ {f[n]}
    BY <1>1, <1>3, Popped
  <2>2. Unlinking /\ ~Unlinking'
    BY <1>1, <1>2, Unlinks
  <2>3. CountIs(n - 1)'
    BY <1>1, <1>3, <2>2 DEF CountIs, Unlinking
  <2> QED
    BY <1>3, <2>1, <2>3, Zenon DEF StackIs
<1>6. Alignment \in Nat /\ b \in Nat
  BY <1>4, Located, BlocksApart, Numbers
<1>7. UsedBlocks' = UsedBlocks \cup {b}
  <2>1. (b + Alignment) - Alignment = b
    BY <1>6
  <2> QED
    BY <1>1, <1>2, <2>1 DEF UsedBlocks
<1>8. Freeing' = Freeing /\ FreedBlocks' = FreedBlocks
  <2>1. Freeing' = Freeing
    BY <1>1, <1>2 DEF Freeing
  <2> QED
    BY <1>1, <2>1 DEF FreedBlocks
<1>9. Owned' = UsedBlocks' \cup FreedBlocks' /\ Owned = UsedBlocks \cup FreedBlocks
  BY DEF Owned, UsedBlocks, FreedBlocks
<1>10. Blocks' = Blocks
  BY <1>1, <1>2 DEF Blocks, BlocksIn, BlocksOf
<1>11. ASSUME NEW u \in Tasks PROVE Coming(u)' = Coming(u)
  <2>1. AddingMore(u)' <=> AddingMore(u)
    BY <1>1, <1>2 DEF AddingMore
  <2> QED
    BY <1>1, <1>2, <2>1, ComingKept
<1>12. Placed(Nodes(f, n) \ {b})'
  <2>1. Nodes(f, n) \cap Owned = {} /\ UsedBlocks \cap FreedBlocks = {}
    BY DEF Placed
  <2>2. (Nodes(f, n) \ {b}) \cup Owned' = Nodes(f, n) \cup Owned
    BY <1>4, <1>7, <1>8, <1>9
  <2>3. (Nodes(f, n) \ {b}) \cap Owned' = {} /\ UsedBlocks' \cap FreedBlocks' = {}
    BY <1>4, <1>7, <1>8, <1>9, <2>1
  <2>4. \A u, v \in Freeing' : u = v \/ ptr'[u] # ptr'[v]
    BY <1>1, <1>8 DEF Placed
  <2> QED
    BY <1>10, <1>11, <2>2, <2>3, <2>4, Rearranged
<1> QED
  BY <1>4, <1>5, <1>7, <1>8, <1>9, <1>12

(* The beginning of MemoryPoolFree: the block is the task's own.           *)
LEMMA FreeStep ==
    ASSUME TypeOK, NotCreated, Sized, LocksSeen,
           NEW f, NEW n, Chain(f, n), CountIs(n), Placed(Nodes(f, n)),
           NEW t \in Tasks, NEW p \in out, MemoryPoolFree(t, p)
    PROVE  StackIs(Nodes(f, n)) /\ Placed(Nodes(f, n))' /\ Owned' = Owned
<1> DEFINE b == p - Alignment
<1>1. /\ pc \in [Tasks -> {"out", "a_lock", "a_test", "a_pop", "a_unlink", "f_lock", "f_load",
                         "f_link", "x_lock", "x_load", "x_link", "s_lock", "s_load", "s_link"}]
      /\ ptr \in [Tasks -> Nat]
      /\ pc[t] = "out" /\ pc'[t] = "f_lock" /\ ptr'[t] = b
      /\ UNCHANGED <<HeadNext, Next_, Count, given, buffer>> /\ out' = out \ {p}
  BY DEF TypeOK, MemoryPoolFree, Go, memory, stack
<1>2. /\ pool = "ready" /\ ItemSize' = ItemSize /\ Alignment' = Alignment
      /\ \A u \in Tasks \ {t} : pc'[u] = pc[u] /\ ptr'[u] = ptr[u]
      /\ TaskStep(t)
  BY TaskSteps, Zenon DEF TaskStep, geometry
<1>3. Chain(f, n)'
  BY <1>1 DEF Chain
<1>4. CountIs(n)'
  <2>1. Unlinking' <=> Unlinking
    BY <1>1, <1>2, Unlinks
  <2> QED
    BY <1>1, <2>1 DEF CountIs, Unlinking
<1>5. b \in UsedBlocks /\ UsedBlocks' = UsedBlocks \ {b}
  <2>1. \A q \in out : q \in Nat /\ Alignment \in Nat
    BY Numbers
  <2>2. \A q \in out : q - Alignment = b => q = p
    BY <2>1
  <2> QED
    BY <1>1, <1>2, <2>2 DEF UsedBlocks
<1> HIDE DEF b
<1>6. t \notin Freeing /\ Freeing' = Freeing \cup {t}
  BY <1>1, <1>2 DEF Freeing
<1>7. \A u \in Freeing : u # t /\ u \in Tasks /\ ptr'[u] = ptr[u]
  BY <1>2, <1>6 DEF Freeing
<1>8. FreedBlocks' = FreedBlocks \cup {b}
  BY <1>1, <1>6, <1>7 DEF FreedBlocks
<1>9. Owned' = UsedBlocks' \cup FreedBlocks' /\ Owned = UsedBlocks \cup FreedBlocks
  BY DEF Owned, UsedBlocks, FreedBlocks
<1>10. Blocks' = Blocks
  BY <1>1, <1>2 DEF Blocks, BlocksIn, BlocksOf
<1>11. ASSUME NEW u \in Tasks PROVE Coming(u)' = Coming(u)
  <2>1. /\ AddingMore(u)' <=> AddingMore(u)
        /\ AddingMore(u) => ptr'[u] = ptr[u] /\ buffer'[u] = buffer[u]
    BY <1>1, <1>2 DEF AddingMore
  <2> QED
    BY <1>2, <2>1, ComingKept
<1>12. Owned' = Owned
  BY <1>5, <1>8, <1>9
<1>13. Placed(Nodes(f, n))'
  <2>1. UsedBlocks \cap FreedBlocks = {} /\ Nodes(f, n) \cap Owned = {}
    BY DEF Placed
  <2>2. UsedBlocks' \cap FreedBlocks' = {}
    BY <1>5, <1>8, <2>1
  <2>3. \A u \in Freeing : ptr[u] \in FreedBlocks /\ ptr[u] # b
    BY <1>5, <2>1 DEF FreedBlocks
  <2>4. \A u, v \in Freeing' : u = v \/ ptr'[u] # ptr'[v]
    BY <1>1, <1>6, <1>7, <2>3 DEF Placed
  <2> QED
    BY <1>10, <1>11, <1>12, <2>1, <2>2, <2>4, Rearranged
<1> QED
  BY <1>3, <1>4, <1>12, <1>13 DEF StackIs

(* The end of MemoryPoolFree: the block goes back on the stack.            *)
LEMMA PushStep ==
    ASSUME TypeOK, NotCreated, Sized, LocksSeen,
           NEW f, NEW n, Chain(f, n), CountIs(n), Placed(Nodes(f, n)), NEW t \in Tasks, FreePush(t),
           NEW b, b = ptr[t]
    PROVE  /\ b \in Owned /\ Owned' = Owned \ {b}
           /\ StackIs(Nodes(f, n) \cup {b}) /\ Placed(Nodes(f, n) \cup {b})'
<1>1. /\ pc \in [Tasks -> {"out", "a_lock", "a_test", "a_pop", "a_unlink", "f_lock", "f_load",
                         "f_link", "x_lock", "x_load", "x_link", "s_lock", "s_load", "s_link"}]
      /\ pc[t] = "f_link" /\ pc'[t] = "out" /\ Next_ \in [Addresses -> Addresses]
      /\ HeadNext' = b /\ Next_' = [Next_ EXCEPT ![b] = temp[t]] /\ temp[t] = HeadNext
      /\ Count' = Count + 1 /\ UNCHANGED <<given, out, buffer>>
  BY DEF TypeOK, FreePush, InsertNode, Go, memory, LocksSeen
<1>2. /\ pool = "ready" /\ ItemSize' = ItemSize /\ Alignment' = Alignment
      /\ \A u \in Tasks \ {t} : pc'[u] = pc[u] /\ ptr'[u] = ptr[u]
      /\ TaskStep(t)
  BY TaskSteps DEF TaskStep, geometry
<1>3. t \in Freeing /\ Freeing' = Freeing \ {t}
  BY <1>1, <1>2 DEF Freeing
<1>4. /\ Nodes(f, n) \cap Owned = {} /\ UsedBlocks \cap FreedBlocks = {}
      /\ \A u, v \in Freeing : u = v \/ ptr[u] # ptr[v]
  BY DEF Placed
<1>5. b \in FreedBlocks
  BY <1>3 DEF FreedBlocks
<1>6. Owned' = UsedBlocks' \cup FreedBlocks' /\ Owned = UsedBlocks \cup FreedBlocks
  BY DEF Owned, UsedBlocks, FreedBlocks
<1>7. \A u \in Freeing' : u \in Freeing /\ u # t /\ u \in Tasks /\ ptr'[u] = ptr[u]
  BY <1>2, <1>3 DEF Freeing
<1>8. UsedBlocks' = UsedBlocks /\ FreedBlocks' = FreedBlocks \ {b}
  <2>1. UsedBlocks' = UsedBlocks
    BY <1>1, <1>2 DEF UsedBlocks
  <2>2. FreedBlocks' = {ptr[u] : u \in Freeing \ {t}}
    BY <1>3, <1>7 DEF FreedBlocks
  <2>3. \A u \in Freeing \ {t} : ptr[u] # b
    BY <1>3, <1>4
  <2> QED
    BY <2>1, <2>2, <2>3 DEF FreedBlocks
<1>9. b \in Owned /\ b \notin Nodes(f, n) /\ b \in Addresses \ {NULL}
  <2>1. b \in Blocks
    BY <1>3, Located
  <2>2. b \in Addresses /\ b >= 1 /\ b \in Nat
    BY <2>1, BlocksApart
  <2> QED
    BY <1>4, <1>5, <1>6, <2>2 DEF NULL
<1>10. Owned' = Owned \ {b}
  BY <1>4, <1>5, <1>6, <1>8
<1>11. StackIs(Nodes(f, n) \cup {b})
  <2>1. PICK g : Chain(g, n + 1)' /\ Nodes(g, n + 1) = Nodes(f, n) \cup {b}
    <3>1. PutOn(b)
      BY <1>1 DEF PutOn
    <3>2. b \in Addresses \ {NULL} /\ b \notin Nodes(f, n) /\ Next_ \in [Addresses -> Addresses]
      BY <1>1, <1>9
    <3> QED
      BY <3>1, <3>2, Pushed
  <2>2. ~Unlinking /\ (Unlinking' <=> Unlinking)
    BY <1>1, <1>2, Unlinks DEF UnderLock
  <2>3. CountIs(n + 1)'
    BY <1>1, <2>2 DEF CountIs, Unlinking
  <2> QED
    BY <2>1, <2>3, Zenon DEF StackIs
<1>12. Blocks' = Blocks
  BY <1>1, <1>2 DEF Blocks, BlocksIn, BlocksOf
<1>13. ASSUME NEW u \in Tasks PROVE Coming(u)' = Coming(u)
  <2>1. /\ AddingMore(u)' <=> AddingMore(u)
        /\ AddingMore(u) => ptr'[u] = ptr[u] /\ buffer'[u] = buffer[u]
    BY <1>1, <1>2 DEF AddingMore
  <2> QED
    BY <1>2, <2>1, ComingKept
<1>14. Placed(Nodes(f, n) \cup {b})'
  <2>1. (Nodes(f, n) \cup {b}) \cup Owned' = Nodes(f, n) \cup Owned
    BY <1>9, <1>10
  <2>2. (Nodes(f, n) \cup {b}) \cap Owned' = {} /\ UsedBlocks' \cap FreedBlocks' = {}
    BY <1>4, <1>8, <1>10
  <2>3. \A u, v \in Freeing' : u = v \/ ptr'[u] # ptr'[v]
    BY <1>4, <1>7
  <2> QED
    BY <1>12, <1>13, <2>1, <2>2, <2>3, Rearranged
<1> QED
  BY <1>9, <1>10, <1>11, <1>14

(* AddExtraMemoryToPool: all blocks of the new memory are to come.         *)
LEMMA ExtendStep ==
    ASSUME TypeOK, NotCreated, Sized, LocksSeen, Adds,
           NEW f, NEW n, Chain(f, n), CountIs(n), Placed(Nodes(f, n)),
           NEW t \in Tasks, NEW k, NEW first, Extend(t, k, first)
    PROVE  StackIs(Nodes(f, n)) /\ Placed(Nodes(f, n))' /\ Owned' = Owned
<1>1. /\ pc \in [Tasks -> {"out", "a_lock", "a_test", "a_pop", "a_unlink", "f_lock", "f_load",
                         "f_link", "x_lock", "x_load", "x_link", "s_lock", "s_load", "s_link"}]
      /\ ptr \in [Tasks -> Nat] /\ buffer \in [Tasks -> Nat \X Nat] /\ brk \in Nat /\ k \in Nat
      /\ pc[t] = "out" /\ pc'[t] \in {"x_lock", "s_lock"} /\ ptr'[t] = brk /\ buffer'[t] = <<brk, k>>
      /\ given' = given \cup {<<brk, k>>} /\ UNCHANGED <<HeadNext, Next_, Count, out>>
  BY DEF TypeOK, Extend, Obtained, Obtain, Go, stack
<1>2. /\ pool = "ready" /\ ItemSize' = ItemSize /\ Alignment' = Alignment
      /\ \A u \in Tasks \ {t} : pc'[u] = pc[u] /\ ptr'[u] = ptr[u] /\ buffer'[u] = buffer[u]
      /\ TaskStep(t)
  BY TaskSteps, Zenon DEF TaskStep, geometry
<1>3. Chain(f, n)'
  BY <1>1 DEF Chain
<1>4. CountIs(n)'
  <2>1. Unlinking' <=> Unlinking
    BY <1>1, <1>2, Unlinks
  <2> QED
    BY <1>1, <2>1 DEF CountIs, Unlinking
<1>5. ItemSize \in Nat \ {0}
  <2>1. PtrSize \in Nat \ {0} /\ PtrSize <= Alignment /\ request >= 1 /\ Alignment + request <= ItemSize
    BY <1>2, Numbers DEF Sized
  <2> QED
    BY <2>1, Numbers
<1> DEFINE New == BlocksIn(brk, k)
<1>6. \A b \in New : b \in Nat /\ b >= brk
  BY <1>1, <1>5, BlocksInSpaced
<1>7. Blocks' = Blocks \cup New
  <2>1. \A a, m : BlocksIn(a, m)' = BlocksIn(a, m)
    BY <1>2 DEF BlocksIn, BlocksOf
  <2>2. Blocks' = UNION {BlocksIn(g[1], g[2]) : g \in given'}
    BY <1>2 DEF Blocks, BlocksIn, BlocksOf
  <2> DEFINE new == <<brk, k>>
  <2>3. given' = given \cup {new} /\ BlocksIn(new[1], new[2]) = New
    BY <1>1
  <2> HIDE DEF new, New
  <2>4. \A x : x \in Blocks <=> \E g \in given : x \in BlocksIn(g[1], g[2])
    BY DEF Blocks
  <2>5. \A x : x \in Blocks' <=> \E g \in given' : x \in BlocksIn(g[1], g[2])
    BY <2>2
  <2>6. \A x : x \in Blocks' <=> x \in Blocks \cup New
    BY <2>3, <2>4, <2>5
  <2> QED
    BY <2>6
<1>8. Coming(t) = {} /\ Coming(t)' = New
  <2>1. Coming(t) = {}
    BY <1>1 DEF Coming
  <2>2. Coming(t)' = {b \in BlocksIn(brk, k) : b >= brk}
    BY <1>1, <1>2 DEF Coming, BlocksIn, BlocksOf
  <2> QED
    BY <1>6, <2>1, <2>2
<1> HIDE DEF New
<1>9. ASSUME NEW u \in Tasks \ {t} PROVE Coming(u)' = Coming(u)
  <2>1. AddingMore(u)' <=> AddingMore(u)
    BY <1>2 DEF AddingMore
  <2> QED
    BY <1>2, <2>1, ComingKept
<1>10. New \cap Blocks = {}
  <2>1. \A b \in Blocks : b \in Nat /\ b + ItemSize <= brk
    BY BlocksApart
  <2> QED
    BY <1>1, <1>5, <1>6, <2>1
<1>11. Freeing' = Freeing /\ \A u \in Freeing : ptr'[u] = ptr[u]
  BY <1>1, <1>2 DEF Freeing
<1>12. UsedBlocks' = UsedBlocks /\ FreedBlocks' = FreedBlocks
  BY <1>1, <1>2, <1>11 DEF UsedBlocks, FreedBlocks
<1>13. Owned' = Owned
  BY <1>12 DEF Owned, UsedBlocks, FreedBlocks
<1>14. Placed(Nodes(f, n))'
  <2> DEFINE S == Nodes(f, n)
  <2>1. /\ S \cup Owned \cup UNION {Coming(u) : u \in Tasks} = Blocks
        /\ S \cap Owned = {} /\ UsedBlocks \cap FreedBlocks = {}
        /\ \A u \in Tasks : Coming(u) \cap (S \cup Owned) = {}
        /\ \A u, v \in Tasks : u = v \/ Coming(u) \cap Coming(v) = {}
        /\ \A u, v \in Freeing : u = v \/ ptr[u] # ptr[v]
    BY DEF Placed
  <2>2. S \subseteq Blocks /\ Owned \subseteq Blocks /\ \A u \in Tasks : Coming(u) \subseteq Blocks
    BY <2>1
  <2> HIDE DEF S
  <2>3. UNION {Coming(u)' : u \in Tasks} = New \cup UNION {Coming(u) : u \in Tasks}
    BY <1>8, <1>9
  <2>4. S \cup Owned' \cup UNION {Coming(u)' : u \in Tasks} = Blocks'
    BY <1>7, <1>13, <2>1, <2>3
  <2>5. \A u \in Tasks : Coming(u)' \cap (S \cup Owned') = {}
    BY <1>8, <1>9, <1>10, <1>13, <2>1, <2>2
  <2>6. \A u, v \in Tasks : u = v \/ Coming(u)' \cap Coming(v)' = {}
    BY <1>8, <1>9, <1>10, <2>1, <2>2
  <2>7. /\ S \cap Owned' = {} /\ UsedBlocks' \cap FreedBlocks' = {}
        /\ \A u, v \in Freeing' : u = v \/ ptr'[u] # ptr'[v]
    BY <1>11, <1>12, <1>13, <2>1
  <2> QED
    BY <2>4, <2>5, <2>6, <2>7 DEF Placed, S
<1> QED
  BY <1>3, <1>4, <1>13, <1>14 DEF StackIs

(* AddExtraMemoryToPool pushes the next of them.                           *)
LEMMA AddStep ==
    ASSUME TypeOK, NotCreated, Sized, LocksSeen, Adds,
           NEW f, NEW n, Chain(f, n), CountIs(n), Placed(Nodes(f, n)), NEW t \in Tasks, AddPush(t),
           NEW b, b = ptr[t]
    PROVE  /\ b \in Nat /\ b \notin Nodes(f, n) \cup Owned /\ Owned' = Owned
           /\ StackIs(Nodes(f, n) \cup {b}) /\ Placed(Nodes(f, n) \cup {b})'
<1>1. /\ pc \in [Tasks -> {"out", "a_lock", "a_test", "a_pop", "a_unlink", "f_lock", "f_load",
                         "f_link", "x_lock", "x_load", "x_link", "s_lock", "s_load", "s_link"}]
      /\ pc[t] \in {"x_link", "s_link"} /\ pc'[t] \in {"x_lock", "s_lock"}
      /\ Next_ \in [Addresses -> Addresses]
      /\ HeadNext' = b /\ Next_' = [Next_ EXCEPT ![b] = temp[t]] /\ temp[t] = HeadNext
      /\ Count' = Count + 1 /\ UNCHANGED <<given, out, buffer>>
      /\ b + ItemSize <= buffer[t][1] + buffer[t][2] /\ ptr'[t] = b + ItemSize
  BY DEF TypeOK, AddPush, InsertNode, Go, memory, LocksSeen, InBuffer
<1>2. /\ pool = "ready" /\ ItemSize' = ItemSize /\ Alignment' = Alignment
      /\ \A u \in Tasks \ {t} : pc'[u] = pc[u] /\ ptr'[u] = ptr[u]
      /\ TaskStep(t)
  BY TaskSteps DEF TaskStep, geometry
<1>3. ItemSize \in Nat \ {0}
  <2>1. PtrSize \in Nat \ {0} /\ PtrSize <= Alignment /\ request >= 1 /\ Alignment + request <= ItemSize
    BY <1>2, Numbers DEF Sized
  <2> QED
    BY <2>1, Numbers
<1> DEFINE B == BlocksIn(buffer[t][1], buffer[t][2])
<1>4. b \in B /\ b \in Nat /\ \A c \in B : c \in Nat /\ (c = b \/ c < b \/ b + ItemSize <= c)
  <2>1. Aligned(b, buffer[t][1])
    BY <1>1 DEF Adds, AddingMore
  <2>2. buffer[t][1] \in Nat /\ buffer[t][2] \in Nat
    BY Numbers
  <2>3. /\ b \in Nat /\ (b + ItemSize <= buffer[t][1] + buffer[t][2] => b \in B)
        /\ \A c \in B : c = b \/ c < b \/ b + ItemSize <= c
    BY <1>3, <2>1, <2>2, BlockInAt
  <2>4. \A c \in B : c \in Nat
    BY <1>3, <2>2, BlocksInSpaced
  <2> QED
    BY <1>1, <2>3, <2>4
<1>5. Coming(t) = {c \in B : c >= b}
  BY <1>1 DEF Coming
<1>6. Coming(t)' = {c \in B : c >= b + ItemSize}
  BY <1>1, <1>2 DEF Coming, BlocksIn, BlocksOf
<1> HIDE DEF B
<1>7. b \in Coming(t) /\ Coming(t)' = Coming(t) \ {b}
  <2>1. \A c \in B : c >= b + ItemSize <=> c >= b /\ c # b
    BY <1>3, <1>4
  <2>2. b >= b
    BY <1>4
  <2> QED
    BY <1>4, <1>5, <1>6, <2>1, <2>2, Zenon
<1>8. ASSUME NEW u \in Tasks \ {t} PROVE Coming(u)' = Coming(u)
  <2>1. AddingMore(u)' <=> AddingMore(u)
    BY <1>2 DEF AddingMore
  <2> QED
    BY <1>1, <1>2, <2>1, ComingKept
<1>9. Freeing' = Freeing /\ \A u \in Freeing : ptr'[u] = ptr[u]
  BY <1>1, <1>2 DEF Freeing
<1>10. UsedBlocks' = UsedBlocks /\ FreedBlocks' = FreedBlocks
  BY <1>1, <1>2, <1>9 DEF UsedBlocks, FreedBlocks
<1>11. Owned' = Owned
  BY <1>10 DEF Owned, UsedBlocks, FreedBlocks
<1>12. Blocks' = Blocks
  BY <1>1, <1>2 DEF Blocks, BlocksIn, BlocksOf
<1>13. b \notin Nodes(f, n) \cup Owned /\ b \in Addresses \ {NULL}
  <2>1. b \notin Nodes(f, n) \cup Owned
    BY <1>7 DEF Placed
  <2>2. b \in Blocks
    BY <1>7, Located
  <2>3. b \in Addresses /\ b >= 1 /\ b \in Nat
    BY <2>2, BlocksApart
  <2> QED
    BY <2>1, <2>3 DEF NULL
<1>14. StackIs(Nodes(f, n) \cup {b})
  <2>1. PICK g : Chain(g, n + 1)' /\ Nodes(g, n + 1) = Nodes(f, n) \cup {b}
    <3>1. PutOn(b)
      BY <1>1 DEF PutOn
    <3>2. b \in Addresses \ {NULL} /\ b \notin Nodes(f, n) /\ Next_ \in [Addresses -> Addresses]
      BY <1>1, <1>13
    <3> QED
      BY <3>1, <3>2, Pushed
  <2>2. ~Unlinking /\ (Unlinking' <=> Unlinking)
    BY <1>1, <1>2, Unlinks DEF UnderLock
  <2>3. CountIs(n + 1)'
    BY <1>1, <2>2 DEF CountIs, Unlinking
  <2> QED
    BY <2>1, <2>3, Zenon DEF StackIs
<1>15. Placed(Nodes(f, n) \cup {b})'
  <2> DEFINE S == Nodes(f, n)
             T == S \cup {b}
  <2>1. /\ S \cup Owned \cup UNION {Coming(u) : u \in Tasks} = Blocks
        /\ S \cap Owned = {} /\ UsedBlocks \cap FreedBlocks = {}
        /\ \A u \in Tasks : Coming(u) \cap (S \cup Owned) = {}
        /\ \A u, v \in Tasks : u = v \/ Coming(u) \cap Coming(v) = {}
        /\ \A u, v \in Freeing : u = v \/ ptr[u] # ptr[v]
    BY DEF Placed
  <2> HIDE DEF S
  <2>2. {b} \cup UNION {Coming(u)' : u \in Tasks} = UNION {Coming(u) : u \in Tasks}
    BY <1>7, <1>8
  <2>3. T \cup Owned' \cup UNION {Coming(u)' : u \in Tasks} = Blocks'
    BY <1>11, <1>12, <2>1, <2>2
  <2>4. \A u \in Tasks : Coming(u)' \subseteq Coming(u) /\ b \notin Coming(u)'
    BY <1>7, <1>8, <2>1
  <2>5. \A u \in Tasks : Coming(u)' \cap (T \cup Owned') = {}
    BY <1>11, <2>1, <2>4
  <2>6. \A u, v \in Tasks : u = v \/ Coming(u)' \cap Coming(v)' = {}
    BY <2>1, <2>4
  <2>7. /\ T \cap Owned' = {} /\ UsedBlocks' \cap FreedBlocks' = {}
        /\ \A u, v \in Freeing' : u = v \/ ptr'[u] # ptr'[v]
    BY <1>9, <1>10, <1>11, <1>13, <2>1 DEF S
  <2> QED
    BY <2>3, <2>5, <2>6, <2>7 DEF Placed, T, S
<1> QED
  BY <1>4, <1>11, <1>13, <1>14, <1>15

(* The creation of the pool.                                               *)
LEMMA NewStep ==
    ASSUME TypeOK, NotCreated, Sized, NEW k, NewPool(k)
    PROVE  /\ TypeOK' /\ NotCreated' /\ Sized' /\ LocksSeen' /\ Adds'
           /\ \E S : StackIs(S) /\ Placed(S)'
           /\ Owned = {} /\ Owned' = {}
<1>1. PICK s \in Nat \ {0}, m \in Nat : \E f :
              /\ s = ItemSize' /\ m = k \div s /\ k \in Nat /\ brk = 1 /\ Count' = m
              /\ Chain(f, m)' /\ Nodes(f, m) = BlocksOf(1, m, s)
              /\ HeadNext' \in Addresses /\ Next_' \in [Addresses -> Addresses]
  BY NewStack
<1>2. PICK f :
              /\ s = ItemSize' /\ m = k \div s /\ k \in Nat /\ brk = 1 /\ Count' = m
              /\ Chain(f, m)' /\ Nodes(f, m) = BlocksOf(1, m, s)
              /\ HeadNext' \in Addresses /\ Next_' \in [Addresses -> Addresses]
  BY <1>1
<1>3. /\ pool # "ready" /\ pool' = "ready" /\ 1 + k <= MemorySize + 1 /\ brk' = 1 + k
      /\ given = {} /\ given' = {<<1, k>>} /\ out = {} /\ \A t \in Tasks : pc[t] = "out"
      /\ UNCHANGED <<Lock, out, pc, ptr, temp, buffer, overrun>>
  BY <1>2 DEF NewPool, Obtained, Obtain, NotCreated
<1>4. TypeOK'
  <2>1. request' \in Nat /\ ItemSize' \in Nat /\ Alignment' \in Nat
    BY DEF NewPool
  <2>2. brk' \in Nat /\ given' \subseteq Nat \X Nat
    BY <1>2, <1>3
  <2> QED
    BY <1>2, <1>3, <2>1, <2>2 DEF TypeOK
<1>5. NotCreated'
  BY <1>3 DEF NotCreated
<1>6. Sized'
  <2>1. 1 <= brk' /\ brk' <= MemorySize + 1
    BY <1>2, <1>3
  <2>2. request' >= 1 /\ PtrSize <= Alignment' /\ Alignment' + request' <= ItemSize'
    <3>1. request' \in Nat \ {0} /\ PtrSize <= Alignment' /\ Alignment' + request' <= ItemSize'
      BY DEF NewPool
    <3>2. \A r \in Nat \ {0} : r >= 1
      OBVIOUS
    <3> QED
      BY <3>1, <3>2, Zenon
  <2>3. \A g \in given' : g = <<1, k>> /\ g[1] >= 1 /\ g[1] + g[2] <= brk'
    BY <1>2, <1>3
  <2> QED
    BY <2>1, <2>2, <2>3 DEF Sized
<1>7. LocksSeen' /\ Adds'
  BY <1>3 DEF LocksSeen, Adds, UnderLock, AddingMore
<1>8. StackIs(Nodes(f, m))
  <2>1. CountIs(m)'
    BY <1>2, <1>3 DEF CountIs
  <2> QED
    BY <1>2, <2>1 DEF StackIs
<1>9. /\ Owned = {} /\ Owned' = {} /\ UsedBlocks' = {} /\ Freeing' = {}
      /\ \A t \in Tasks : Coming(t)' = {}
  BY <1>3 DEF Owned, UsedBlocks, Freeing, Coming
<1>10. Blocks' = Nodes(f, m)
  <2> DEFINE new == <<1, k>>
  <2>1. given' = {new} /\ new[1] = 1 /\ new[2] = k
    BY <1>3
  <2>2. Blocks' = UNION {BlocksOf(g[1], g[2] \div s, s) : g \in given'}
    BY <1>2 DEF Blocks, BlocksIn, BlocksOf
  <2> DEFINE F(g) == BlocksOf(g[1], g[2] \div s, s)
  <2>3. Blocks' = UNION {F(g) : g \in {new}}
    BY <2>1, <2>2
  <2>4. F(new) = Nodes(f, m)
    BY <1>2, <2>1
  <2> HIDE DEF F, new
  <2>5. UNION {F(g) : g \in {new}} = F(new)
    OBVIOUS
  <2> QED
    BY <2>3, <2>4, <2>5
<1>11. Placed(Nodes(f, m))'
  BY <1>9, <1>10 DEF Placed
<1> QED
  BY <1>4, <1>5, <1>6, <1>7, <1>8, <1>9, <1>11

(* A creation that fails changes nothing.                                  *)
LEMMA FailStep ==
    ASSUME TypeOK, NotCreated, Sized, LocksSeen, Adds,
           NEW f, NEW n, Chain(f, n), CountIs(n), Placed(Nodes(f, n)),
           CreateFails \/ UNCHANGED vars
    PROVE  /\ TypeOK' /\ NotCreated' /\ Sized' /\ LocksSeen' /\ Adds'
           /\ StackIs(Nodes(f, n)) /\ Placed(Nodes(f, n))' /\ Owned' = Owned
<1>1. pool' = pool \/ (pool # "ready" /\ pool' = "failed")
  BY DEF CreateFails, vars, geometry
<1>2. UNCHANGED <<request, ItemSize, Alignment, Lock, HeadNext, Count, Next_, brk, given, out, pc, ptr,
                  temp, buffer, overrun>>
  BY DEF CreateFails, vars, geometry, stack, memory
<1>3. TypeOK'
  BY <1>1, <1>2 DEF TypeOK
<1>4. NotCreated'
  BY <1>1, <1>2 DEF NotCreated
<1>5. Sized'
  BY <1>1, <1>2 DEF Sized
<1>6. LocksSeen' /\ Adds'
  BY <1>2 DEF LocksSeen, Adds, UnderLock, AddingMore, Aligned
<1>7. StackIs(Nodes(f, n))
  BY <1>2 DEF StackIs, Chain, CountIs
<1>8. \A u \in Tasks : Coming(u)' = Coming(u)
  BY <1>2, ComingKept DEF AddingMore
<1>9. Freeing' = Freeing /\ \A u \in Freeing : ptr'[u] = ptr[u]
  BY <1>2 DEF Freeing
<1>10. Placed(Nodes(f, n))' /\ Owned' = Owned
  BY <1>2, <1>8, <1>9, SamePlaces
<1> QED
  BY <1>3, <1>4, <1>5, <1>6, <1>7, <1>10

(* What a step does to the free blocks and to those that are not.          *)
Abstractly(S, T) ==
    \/ T = S /\ Owned' = Owned /\ Alignment' = Alignment
    \/ S = {} /\ Owned = {} /\ Owned' = {}
    \/ /\ Alignment' = Alignment
       /\ \E b : \/ b \in S /\ T = S \ {b} /\ Owned' = Owned \cup {b}
                 \/ b \in Owned /\ T = S \cup {b} /\ Owned' = Owned \ {b}
                 \/ b \in Nat /\ b \notin S \cup Owned /\ T = S \cup {b} /\ Owned' = Owned

(* Every step keeps all of it, and does to the blocks what Abstractly      *)
(* says.                                                                   *)
LEMMA MpStep ==
    ASSUME TypeOK, NotCreated, Sized, LocksSeen, Adds,
           NEW f, NEW n, Chain(f, n), CountIs(n), Placed(Nodes(f, n)), [Next]_vars
    PROVE  /\ TypeOK' /\ NotCreated' /\ Sized' /\ LocksSeen' /\ Adds'
           /\ \E S : StackIs(S) /\ Placed(S)' /\ Abstractly(Nodes(f, n), S)
<1>1. CASE CreateFails \/ UNCHANGED vars
  <2>1. Alignment' = Alignment
    BY <1>1 DEF CreateFails, vars, geometry
  <2> QED
    BY <1>1, <2>1, FailStep DEF Abstractly
<1>2. ASSUME NEW k, NewPool(k)
      PROVE  /\ TypeOK' /\ NotCreated' /\ Sized' /\ LocksSeen' /\ Adds'
             /\ \E S : StackIs(S) /\ Placed(S)' /\ Abstractly(Nodes(f, n), S)
  <2>1. HeadNext = NULL
    BY <1>2 DEF NewPool, NotCreated
  <2>2. n = 0
    <3>1. n # 0 => n \in 1 .. n
      BY DEF Chain
    <3> QED
      BY <2>1, <3>1 DEF Chain
  <2>3. Nodes(f, n) = {}
    BY <2>2 DEF Nodes
  <2> QED
    BY <1>2, <2>3, NewStep DEF Abstractly
<1>3. ASSUME NEW t \in Tasks, TaskStep(t)
      PROVE  /\ TypeOK' /\ NotCreated' /\ Sized' /\ LocksSeen' /\ Adds'
             /\ \E S : StackIs(S) /\ Placed(S)' /\ Abstractly(Nodes(f, n), S)
  <2>1. TypeOK' /\ NotCreated' /\ Sized' /\ LocksSeen' /\ Adds' /\ Alignment' = Alignment
    BY <1>3, MpTyped, MpSized, MpLocks, MpAdds, TaskSteps DEF geometry
  <2>2. \E S : StackIs(S) /\ Placed(S)' /\ Abstractly(Nodes(f, n), S)
    <3>1. CASE Quiet(t)
      BY <2>1, <3>1, QuietStep DEF Abstractly
    <3>2. CASE RemoveNode(t)
      <4>1. PICK b : b = temp[t]
        OBVIOUS
      <4>2. /\ b \in Nodes(f, n) /\ Owned' = Owned \cup {b}
            /\ StackIs(Nodes(f, n) \ {b}) /\ Placed(Nodes(f, n) \ {b})'
        BY <3>2, <4>1, PopStep
      <4> QED
        BY <2>1, <4>2 DEF Abstractly
    <3>3. CASE \E p \in out : MemoryPoolFree(t, p)
      BY <2>1, <3>3, FreeStep DEF Abstractly
    <3>4. CASE FreePush(t)
      <4>1. PICK b : b = ptr[t]
        OBVIOUS
      <4>2. /\ b \in Owned /\ Owned' = Owned \ {b}
            /\ StackIs(Nodes(f, n) \cup {b}) /\ Placed(Nodes(f, n) \cup {b})'
        BY <3>4, <4>1, PushStep
      <4> QED
        BY <2>1, <4>2 DEF Abstractly
    <3>5. CASE \E k, first : Extend(t, k, first)
      BY <2>1, <3>5, ExtendStep DEF Abstractly
    <3>6. CASE AddPush(t)
      <4>1. PICK b : b = ptr[t]
        OBVIOUS
      <4>2. /\ b \in Nat /\ b \notin Nodes(f, n) \cup Owned /\ Owned' = Owned
            /\ StackIs(Nodes(f, n) \cup {b}) /\ Placed(Nodes(f, n) \cup {b})'
        BY <3>6, <4>1, AddStep
      <4> QED
        BY <2>1, <4>2 DEF Abstractly
    <3> QED
      BY <1>3, <3>1, <3>2, <3>3, <3>4, <3>5, <3>6 DEF TaskStep
  <2> QED
    BY <2>1, <2>2
<1> QED
  BY <1>1, <1>2, <1>3, MpSteps

(* The invariant is inductive.                                             *)
LEMMA MpNextInv == MpInv /\ [Next]_vars => MpInv'
<1> SUFFICES ASSUME MpInv, [Next]_vars PROVE MpInv'
  OBVIOUS
<1>1. PICK f, n : Chain(f, n) /\ CountIs(n) /\ Placed(Nodes(f, n))
  BY DEF MpInv
<1>2. TypeOK /\ NotCreated /\ Sized /\ LocksSeen /\ Adds
  BY DEF MpInv
<1>3. /\ TypeOK' /\ NotCreated' /\ Sized' /\ LocksSeen' /\ Adds'
      /\ \E S : StackIs(S) /\ Placed(S)' /\ Abstractly(Nodes(f, n), S)
  BY <1>1, <1>2, MpStep
<1>4. PICK S : StackIs(S) /\ Placed(S)'
  BY <1>3
<1>5. PICK g, m : Chain(g, m)' /\ CountIs(m)' /\ Nodes(g, m) = S
  BY <1>4 DEF StackIs
<1>6. Placed(Nodes(g, m))'
  BY <1>4, <1>5
<1> QED
  BY <1>3, <1>5, <1>6 DEF MpInv

-----------------------------------------------------------------------------
(* What it says.                                                           *)

(* What the invariant says of the payloads: each is inside of its own      *)
(* block, behind the SlNode_t.                                             *)
LEMMA SafePayloads == MpInv => PayloadsDisjoint
<1> SUFFICES ASSUME MpInv, NEW p \in out
             PROVE  /\ \E g \in given : Bytes(p, request) \subseteq Bytes(g[1], g[2])
                    /\ \A q \in out \ {p} : Bytes(p, request) \cap Bytes(q, request) = {}
                    /\ \A b \in OnStack \cup Owned : Bytes(p, request) \cap Bytes(b, PtrSize) = {}
  BY DEF PayloadsDisjoint
<1>1. TypeOK /\ NotCreated /\ Sized
  BY DEF MpInv
<1>2. PICK f, n : Chain(f, n) /\ Placed(Nodes(f, n))
  BY DEF MpInv
<1>3. OnStack \cup Owned \subseteq Blocks /\ \A q \in out : q - Alignment \in Blocks /\ q \in Nat
  <2>1. OnStack = Nodes(f, n)
    BY <1>1, <1>2, OnStackIsNodes
  <2>2. OnStack \cup Owned \subseteq Blocks
    BY <1>2, <2>1 DEF Placed
  <2> QED
    BY <1>1, <1>2, <2>2, Located, Numbers
<1>4. /\ PtrSize \in Nat \ {0} /\ request \in Nat /\ ItemSize \in Nat /\ Alignment \in Nat
      /\ request >= 1 /\ PtrSize <= Alignment /\ Alignment + request <= ItemSize
  <2>1. pool = "ready"
    BY <1>1, <1>3, BlocksApart
  <2> QED
    BY <1>1, <2>1, Numbers DEF Sized
<1>5. /\ \A b \in Blocks : b \in Nat /\ \E g \in given : g[1] <= b /\ b + ItemSize <= g[1] + g[2]
      /\ \A b, c \in Blocks : b = c \/ b + ItemSize <= c \/ c + ItemSize <= b
  BY <1>1, BlocksApart
<1>6. PICK c \in Blocks : c \in Nat /\ p = c + Alignment
  <2>1. p - Alignment \in Blocks /\ p - Alignment \in Nat /\ p = (p - Alignment) + Alignment
    BY <1>3, <1>4, <1>5
  <2> QED
    BY <2>1
<1>7. \E g \in given : Bytes(p, request) \subseteq Bytes(g[1], g[2])
  <2>1. PICK g \in given : g[1] <= c /\ c + ItemSize <= g[1] + g[2]
    BY <1>5, <1>6
  <2>2. g[1] \in Nat /\ g[2] \in Nat
    BY <1>1, Numbers
  <2>3. \A x \in Bytes(p, request) : x \in Bytes(g[1], g[2])
    BY <1>4, <1>6, <2>1, <2>2 DEF Bytes
  <2> QED
    BY <2>3
<1>8. ASSUME NEW q \in out \ {p} PROVE Bytes(p, request) \cap Bytes(q, request) = {}
  <2>1. PICK d \in Blocks : d \in Nat /\ q = d + Alignment
    <3>1. q - Alignment \in Blocks /\ q - Alignment \in Nat /\ q = (q - Alignment) + Alignment
      BY <1>3, <1>4, <1>5
    <3> QED
      BY <3>1
  <2>2. c + ItemSize <= d \/ d + ItemSize <= c
    BY <1>5, <1>6, <1>8, <2>1
  <2>3. \A x \in Bytes(p, request) : x \notin Bytes(q, request)
    BY <1>4, <1>6, <2>1, <2>2 DEF Bytes
  <2> QED
    BY <2>3
<1>9. ASSUME NEW b \in OnStack \cup Owned PROVE Bytes(p, request) \cap Bytes(b, PtrSize) = {}
  <2>1. b \in Nat /\ (c = b \/ c + ItemSize <= b \/ b + ItemSize <= c)
    BY <1>3, <1>5, <1>6
  <2>2. \A x \in Bytes(p, request) : x \notin Bytes(b, PtrSize)
    BY <1>4, <1>6, <2>1 DEF Bytes
  <2> QED
    BY <2>2
<1> QED
  BY <1>7, <1>8, <1>9

(* The blocks in hand are as many as the pointers the users have and the   *)
(* frees under way.                                                        *)
LEMMA OwnedCounted ==
    ASSUME TypeOK, NotCreated, Sized, NEW S, Placed(S)
    PROVE  Cardinality(Owned) = Cardinality(out) + Cardinality(Freeing)
<1>1. IsFiniteSet(Addresses)
  <2>1. 0 \in Int /\ MemorySize \in Int
    BY MemPoolAssumption
  <2> QED
    BY <2>1, FS_Interval DEF Addresses
<1>2. IsFiniteSet(out)
  BY <1>1, FS_Subset DEF TypeOK
<1>3. IsFiniteSet(UsedBlocks) /\ Cardinality(UsedBlocks) = Cardinality(out)
  <2> DEFINE h == [p \in out |-> p - Alignment]
  <2>1. \A p, q \in out : p - Alignment = q - Alignment => p = q
    BY Numbers
  <2>2. h \in Injection(out, UsedBlocks)
    BY <2>1 DEF UsedBlocks, Injection, IsInjective
  <2>3. h \in Surjection(out, UsedBlocks)
    BY DEF UsedBlocks, Surjection
  <2>4. ExistsBijection(out, UsedBlocks)
    BY <2>2, <2>3 DEF ExistsBijection, Bijection
  <2> QED
    BY <1>2, <2>4, FS_Bijection
<1>4. /\ IsFiniteSet(FreedBlocks) /\ IsFiniteSet(Freeing)
      /\ Cardinality(FreedBlocks) = Cardinality(Freeing)
  <2> DEFINE h == [t \in Freeing |-> ptr[t]]
  <2>1. \A t, u \in Freeing : ptr[t] = ptr[u] => t = u
    BY DEF Placed
  <2>2. h \in Injection(Freeing, FreedBlocks)
    BY <2>1 DEF FreedBlocks, Injection, IsInjective
  <2>3. h \in Surjection(Freeing, FreedBlocks)
    BY DEF FreedBlocks, Surjection
  <2>4. FreedBlocks \subseteq Addresses
    BY Located, BlocksApart DEF FreedBlocks
  <2>5. IsFiniteSet(FreedBlocks)
    BY <1>1, <2>4, FS_Subset
  <2> HIDE DEF h
  <2>6. IsFiniteSet(Freeing)
    BY <2>2, <2>5, FS_Injection
  <2>7. ExistsBijection(Freeing, FreedBlocks)
    BY <2>2, <2>3 DEF ExistsBijection, Bijection
  <2> QED
    BY <2>5, <2>6, <2>7, FS_Bijection
<1>5. Owned = UsedBlocks \cup FreedBlocks /\ UsedBlocks \cap FreedBlocks = {}
  BY DEF Owned, UsedBlocks, FreedBlocks, Placed
<1>6. Cardinality(out) \in Nat /\ Cardinality(Freeing) \in Nat
  BY <1>2, <1>4, FS_CardinalityType
<1>7. Cardinality(Owned) = Cardinality(UsedBlocks) + Cardinality(FreedBlocks) - 0
  BY <1>3, <1>4, <1>5, FS_Union, FS_EmptySet
<1> QED
  BY <1>3, <1>4, <1>6, <1>7

(* What the invariant says of the blocks.                                  *)
LEMMA SafeBlocks == MpInv => BlocksConserved
<1> SUFFICES ASSUME MpInv PROVE BlocksConserved
  OBVIOUS
<1>1. TypeOK /\ NotCreated /\ Sized /\ LocksSeen
  BY DEF MpInv
<1>2. PICK f, n : Chain(f, n) /\ CountIs(n) /\ Placed(Nodes(f, n))
  BY DEF MpInv
<1>3. OnStack = Nodes(f, n) /\ Walk[Deepest] = NULL
  BY <1>1, <1>2, OnStackIsNodes
<1>4. Lock = NoTask => Cardinality(OnStack) = Count
  <2>1. Lock = NoTask => \A t \in Tasks : pc[t] # "a_unlink"
    BY <1>1, MemPoolAssumption DEF LocksSeen, UnderLock
  <2> QED
    BY <1>2, <1>3, <2>1, NodesCounted DEF CountIs
<1>5. Cardinality(Owned) = Cardinality(out) + Cardinality(Freeing)
  BY <1>1, <1>2, OwnedCounted
<1>6. /\ OnStack \cup Owned \cup UNION {Coming(t) : t \in Tasks} = Blocks
      /\ OnStack \cap Owned = {}
      /\ \A t \in Tasks : Coming(t) \cap (OnStack \cup Owned) = {}
  BY <1>2, <1>3 DEF Placed
<1>7. (OnStack \cup Owned) \cap UNION {Coming(t) : t \in Tasks} = {}
  BY <1>6
<1> QED
  BY <1>3, <1>4, <1>5, <1>6, <1>7 DEF BlocksConserved

Surveyed ==
    \A f, n : TypeOK /\ NotCreated /\ Sized /\ Chain(f, n) /\ Placed(Nodes(f, n))
                 => OnStack = Nodes(f, n)

(* What the walk down the stack finds, in every state.                     *)
LEMMA StackSurveyed == Surveyed
BY OnStackIsNodes DEF Surveyed

(* The items in blocks: the users' part of each.                            *)
ItemsOf(S, a) == {b + a : b \in S}

(* A block more or less is an item more or less.                           *)
LEMMA ItemsOfBlocks ==
    ASSUME NEW a \in Nat, NEW S \in SUBSET Nat, NEW b \in Nat
    PROVE  /\ ItemsOf(S \ {b}, a) = ItemsOf(S, a) \ {b + a}
           /\ ItemsOf(S \cup {b}, a) = ItemsOf(S, a) \cup {b + a}
           /\ b + a \in ItemsOf(S, a) <=> b \in S
<1>1. \A c \in S : c + a = b + a => c = b
  OBVIOUS
<1> QED
  BY <1>1 DEF ItemsOf

(* A step of the pool is a step of the abstract pool, or none.             *)
LEMMA MpPromise ==
    ASSUME MpInv, Surveyed, Surveyed', [Next]_vars
    PROVE  [Abstract!Next]_<<{b + Alignment : b \in OnStack}, {b + Alignment : b \in Owned}>>
<1>1. TypeOK /\ NotCreated /\ Sized /\ LocksSeen /\ Adds
  BY DEF MpInv
<1>2. PICK f, n : Chain(f, n) /\ CountIs(n) /\ Placed(Nodes(f, n))
  BY DEF MpInv
<1>3. /\ TypeOK' /\ NotCreated' /\ Sized'
      /\ \E S : StackIs(S) /\ Placed(S)' /\ Abstractly(Nodes(f, n), S)
  BY <1>1, <1>2, MpStep
<1>4. PICK T : StackIs(T) /\ Placed(T)' /\ Abstractly(Nodes(f, n), T)
  BY <1>3
<1>5. PICK g, m : Chain(g, m)' /\ Nodes(g, m) = T
  BY <1>4 DEF StackIs
<1>6. OnStack = Nodes(f, n)
  BY <1>1, <1>2 DEF Surveyed
<1>7. OnStack' = T
  <2>1. Placed(Nodes(g, m))'
    BY <1>4, <1>5
  <2>2. OnStack' = Nodes(g, m)
    BY <1>3, <1>5, <2>1 DEF Surveyed
  <2> QED
    BY <1>5, <2>2
<1>8. OnStack \cup Owned \subseteq Blocks /\ Alignment \in Nat /\ \A b \in Blocks : b \in Nat
  <2>1. OnStack \cup Owned \subseteq Blocks
    BY <1>2, <1>6 DEF Placed
  <2> QED
    BY <1>1, <2>1, BlocksApart, Numbers
<1>9. Abstractly(OnStack, OnStack')
  BY <1>4, <1>6, <1>7
<1> DEFINE free  == {b + Alignment : b \in OnStack}
           users == {b + Alignment : b \in Owned}
<1>10. /\ free = ItemsOf(OnStack, Alignment) /\ free' = ItemsOf(OnStack', Alignment')
      /\ users = ItemsOf(Owned, Alignment) /\ users' = ItemsOf(Owned', Alignment')
  BY DEF ItemsOf
<1>11. CASE OnStack' = OnStack /\ Owned' = Owned /\ Alignment' = Alignment
  BY <1>11
<1>12. CASE OnStack = {} /\ Owned = {} /\ Owned' = {}
  <2>1. free = {} /\ users = {} /\ users' = {}
    BY <1>12
  <2> HIDE DEF free, users
  <2>2. /\ (free' \ free) \cap (free \cup users) = {}
        /\ free' = free \cup (free' \ free) /\ users' = users
    BY <2>1
  <2> QED
    BY <2>2 DEF Abstract!Next, Abstract!Grow, free, users
<1>13. ASSUME Alignment' = Alignment, NEW b \in OnStack,
              OnStack' = OnStack \ {b}, Owned' = Owned \cup {b}
       PROVE  Abstract!Next
  <2> DEFINE p == b + Alignment
  <2>1. p \in free /\ free' = free \ {p} /\ users' = users \cup {p}
    <3>1. b \in Nat /\ OnStack \in SUBSET Nat /\ Owned \in SUBSET Nat
      BY <1>8, <1>13
    <3> DEFINE stacked == ItemsOf(OnStack, Alignment)
               inHand   == ItemsOf(Owned, Alignment)
    <3>2. /\ ItemsOf(OnStack \ {b}, Alignment) = stacked \ {p}
          /\ ItemsOf(OnStack \cup {b}, Alignment) = stacked \cup {p}
          /\ p \in stacked <=> b \in OnStack
      BY <1>8, <3>1, ItemsOfBlocks
    <3>3. /\ ItemsOf(Owned \ {b}, Alignment) = inHand \ {p}
          /\ ItemsOf(Owned \cup {b}, Alignment) = inHand \cup {p}
          /\ p \in inHand <=> b \in Owned
      BY <1>8, <3>1, ItemsOfBlocks
    <3> HIDE DEF free, users, p
    <3> QED
      BY <1>10, <1>13, <3>2, <3>3
  <2> HIDE DEF p
  <2> QED
    BY <2>1 DEF Abstract!Next, Abstract!Allocate
<1>14. ASSUME Alignment' = Alignment, NEW b \in Owned,
              OnStack' = OnStack \cup {b}, Owned' = Owned \ {b}
       PROVE  Abstract!Next
  <2> DEFINE p == b + Alignment
  <2>1. p \in users /\ users' = users \ {p} /\ free' = free \cup {p}
    <3>1. b \in Nat /\ OnStack \in SUBSET Nat /\ Owned \in SUBSET Nat
      BY <1>8, <1>14
    <3> DEFINE stacked == ItemsOf(OnStack, Alignment)
               inHand   == ItemsOf(Owned, Alignment)
    <3>2. /\ ItemsOf(OnStack \ {b}, Alignment) = stacked \ {p}
          /\ ItemsOf(OnStack \cup {b}, Alignment) = stacked \cup {p}
          /\ p \in stacked <=> b \in OnStack
      BY <1>8, <3>1, ItemsOfBlocks
    <3>3. /\ ItemsOf(Owned \ {b}, Alignment) = inHand \ {p}
          /\ ItemsOf(Owned \cup {b}, Alignment) = inHand \cup {p}
          /\ p \in inHand <=> b \in Owned
      BY <1>8, <3>1, ItemsOfBlocks
    <3> HIDE DEF free, users, p
    <3> QED
      BY <1>10, <1>14, <3>2, <3>3
  <2> HIDE DEF p
  <2> QED
    BY <2>1 DEF Abstract!Next, Abstract!Free
<1>15. ASSUME Alignment' = Alignment, NEW b \in Nat, b \notin OnStack \cup Owned,
              OnStack' = OnStack \cup {b}, Owned' = Owned
       PROVE  Abstract!Next
  <2> DEFINE p == b + Alignment
  <2>1. p \notin free \cup users /\ free' = free \cup {p} /\ users' = users
    <3>1. OnStack \in SUBSET Nat /\ Owned \in SUBSET Nat
      BY <1>8
    <3> DEFINE stacked == ItemsOf(OnStack, Alignment)
               inHand   == ItemsOf(Owned, Alignment)
    <3>2. /\ ItemsOf(OnStack \cup {b}, Alignment) = stacked \cup {p}
          /\ p \in stacked <=> b \in OnStack
      BY <1>8, <3>1, ItemsOfBlocks
    <3>3. p \in inHand <=> b \in Owned
      BY <1>8, <3>1, ItemsOfBlocks
    <3> HIDE DEF free, users, p
    <3> QED
      BY <1>10, <1>15, <3>2, <3>3
  <2> HIDE DEF p, free, users
  <2>2. /\ (free' \ free) \cap (free \cup users) = {}
        /\ free' = free \cup (free' \ free) /\ users' = users
    BY <2>1
  <2> QED
    BY <2>2 DEF Abstract!Next, Abstract!Grow, free, users
<1> QED
  BY <1>9, <1>11, <1>12, <1>13, <1>14, <1>15 DEF Abstractly

(* The invariant holds.                                                    *)
LEMMA MpInvariant == Spec => []MpInv
BY MpInitInv, MpNextInv, PTL DEF Spec

-----------------------------------------------------------------------------
(* Theorems.                                                               *)

(* Every variable of the C memory pool keeps its type: Count never goes    *)
(* below 0, and no pointer leaves memory, whatever the tasks, sizes and    *)
(* alignments.                                                             *)
THEOREM BlocksTyped == Spec => []TypeOK
<1>1. MpInv => TypeOK
  BY DEF MpInv
<1> QED
  BY <1>1, MpInvariant, PTL

(* Calls of MemoryPoolAllocate, MemoryPoolFree and AddExtraMemoryToPool    *)
(* that overlap lose no block and hand none out twice, and Count is the    *)
(* length of the stack whenever Lock is free.                              *)
THEOREM BlocksAccounted == Spec => []BlocksConserved
BY MpInvariant, SafeBlocks, PTL

(* The bytes a user asked for are its alone: they are inside of the memory *)
(* of the pool, no other user's, and no Next pointer of any block, at      *)
(* every item size and alignment.                                          *)
THEOREM PayloadsSafe == Spec => []PayloadsDisjoint
BY MpInvariant, SafePayloads, PTL

(* The stack of blocks keeps the promises of the abstract pool: an         *)
(* allocation returns an item that was free, and a call that fails changes *)
(* nothing.                                                                *)
THEOREM BlocksImplementMemoryPool == Spec => ImplementsMemoryPool
<1>1. ASSUME Init, Surveyed PROVE Abstract!Init
  <2>1. MpInv
    BY <1>1, MpInitInv
  <2>2. PICK f, n : Chain(f, n) /\ Placed(Nodes(f, n))
    BY <2>1 DEF MpInv
  <2>3. TypeOK /\ NotCreated /\ Sized
    BY <2>1 DEF MpInv
  <2>4. OnStack = Nodes(f, n)
    BY <1>1, <2>3, <2>2 DEF Surveyed
  <2>5. OnStack \subseteq Blocks
    BY <2>2, <2>4 DEF Placed
  <2>6. OnStack = {} /\ Owned = {}
    BY <1>1, <2>5 DEF Init, Blocks, Owned, Freeing
  <2> QED
    BY <2>6 DEF Abstract!Init
<1>2. MpInv /\ Surveyed /\ Surveyed' /\ [Next]_vars
         => [Abstract!Next]_<<{b + Alignment : b \in OnStack}, {b + Alignment : b \in Owned}>>
  BY MpPromise
<1>3. Init /\ Surveyed => Abstract!Init
  BY <1>1
<1> QED
  BY <1>2, <1>3, StackSurveyed, MpInvariant, PTL DEF Spec, ImplementsMemoryPool, Abstract!Spec

=============================================================================
