------------------------------- MODULE Lists -------------------------------
(***************************************************************************)
(* The intrusive lists of the C library, slist.c and dlist.c, and the      *)
(* stack and the queue over them, stack_simple.c and queue_simple.c, at    *)
(* the level of the pointers in the nodes.  Nothing in them is protected:  *)
(* whoever shares one calls under a lock of his own, so each call is one   *)
(* step.  An slist ends in NULL, a dlist is a ring through its head.       *)
(***************************************************************************)
EXTENDS Naturals, FiniteSets

CONSTANTS
    Nodes,      \* the nodes there are
    ListHead,   \* the head, a node that is no element
    NULL

Cells == Nodes \cup {ListHead}

ASSUME ListsAssumption == IsFiniteSet(Nodes) /\ ListHead \notin Nodes /\ NULL \notin Cells

VARIABLES
    kind,       \* which of the four it is
    Next_,      \* the Next and the Prev pointer of each node
    Prev_,
    Count,      \* of a stack or a queue
    call        \* history: the last call and what it returned

listVars == <<kind, Next_, Prev_, Count, call>>

ListTypeOK ==
    /\ kind \in {"slist", "stack", "dlist", "queue"}
    /\ Next_ \in [Cells -> Cells \cup {NULL}]
    /\ Prev_ \in [Cells -> Cells \cup {NULL}]
    /\ Count \in 0 .. Cardinality(Nodes)

(* SlInitHead, DlInitHead, InitStack, InitQueue.  The pointers of a node   *)
(* that was never on a list are whatever its memory holds.                 *)
ListInit ==
    /\ kind \in {"slist", "stack", "dlist", "queue"}
    /\ \E junk \in Nodes \cup {NULL} :
          LET end == IF kind \in {"slist", "stack"} THEN NULL ELSE ListHead
          IN  /\ Next_ = [c \in Cells |-> IF c = ListHead THEN end ELSE junk]
              /\ Prev_ = [c \in Cells |-> IF c = ListHead THEN end ELSE junk]
    /\ Count = 0
    /\ call = <<>>

(* The nodes met on the way from the head, as far as there are any: up to  *)
(* NULL, or to the head again.                                             *)
Walk[n \in Nat] ==
    IF n = 0 THEN ListHead
    ELSE IF n > 1 /\ Walk[n - 1] \notin Nodes THEN NULL ELSE Next_[Walk[n - 1]]

Elements == {n \in 1 .. Cardinality(Nodes) + 1 : \A m \in 1 .. n : Walk[m] \in Nodes}
Listed   == {Walk[n] : n \in Elements}

-----------------------------------------------------------------------------
(* slist.c: the loops look for the last node, or for the one before a node *)

LastNode == Walk[Cardinality(Elements)]
Prior(n) == CHOOSE c \in Listed \cup {ListHead} : Next_[c] = n

SlInsertNodeAfter(marker, n) ==
    Next_' = [Next_ EXCEPT ![marker] = n, ![n] = Next_[marker]]

SlAddNodeToTail(n) == Next_' = [Next_ EXCEPT ![LastNode] = n, ![n] = NULL]

(* A marker that is not on the list is not found, and nothing changes.     *)
SlInsertNodeBefore(marker, n) == Next_' = [Next_ EXCEPT ![Prior(marker)] = n, ![n] = marker]

SlRemoveNode(n) ==
    IF n \in Listed THEN Next_' = [Next_ EXCEPT ![Prior(n)] = Next_[n]]
    ELSE UNCHANGED Next_

(* Both return the node, or NULL.                                          *)
SlRemoveNodeFromHead(op) ==
    /\ call' = <<op, Next_[ListHead]>>
    /\ IF Next_[ListHead] = NULL THEN UNCHANGED Next_
       ELSE Next_' = [Next_ EXCEPT ![ListHead] = Next_[Next_[ListHead]]]

SlRemoveNodeFromTail(op) ==
    IF Next_[ListHead] = NULL THEN call' = <<op, NULL>> /\ UNCHANGED Next_
    ELSE /\ call' = <<op, LastNode>>
         /\ Next_' = [Next_ EXCEPT ![Prior(LastNode)] = NULL]

Slist ==
    /\ kind = "slist"
    /\ \/ \E n \in Nodes \ Listed :
             \/ SlInsertNodeAfter(ListHead, n) /\ call' = <<"AddNodeToHead", n>>
             \/ SlAddNodeToTail(n) /\ call' = <<"AddNodeToTail", n>>
             \/ \E m \in Listed :
                   \/ SlInsertNodeAfter(m, n) /\ call' = <<"InsertNodeAfter", m, n>>
                   \/ SlInsertNodeBefore(m, n) /\ call' = <<"InsertNodeBefore", m, n>>
       \/ \E n \in Nodes : SlRemoveNode(n) /\ call' = <<"RemoveNode", n>>
       \/ SlRemoveNodeFromHead("RemoveNodeFromHead")
       \/ SlRemoveNodeFromTail("RemoveNodeFromTail")
    /\ UNCHANGED <<kind, Prev_, Count>>

-----------------------------------------------------------------------------
(* dlist.c *)

DlInsertNodeAfter(marker, n) ==
    /\ Next_' = [Next_ EXCEPT ![n] = Next_[marker], ![marker] = n]
    /\ Prev_' = [Prev_ EXCEPT ![n] = marker, ![Next_[marker]] = n]

DlInsertNodeBefore(marker, n) == DlInsertNodeAfter(Prev_[marker], n)

DlRemoveNode(n) ==
    /\ Prev_' = [Prev_ EXCEPT ![Next_[n]] = Prev_[n]]
    /\ Next_' = [Next_ EXCEPT ![Prev_[n]] = Next_[n]]

(* The node at that end, or NULL.                                          *)
DlRemoveNodeFrom(op, end) ==
    IF Next_[ListHead] = ListHead THEN call' = <<op, NULL>> /\ UNCHANGED <<Next_, Prev_>>
    ELSE call' = <<op, end>> /\ DlRemoveNode(end)

Dlist ==
    /\ kind = "dlist"
    /\ \/ \E n \in Nodes \ Listed :
             \/ DlInsertNodeAfter(ListHead, n) /\ call' = <<"AddNodeToHead", n>>
             \/ DlInsertNodeAfter(Prev_[ListHead], n) /\ call' = <<"AddNodeToTail", n>>
             \/ \E m \in Listed :
                   \/ DlInsertNodeAfter(m, n) /\ call' = <<"InsertNodeAfter", m, n>>
                   \/ DlInsertNodeBefore(m, n) /\ call' = <<"InsertNodeBefore", m, n>>
       \/ \E n \in Listed : DlRemoveNode(n) /\ call' = <<"RemoveNode", n>>
       \/ DlRemoveNodeFrom("RemoveNodeFromHead", Next_[ListHead])
       \/ DlRemoveNodeFrom("RemoveNodeFromTail", Prev_[ListHead])
    /\ UNCHANGED <<kind, Count>>

-----------------------------------------------------------------------------
(* stack_simple.c and queue_simple.c *)

PushOnStack(n) == SlInsertNodeAfter(ListHead, n) /\ Count' = Count + 1 /\ call' = <<"Push", n>>

PopOffStack ==
    IF Count = 0 THEN call' = <<"Pop", NULL>> /\ UNCHANGED <<Next_, Count>>
    ELSE SlRemoveNodeFromHead("Pop") /\ Count' = Count - 1

Stack ==
    /\ kind = "stack"
    /\ (\E n \in Nodes \ Listed : PushOnStack(n)) \/ PopOffStack
    /\ UNCHANGED <<kind, Prev_>>

Enqueue(n) == DlInsertNodeAfter(ListHead, n) /\ Count' = Count + 1 /\ call' = <<"Enqueue", n>>

(* Mutant: it takes from the end where Enqueue adds.                       *)
DequeueFromHead ==
    IF Count = 0 THEN call' = <<"Dequeue", NULL>> /\ UNCHANGED <<Next_, Prev_, Count>>
    ELSE DlRemoveNodeFrom("Dequeue", Next_[ListHead]) /\ Count' = Count - 1

Dequeue ==
    IF Count = 0 THEN call' = <<"Dequeue", NULL>> /\ UNCHANGED <<Next_, Prev_, Count>>
    ELSE DlRemoveNodeFrom("Dequeue", Prev_[ListHead]) /\ Count' = Count - 1

Queue ==
    /\ kind = "queue"
    /\ (\E n \in Nodes \ Listed : Enqueue(n)) \/ Dequeue
    /\ UNCHANGED kind

ListNext == Slist \/ Dlist \/ Stack \/ Queue

ListSpec == ListInit /\ [][ListNext]_listVars

-----------------------------------------------------------------------------
(* Properties *)

Contents == [n \in Elements |-> Walk[n]]

Sequence == INSTANCE NodeList WITH list <- Contents

(* The pointers represent a sequence, and every operation, from either end *)
(* or at a marker, does and returns what it does on the sequence: whatever *)
(* was added, removed and added again before, and whatever the pointers of *)
(* a node held when it was added.  So a stack is LIFO and a queue FIFO.    *)
ListsImplementSequences == Sequence!Spec

=============================================================================
