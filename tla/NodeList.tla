------------------------------ MODULE NodeList ------------------------------
(***************************************************************************)
(* What slist.h, dlist.h, stack_simple.h and queue_simple.h promise: a     *)
(* sequence of nodes.  `call' is what a user sees of the last operation:   *)
(* its name, its arguments, and what it returned.                          *)
(***************************************************************************)
EXTENDS Sequences, SequencesExt

CONSTANTS Nodes, NULL

VARIABLES list, call

Init == list = <<>> /\ call = <<>>

(* A node that is added is on no list yet; a stack grows at its head, and  *)
(* so does a queue, which shrinks at its tail.                             *)
AddToHead(op, n) == list' = <<n>> \o list /\ call' = <<op, n>>
AddToTail(op, n) == list' = Append(list, n) /\ call' = <<op, n>>

InsertAfter(i, n)  == list' = InsertAt(list, i + 1, n) /\ call' = <<"InsertNodeAfter", list[i], n>>
InsertBefore(i, n) == list' = InsertAt(list, i, n) /\ call' = <<"InsertNodeBefore", list[i], n>>

(* A node that is not on the list is not removed.                          *)
RemoveIt(n) ==
    /\ call' = <<"RemoveNode", n>>
    /\ \/ n \notin ToSet(list) /\ list' = list
       \/ \E i \in DOMAIN list : list[i] = n /\ list' = RemoveAt(list, i)

(* The node is returned, or NULL if there is none.                         *)
TakeFromHead(op) ==
    \/ list # <<>> /\ list' = Tail(list) /\ call' = <<op, list[1]>>
    \/ list = <<>> /\ list' = list /\ call' = <<op, NULL>>

TakeFromTail(op) ==
    \/ list # <<>> /\ list' = Front(list) /\ call' = <<op, Last(list)>>
    \/ list = <<>> /\ list' = list /\ call' = <<op, NULL>>

Next ==
    \/ \E n \in Nodes \ ToSet(list) :
          \/ \E op \in {"AddNodeToHead", "Push", "Enqueue"} : AddToHead(op, n)
          \/ AddToTail("AddNodeToTail", n)
          \/ \E i \in DOMAIN list : InsertAfter(i, n) \/ InsertBefore(i, n)
    \/ \E n \in Nodes : RemoveIt(n)
    \/ \E op \in {"RemoveNodeFromHead", "Pop"} : TakeFromHead(op)
    \/ \E op \in {"RemoveNodeFromTail", "Dequeue"} : TakeFromTail(op)

Spec == Init /\ [][Next]_<<list, call>>

=============================================================================
