------------------------------ MODULE MCObjects ------------------------------
(* The components that share nothing, side by side: a behaviour is one of  *)
(* one of them, and the others keep a first state.                         *)
EXTENDS Lists, RWLockCreate, ZeroCopyQueue, CppMemoryPool, CppThread, TLC

VARIABLE system     \* the component this behaviour is of

vars == <<system, listVars, rwcVars, zcqVars, cmpVars, thVars>>

Init ==
    /\ system \in {"lists", "rwlock", "zcq", "pool", "thread"}
    /\ ListInit /\ RwcInit /\ ZcqInit /\ CmpInit /\ ThInit
    /\ system = "lists" \/ (kind = "slist" /\ \A n \in Nodes : Next_[n] = NULL)
    /\ system = "rwlock" \/ (Type = "RwPreferReader" /\ asserts)

Next ==
    /\ UNCHANGED system
    /\ \/ system = "lists" /\ ListNext /\ UNCHANGED <<rwcVars, zcqVars, cmpVars, thVars>>
       \/ system = "rwlock" /\ RwcNext /\ UNCHANGED <<listVars, zcqVars, cmpVars, thVars>>
       \/ system = "zcq" /\ ZcqNext /\ UNCHANGED <<listVars, rwcVars, cmpVars, thVars>>
       \/ system = "pool" /\ CmpNext /\ UNCHANGED <<listVars, rwcVars, zcqVars, thVars>>
       \/ system = "thread" /\ ThNext /\ UNCHANGED <<listVars, rwcVars, zcqVars, cmpVars>>

Spec == Init /\ [][Next]_vars

(* One type invariant for all of them.                                     *)
TypeOK == ListTypeOK /\ RwcTypeOK /\ ZcqTypeOK /\ CmpTypeOK /\ ThTypeOK

(* Threads are interchangeable, and so are callers.                        *)
Symmetry == Permutations(Objects) \cup Permutations(Callers \ {Main})

=============================================================================
