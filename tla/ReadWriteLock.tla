---------------------------- MODULE ReadWriteLock ----------------------------
(***************************************************************************)
(* What a reader/writer lock promises its users, whatever its policy: a    *)
(* task that has returned from WriterLock is alone with the resource until *)
(* it calls WriterUnlock, and tasks that have returned from ReaderLock     *)
(* only ever share it with other readers.                                  *)
(*                                                                         *)
(* `holds' is what each task holds, seen from outside: from the return of  *)
(* the Lock call to the invocation of the Unlock call.                     *)
(***************************************************************************)
CONSTANT Tasks

VARIABLE holds

TypeOK == holds \in [Tasks -> {"nothing", "read", "write"}]

Holders(kind) == {t \in Tasks : holds[t] = kind}

Init == holds = [t \in Tasks |-> "nothing"]

AcquireRead(t) ==
    /\ holds[t] = "nothing"
    /\ Holders("write") = {}
    /\ holds' = [holds EXCEPT ![t] = "read"]

AcquireWrite(t) ==
    /\ holds[t] = "nothing"
    /\ Holders("write") = {}
    /\ Holders("read") = {}
    /\ holds' = [holds EXCEPT ![t] = "write"]

Release(t) ==
    /\ holds[t] # "nothing"
    /\ holds' = [holds EXCEPT ![t] = "nothing"]

Next == \E t \in Tasks : AcquireRead(t) \/ AcquireWrite(t) \/ Release(t)

Spec == Init /\ [][Next]_holds

=============================================================================
