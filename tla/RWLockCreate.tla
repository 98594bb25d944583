---------------------------- MODULE RWLockCreate ----------------------------
(***************************************************************************)
(* Creation and deletion of the reader/writer locks of read_write_lock.c:  *)
(* CreateReadWriteLockPreferReader, CreateReadWriteLockPreferWriter and    *)
(* FreeReadWriteLock.  malloc, and any of the semaphores, may fail.        *)
(***************************************************************************)
EXTENDS Naturals, Sequences, SequencesExt

VARIABLES
    Type,           \* of the lock
    asserts,        \* is configASSERT defined in this build?
    stage,          \* where the calls are
    step,           \* the next semaphore to be created or cleaned up
    struct,         \* is the memory of the lock allocated?
    semaphore,      \* what became of each semaphore
    handle_         \* what the creation returned

rwcVars == <<Type, asserts, stage, step, struct, semaphore, handle_>>

(* In the order in which they are created, and deleted.                    *)
Order(type) ==
    IF type = "RwPreferReader" THEN <<"ReadLock", "ResourceLock">>
    ELSE <<"ReadLock", "WriteLock", "ResourceLock", "BlockReadersLock">>

Fields  == ToSet(Order("RwPreferWriter"))
Steps   == DOMAIN Order(Type)
Current == Order(Type)[step]

RwcTypeOK ==
    /\ Type \in {"RwPreferReader", "RwPreferWriter"}
    /\ asserts \in BOOLEAN
    /\ stage \in {"malloc", "create", "error", "done", "freed", "halted"}
    /\ step \in 1 .. Len(Order(Type)) + 1
    /\ struct \in BOOLEAN
    /\ semaphore \in [Fields -> {"unset", "NULL", "full", "deleted"}]
    /\ handle_ \in {"none", "NULL", "lock"}

RwcInit ==
    /\ Type \in {"RwPreferReader", "RwPreferWriter"}
    /\ asserts \in BOOLEAN
    /\ stage = "malloc" /\ step = 1 /\ struct = FALSE /\ handle_ = "none"
    /\ semaphore = [f \in Fields |-> "unset"]

MallocFails ==
    /\ stage = "malloc" /\ stage' = "done"
    /\ handle_' = "NULL"
    /\ UNCHANGED <<Type, asserts, step, struct, semaphore>>

(* "Preload these with NULLs to allow simplified error handling."          *)
Malloc ==
    /\ stage = "malloc" /\ stage' = "create"
    /\ struct' = TRUE
    /\ semaphore' = [f \in Fields |-> IF f \in ToSet(Order(Type)) THEN "NULL" ELSE "unset"]
    /\ UNCHANGED <<Type, asserts, step, handle_>>

(* A mutex is created full, a binary semaphore empty, and then given.      *)
CreateSemaphore ==
    /\ stage = "create" /\ step \in Steps
    /\ semaphore' = [semaphore EXCEPT ![Current] = "full"]
    /\ step' = step + 1
    /\ UNCHANGED <<Type, asserts, stage, struct, handle_>>

CreateSemaphoreFails ==
    /\ stage = "create" /\ step \in Steps
    /\ stage' = "error" /\ step' = 1
    /\ UNCHANGED <<Type, asserts, struct, semaphore, handle_>>

CreateReturns ==
    /\ stage = "create" /\ step \notin Steps
    /\ stage' = "done" /\ handle_' = "lock"
    /\ UNCHANGED <<Type, asserts, step, struct, semaphore>>

(* The cleanup deletes the semaphores that are NULL, not the others.  At   *)
(* vSemaphoreDelete(NULL) a configASSERT of the kernel stops the program;  *)
(* without asserts that is undefined, and it may stop or go on.            *)
Cleanup ==
    /\ stage = "error" /\ step \in Steps
    /\ asserts => semaphore[Current] # "NULL"
    /\ step' = step + 1
    /\ UNCHANGED <<Type, asserts, stage, struct, semaphore, handle_>>

CleanupHalts ==
    /\ stage = "error" /\ step \in Steps
    /\ semaphore[Current] = "NULL"
    /\ stage' = "halted"
    /\ UNCHANGED <<Type, asserts, step, struct, semaphore, handle_>>

CleanupReturns ==
    /\ stage = "error" /\ step \notin Steps
    /\ stage' = "done" /\ handle_' = "NULL"
    /\ struct' = FALSE
    /\ UNCHANGED <<Type, asserts, step, semaphore>>

(* Mutant: only the semaphores both types have are deleted.                *)
FreeReadWriteLockAsReader ==
    /\ stage = "done" /\ handle_ = "lock" /\ stage' = "freed"
    /\ semaphore' = [f \in Fields |-> IF f \in {"ReadLock", "ResourceLock"}
                                      THEN "deleted" ELSE semaphore[f]]
    /\ struct' = FALSE
    /\ UNCHANGED <<Type, asserts, step, handle_>>

FreeReadWriteLock ==
    /\ stage = "done" /\ handle_ = "lock" /\ stage' = "freed"
    /\ semaphore' = [f \in Fields |-> IF f \in ToSet(Order(Type)) THEN "deleted" ELSE semaphore[f]]
    /\ struct' = FALSE
    /\ UNCHANGED <<Type, asserts, step, handle_>>

RwcNext ==
    \/ Malloc \/ MallocFails
    \/ CreateSemaphore \/ CreateSemaphoreFails \/ CreateReturns
    \/ Cleanup \/ CleanupHalts \/ CleanupReturns \/ FreeReadWriteLock

RwcSpec == RwcInit /\ [][RwcNext]_rwcVars

-----------------------------------------------------------------------------
(* Properties *)

Existing == {f \in Fields : semaphore[f] = "full"}

(* Whichever of the allocations fails: a lock that is returned has all of  *)
(* its semaphores, full, which is where RWLockPreferReader and             *)
(* RWLockPreferWriter begin, and nothing is left of it when it is freed;   *)
(* a creation that returns NULL has not leaked the structure, and, where   *)
(* asserts are on, no semaphore.  (Without them it may, since the cleanup  *)
(* tests the wrong way round; with them it never returns.)                 *)
CreationAllOrNothing ==
    /\ stage = "done" /\ handle_ = "lock" =>
          struct /\ \A f \in ToSet(Order(Type)) : semaphore[f] = "full"
    /\ stage = "freed" => ~struct /\ Existing = {}
    /\ stage = "done" /\ handle_ = "NULL" => ~struct /\ (asserts => Existing = {})

=============================================================================
