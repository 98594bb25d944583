-------------------------- MODULE FreeRTOSSemaphore --------------------------
(***************************************************************************)
(* The FreeRTOS kernel semaphores, as the code of this repository uses     *)
(* them.  The kernel itself is not part of the repository.                 *)
(*                                                                         *)
(* A binary semaphore is its count, 0 or 1.  A mutex is its holder, or     *)
(* NoTask.  A take with portMAX_DELAY waits in the kernel until the        *)
(* semaphore is available: it is an action that is disabled meanwhile.     *)
(* The kernel hands nothing over: a waiter that is woken competes again    *)
(* with every other task, so any of them may be the one that takes.        *)
(***************************************************************************)
EXTENDS Naturals

CONSTANT NoTask     \* the holder of a free mutex

(* xSemaphoreTake of a binary semaphore, portMAX_DELAY.                    *)
Take(sem) == sem = 1 /\ sem' = 0

(* xSemaphoreGive of a binary semaphore.  When the count is already 1 the  *)
(* kernel answers pdFAIL, the code ignores it, and nothing changes.        *)
Give(sem) == sem' = 1

(* xSemaphoreTake of a mutex by task t, portMAX_DELAY.                     *)
TakeMutex(mutex, t) == mutex = NoTask /\ mutex' = t

(* xSemaphoreGive of a mutex.  The kernel asserts that the caller is the   *)
(* holder; that it always is, is a property of the modules that give.      *)
GiveMutex(mutex) == mutex' = NoTask

=============================================================================
