------------------------------- MODULE Tasklet -------------------------------
(***************************************************************************)
(* Tasklets, ctasklet.cpp: functions that the timer daemon is asked to     *)
(* run.  DtorLock is taken when a tasklet is scheduled and given after it  *)
(* has run, so that it is pending at most once, and a destructor can wait  *)
(* for it.                                                                 *)
(***************************************************************************)
EXTENDS TimerDaemon

VARIABLES
    DtorLock,   \* the binary semaphore of each tasklet
    tasklet     \* "alive", "dying" in its destructor, or "gone"

taskletVars == <<DtorLock, tasklet>>

(* The constructor creates DtorLock, and gives it.                         *)
TaskletInit ==
    /\ DtorLock = [k \in Tasklets |-> 1]
    /\ tasklet = [k \in Tasklets |-> "alive"]

(* xSemaphoreTake, which waits, and xSemaphoreGive.                        *)
TakeDtorLock(k) == DtorLock[k] = 1 /\ DtorLock' = [DtorLock EXCEPT ![k] = 0]
GiveDtorLock(k) == DtorLock' = [DtorLock EXCEPT ![k] = 1]

-----------------------------------------------------------------------------
(* Schedule: nobody calls it once the destructor was called.               *)

Schedule(c, k) ==
    /\ tasklet[k] = "alive"
    /\ Enter(c, "k_take", k)
    /\ UNCHANGED <<daemonVars, taskletVars>>

(* With portMAX_DELAY, whatever CmdTimeout is.                             *)
ScheduleTake(c) ==
    /\ Go(c, "k_take", "k_pend")
    /\ TakeDtorLock(arg[c])
    /\ UNCHANGED <<arg, daemonVars, tasklet>>

PendFunctionCall(c) ==
    /\ Return(c, "k_pend")
    /\ Send(<<"run", arg[c]>>)
    /\ UNCHANGED <<executing, active, taskletVars>>

(* CmdTimeout is over and there was no room.                               *)
PendTimesOut(c) ==
    /\ Full
    /\ Go(c, "k_pend", "k_back")
    /\ UNCHANGED <<arg, daemonVars, taskletVars>>

(* Mutant: DtorLock is not given back.                                     *)
ScheduleFailsKeepsLock(c) ==
    /\ Return(c, "k_back")
    /\ UNCHANGED <<daemonVars, taskletVars>>

ScheduleFails(c) ==
    /\ Return(c, "k_back")
    /\ GiveDtorLock(arg[c])
    /\ UNCHANGED <<daemonVars, tasklet>>

(* ScheduleFromISR takes DtorLock, or returns; it then sends, or gives     *)
(* DtorLock back if there is no room.  No task runs meanwhile.             *)
ScheduleFromISR(k) ==
    /\ tasklet[k] = "alive"
    /\ TakeDtorLock(k)
    /\ Send(<<"run", k>>)
    /\ UNCHANGED <<where, arg, executing, active, tasklet>>

ScheduleFromISRFails(k) ==
    /\ tasklet[k] = "alive"
    /\ DtorLock[k] = 1 /\ Full
    /\ LET taken == [DtorLock EXCEPT ![k] = 0]
       IN  DtorLock' = [taken EXCEPT ![k] = 1]
    /\ UNCHANGED <<where, arg, daemonVars, tasklet>>

-----------------------------------------------------------------------------
(* TaskletAdapterFunction: Run, and then the give *)

PendedReturns ==
    /\ where[Daemon] = "out" /\ executing \in {"run"} \X Tasklets
    /\ executing' = <<"give", executing[2]>>
    /\ UNCHANGED <<where, arg, commands, active, taskletVars>>

AdapterGives ==
    /\ executing \in {"give"} \X Tasklets
    /\ executing' = None
    /\ GiveDtorLock(executing[2])
    /\ UNCHANGED <<where, arg, commands, active, tasklet>>

-----------------------------------------------------------------------------
(* A destructor: CheckForSafeDelete, which a derived one has to call *)

DestroyTasklet(c, k) ==
    /\ tasklet[k] = "alive"
    /\ \A d \in Contexts : arg[d] # k
    /\ Enter(c, "d_take", k)
    /\ tasklet' = [tasklet EXCEPT ![k] = "dying"]
    /\ UNCHANGED <<daemonVars, DtorLock>>

(* Mutant: it does not wait.                                               *)
CheckForSafeDeleteNot(c) ==
    /\ Go(c, "d_take", "d_delete")
    /\ UNCHANGED <<arg, daemonVars, taskletVars>>

CheckForSafeDelete(c) ==
    /\ Go(c, "d_take", "d_delete")
    /\ TakeDtorLock(arg[c])
    /\ UNCHANGED <<arg, daemonVars, tasklet>>

(* vSemaphoreDelete, and the memory is freed.                              *)
TaskletGone(c) ==
    /\ Return(c, "d_delete")
    /\ tasklet' = [tasklet EXCEPT ![arg[c]] = "gone"]
    /\ UNCHANGED <<daemonVars, DtorLock>>

TaskletStep(c) ==
    \/ ScheduleTake(c) \/ PendFunctionCall(c) \/ ScheduleFails(c)
    \/ CheckForSafeDelete(c) \/ TaskletGone(c)

-----------------------------------------------------------------------------
(* Properties *)

(* Those who took DtorLock of k, and have yet to give or to delete it.     *)
Holders(k) ==
    {c \in Contexts : arg[c] = k /\ where[c] \in {"k_pend", "k_back", "d_delete"}}
    \cup {<<i>> : i \in {j \in DOMAIN commands : commands[j] = <<"run", k>>}}
    \cup (IF executing \in {"run", "give"} \X {k} THEN {executing} ELSE {})

=============================================================================
