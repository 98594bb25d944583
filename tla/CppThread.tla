------------------------------ MODULE CppThread ------------------------------
(***************************************************************************)
(* The life of a Thread, cthread.cpp and thread.hpp: Start, before the     *)
(* scheduler runs and after, the task it creates, the return from Run and  *)
(* the destructor; composed with ConditionVariable, of which a running     *)
(* thread may use every operation.                                         *)
(*                                                                         *)
(* Start is called by Main until the scheduler is started, and then by the *)
(* other Callers, which stand for any task, and also destroy threads, but  *)
(* none that is in a call of the library, holds CvLock or is being started.*)
(* What follows the use of a task or an object that is gone is undefined,  *)
(* and not followed.                                                       *)
(***************************************************************************)
EXTENDS FreeRTOSSemaphore, FiniteSets, Sequences, SequencesExt

CONSTANTS
    Objects,        \* the Thread objects, each also the name of its task
    Callers, Main,  \* who starts and destroys them
    MaxWaits        \* bound on a WaitList

ASSUME CppThreadAssumption ==
    /\ NoTask \notin Objects \cup Callers
    /\ Main \in Callers
    /\ MaxWaits \in Nat

VARIABLES
    SchedulerActive, StartGuardLock,    \* the static members of Thread
    ThreadStarted, handle,              \* the members of each object
    object,         \* "alive", "half" in its destructor, or "gone"
    task,           \* "none", "running", "exiting" after Run, or "deleted"
    created,        \* history: how many tasks were created for it
    failed,         \* history: did a Start of it fail to create the task?
    step_, startOf, \* where each caller is in Start, of which object
    undefined,      \* was something used that is gone?
    pc, cv, returned, CvLock, Lock, WaitList, ThreadWaitSem, notified, expired

start  == <<SchedulerActive, StartGuardLock, ThreadStarted, step_, startOf>>
life   == <<handle, object, task, created, failed, undefined>>
cvVars == <<pc, cv, returned, CvLock, Lock, WaitList, ThreadWaitSem, notified, expired>>
thVars == <<start, life, cvVars>>

C == INSTANCE ConditionVariable WITH
        Waiters <- Objects, Notifiers <- Objects, Cvs <- {"cv"},
        Timeouts <- TRUE, MaxWaitList <- MaxWaits

ThTypeOK ==
    /\ SchedulerActive \in BOOLEAN
    /\ StartGuardLock \in Callers \cup {NoTask}
    /\ ThreadStarted \in [Objects -> BOOLEAN]
    /\ handle \in [Objects -> {"unset", "task"}]
    /\ object \in [Objects -> {"alive", "half", "gone"}]
    /\ task \in [Objects -> {"none", "running", "exiting", "deleted"}]
    /\ created \in [Objects -> Nat]
    /\ failed \in [Objects -> BOOLEAN]
    /\ step_ \in [Callers -> {"out", "lock", "test", "store", "create"}]
    /\ startOf \in [Callers -> Objects \cup {NoTask}]
    /\ undefined \in BOOLEAN
    /\ C!TypeOK

(* The objects are constructed; the constructor leaves handle as it is.    *)
ThInit ==
    /\ SchedulerActive = FALSE /\ StartGuardLock = NoTask
    /\ ThreadStarted = [o \in Objects |-> FALSE]
    /\ handle = [o \in Objects |-> "unset"]
    /\ object = [o \in Objects |-> "alive"]
    /\ task = [o \in Objects |-> "none"]
    /\ created = [o \in Objects |-> 0]
    /\ failed = [o \in Objects |-> FALSE]
    /\ step_ = [c \in Callers |-> "out"]
    /\ startOf = [c \in Callers |-> NoTask]
    /\ undefined = FALSE
    /\ C!Init

(* Main runs until the scheduler is started, and all the others then.      *)
Runs(c) == c = Main <=> ~SchedulerActive

-----------------------------------------------------------------------------
(* Thread::StartScheduler and Thread::Start *)

Stepping(c, from, to) == Runs(c) /\ step_[c] = from /\ step_' = [step_ EXCEPT ![c] = to]

StartReturns(c, from) == Stepping(c, from, "out") /\ startOf' = [startOf EXCEPT ![c] = NoTask]

StartScheduler ==
    /\ Runs(Main) /\ step_[Main] = "out"
    /\ SchedulerActive' = TRUE
    /\ UNCHANGED <<StartGuardLock, ThreadStarted, step_, startOf, life, cvVars>>

(* The guard is taken only when the scheduler runs.                        *)
CallStart(c, o) ==
    /\ object[o] = "alive"
    /\ Stepping(c, "out", IF SchedulerActive THEN "lock" ELSE "test")
    /\ startOf' = [startOf EXCEPT ![c] = o]
    /\ UNCHANGED <<SchedulerActive, StartGuardLock, ThreadStarted, life, cvVars>>

TakeStartGuard(c) ==
    /\ Stepping(c, "lock", "test")
    /\ TakeMutex(StartGuardLock, c)
    /\ UNCHANGED <<SchedulerActive, ThreadStarted, startOf, life, cvVars>>

(* Leaving the scope of the guard, if there is one, releases it.           *)
StartTwice(c) ==
    /\ StartReturns(c, "test")
    /\ ThreadStarted[startOf[c]]
    /\ GiveMutex(StartGuardLock)
    /\ UNCHANGED <<SchedulerActive, ThreadStarted, life, cvVars>>

StartOnce(c) ==
    /\ Stepping(c, "test", "store")
    /\ ~ThreadStarted[startOf[c]]
    /\ UNCHANGED <<SchedulerActive, StartGuardLock, ThreadStarted, startOf, life, cvVars>>

SetThreadStarted(c) ==
    /\ Stepping(c, "store", "create")
    /\ ThreadStarted' = [ThreadStarted EXCEPT ![startOf[c]] = TRUE]
    /\ GiveMutex(StartGuardLock)
    /\ UNCHANGED <<SchedulerActive, startOf, life, cvVars>>

CreateTask(c) ==
    /\ StartReturns(c, "create")
    /\ handle' = [handle EXCEPT ![startOf[c]] = "task"]
    /\ task' = [task EXCEPT ![startOf[c]] = "running"]
    /\ created' = [created EXCEPT ![startOf[c]] = @ + 1]
    /\ UNCHANGED <<SchedulerActive, StartGuardLock, ThreadStarted, object, failed, undefined, cvVars>>

(* Mutant: ThreadStarted is cleared, for another Start.                    *)
CreateTaskFailsClears(c) ==
    /\ StartReturns(c, "create")
    /\ ThreadStarted' = [ThreadStarted EXCEPT ![startOf[c]] = FALSE]
    /\ failed' = [failed EXCEPT ![startOf[c]] = TRUE]
    /\ UNCHANGED <<SchedulerActive, StartGuardLock, handle, object, task, created, undefined, cvVars>>

(* Start returns false, and ThreadStarted stays set.                       *)
CreateTaskFails(c) ==
    /\ StartReturns(c, "create")
    /\ failed' = [failed EXCEPT ![startOf[c]] = TRUE]
    /\ UNCHANGED <<SchedulerActive, StartGuardLock, ThreadStarted, handle, object, task, created, undefined, cvVars>>

-----------------------------------------------------------------------------
(* The task: TaskFunctionAdapter, Run, and what follows it *)

Running(o) == SchedulerActive /\ task[o] = "running"

(* Signal and Broadcast of a thread that is gone, but still listed.        *)
Dangling(o) ==
    /\ pc[o] \in {"s_pop", "b_pop"} /\ WaitList[cv[o]] # <<>>
    /\ object[Head(WaitList[cv[o]])] # "alive"

InRun(o) ==
    /\ Running(o) /\ ~Dangling(o)
    /\ C!Client(o) \/ C!Step(o) \/ C!WaitTimeout(o)
    /\ UNCHANGED <<start, life>>

SignalsDangling(o) ==
    /\ Running(o) /\ Dangling(o)
    /\ undefined' = TRUE
    /\ UNCHANGED <<start, handle, object, task, created, failed, cvVars>>

(* It is in no call of the library, and nobody is starting it.             *)
AtRest(o) ==
    /\ pc[o] = "out" /\ CvLock # o
    /\ \A c \in Callers : startOf[c] # o

RunReturns(o) ==
    /\ Running(o) /\ AtRest(o)
    /\ task' = [task EXCEPT ![o] = "exiting"]
    /\ UNCHANGED <<start, handle, object, created, failed, undefined, cvVars>>

(* vTaskDelete(thread->handle) of the task itself; the handle stays.       *)
DeleteOwnTask(o) ==
    /\ task[o] = "exiting"
    /\ task' = [task EXCEPT ![o] = "deleted"]
    /\ UNCHANGED <<start, handle, object, created, failed, undefined, cvVars>>

(* A Cleanup with `delete this': ~Thread deletes the task that executes    *)
(* it, so that the memory of the object is never freed.                    *)
CleanupDeletesThis(o) ==
    /\ task[o] = "exiting" /\ object[o] = "alive" /\ AtRest(o)
    /\ object' = [object EXCEPT ![o] = "half"]
    /\ task' = [task EXCEPT ![o] = "deleted"]
    /\ UNCHANGED <<start, handle, created, failed, undefined, cvVars>>

(* ~Thread in another task, with the handle of a task.                     *)
Destroy(c, o) ==
    /\ Runs(c) /\ step_[c] = "out"
    /\ object[o] = "alive" /\ AtRest(o)
    /\ task[o] \in {"running", "exiting"}
    /\ object' = [object EXCEPT ![o] = "gone"]
    /\ task' = [task EXCEPT ![o] = "deleted"]
    /\ UNCHANGED <<start, handle, created, failed, undefined, cvVars>>

(* The handle is that of a task that deleted itself, or was never set: by  *)
(* chance the task of anybody.                                             *)
DestroyStale(c, o) ==
    /\ Runs(c) /\ step_[c] = "out"
    /\ object[o] = "alive" /\ AtRest(o)
    /\ task[o] \in {"none", "deleted"}
    /\ undefined' = TRUE
    /\ UNCHANGED <<start, handle, object, task, created, failed, cvVars>>

ThNext ==
    /\ ~undefined
    /\ \/ StartScheduler
       \/ \E c \in Callers :
             \/ TakeStartGuard(c) \/ StartTwice(c) \/ StartOnce(c) \/ SetThreadStarted(c)
             \/ CreateTask(c) \/ CreateTaskFails(c)
             \/ \E o \in Objects : CallStart(c, o) \/ Destroy(c, o) \/ DestroyStale(c, o)
       \/ \E o \in Objects :
             \/ InRun(o) \/ SignalsDangling(o)
             \/ RunReturns(o) \/ DeleteOwnTask(o) \/ CleanupDeletesThis(o)

ThSpec == ThInit /\ [][ThNext]_thVars

-----------------------------------------------------------------------------
(* Properties *)

Creating(o) == {c \in Callers : step_[c] \in {"store", "create"} /\ startOf[c] = o}

(* "This should only be called once ever!": however many callers call      *)
(* Start, before and after the scheduler is started, at most one of them   *)
(* gets as far as creating the task.  If that fails, the failure is final: *)
(* no Start, called meanwhile or later, creates the task instead.  And     *)
(* none is created for an object in or after its destructor, the task of   *)
(* which is deleted.                                                       *)
OneTaskPerThread ==
    \A o \in Objects :
        /\ created[o] + Cardinality(Creating(o)) <= 1
        /\ failed[o] => created[o] = 0 /\ Creating(o) = {}
        /\ object[o] # "alive" => Creating(o) = {} /\ task[o] = "deleted"

(* A thread that is destroyed outside of Wait is on no WaitList, of which  *)
(* the entries are raw pointers that Signal follows: until a first Wait    *)
(* times out, which leaves its thread listed.                              *)
NothingDangles ==
    ~expired => \A o \in Objects : object[o] # "alive" => o \notin ToSet(WaitList["cv"])

=============================================================================
