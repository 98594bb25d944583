--------------------------- MODULE ConditionVariable ---------------------------
(***************************************************************************)
(* Condition variables: class ConditionVariable                            *)
(* (c++/Source/ccondition_variable.cpp) and Thread::Wait, Thread::Signal   *)
(* (cthread.cpp, thread.hpp).  A thread that waits queues itself on the    *)
(* WaitList and then blocks on a binary semaphore of its own,              *)
(* ThreadWaitSem, perhaps with a timeout.                                  *)
(*                                                                         *)
(* The client here is any legal one: a thread in Waiters waits whenever it *)
(* holds CvLock, a thread in Notifiers signals and broadcasts whenever it  *)
(* likes, with or without CvLock.  What is done under the internal Lock,   *)
(* up to and with its release, is one step, save in Broadcast, which gives *)
(* several semaphores, one a step.                                         *)
(***************************************************************************)
EXTENDS FreeRTOSSemaphore, Sequences, SequencesExt

CONSTANTS
    Waiters, Notifiers,     \* what each thread may call
    Cvs,                    \* the condition variables
    Timeouts,               \* may the Timeout of a Wait be over before it is signalled?
    MaxWaitList             \* bound on a WaitList; a waiter on a full one is not modelled

Threads == Waiters \cup Notifiers

ASSUME CvAssumption ==
    /\ NoTask \notin Threads
    /\ Timeouts \in BOOLEAN
    /\ MaxWaitList \in Nat

VARIABLES
    pc,             \* where each thread is in the library, "out" when in none of its calls
    cv,             \* the condition variable of that call
    returned,       \* what the thread's last Wait returned
    CvLock,         \* the mutex of the application
    Lock,           \* the internal mutex of each condition variable
    WaitList,       \* the threads queued on each condition variable
    ThreadWaitSem,  \* the binary semaphore of each thread
    notified,       \* history: was the thread taken off a WaitList, since it called Wait?
    expired         \* history: has any Wait timed out?

state == <<CvLock, Lock, WaitList, ThreadWaitSem>>
vars  == <<pc, cv, returned, state, notified, expired>>

WaitPCs == {"w_lock", "w_push", "w_drop", "w_take", "w_grab"}
PCs == {"out", "s_lock", "s_pop", "b_lock", "b_pop"} \cup WaitPCs

TypeOK ==
    /\ pc \in [Threads -> PCs]
    /\ cv \in [Threads -> Cvs]
    /\ returned \in [Threads -> BOOLEAN]
    /\ CvLock \in Threads \cup {NoTask}
    /\ Lock \in [Cvs -> Threads \cup {NoTask}]
    /\ WaitList \in [Cvs -> Seq(Threads)]
    /\ \A c \in Cvs : Len(WaitList[c]) <= MaxWaitList
    /\ ThreadWaitSem \in [Threads -> {0, 1}]
    /\ notified \in [Threads -> BOOLEAN]
    /\ expired \in BOOLEAN

(* Threads and condition variables as their constructors leave them: the   *)
(* locks free, the lists empty, the semaphores at `sem'.                   *)
Created(sem) ==
    /\ pc = [t \in Threads |-> "out"]
    /\ cv \in {[t \in Threads |-> c] : c \in Cvs}
    /\ returned = [t \in Threads |-> FALSE]
    /\ CvLock = NoTask
    /\ Lock = [c \in Cvs |-> NoTask]
    /\ WaitList = [c \in Cvs |-> <<>>]
    /\ ThreadWaitSem = [t \in Threads |-> sem]
    /\ notified = [t \in Threads |-> FALSE]
    /\ expired = FALSE

(* Mutant: ThreadWaitSem is created full.                                  *)
InitFull == Created(1)

Init == Created(0)

Go(t, from, to) == pc[t] = from /\ pc' = [pc EXCEPT ![t] = to]

(* Lock.Lock() and Lock.Unlock() of the condition variable of t's call.    *)
TakeLock(t)    == Lock[cv[t]] = NoTask /\ Lock' = [Lock EXCEPT ![cv[t]] = t]
ReleaseLock(t) == Lock' = [Lock EXCEPT ![cv[t]] = NoTask]

-----------------------------------------------------------------------------
(* Thread::Wait *)

CallWait(t, c) ==
    /\ CvLock = t
    /\ Len(WaitList[c]) < MaxWaitList
    /\ Go(t, "out", "w_lock")
    /\ cv' = [cv EXCEPT ![t] = c]
    /\ notified' = [notified EXCEPT ![t] = FALSE]
    /\ UNCHANGED <<returned, state, expired>>

(* Cv.AddToWaitList(this) *)
WaitLock(t) ==
    /\ Go(t, "w_lock", "w_push")
    /\ TakeLock(t)
    /\ UNCHANGED <<cv, returned, CvLock, WaitList, ThreadWaitSem, notified, expired>>

(* Mutant: the thread is queued twice.                                     *)
WaitPushTwice(t) ==
    /\ Go(t, "w_push", "w_drop")
    /\ WaitList' = [WaitList EXCEPT ![cv[t]] = @ \o <<t, t>>]
    /\ ReleaseLock(t)
    /\ UNCHANGED <<cv, returned, CvLock, ThreadWaitSem, notified, expired>>

WaitPush(t) ==
    /\ Go(t, "w_push", "w_drop")
    /\ WaitList' = [WaitList EXCEPT ![cv[t]] = Append(@, t)]
    /\ ReleaseLock(t)
    /\ UNCHANGED <<cv, returned, CvLock, ThreadWaitSem, notified, expired>>

WaitDropCvLock(t) ==
    /\ Go(t, "w_drop", "w_take")
    /\ GiveMutex(CvLock)
    /\ UNCHANGED <<cv, returned, Lock, WaitList, ThreadWaitSem, notified, expired>>

(* ThreadWaitSem.Take(Timeout) succeeds, or its time is over.  Nothing     *)
(* takes the thread off the WaitList when it is.                           *)
WaitTake(t) ==
    /\ Go(t, "w_take", "w_grab")
    /\ ThreadWaitSem[t] = 1
    /\ ThreadWaitSem' = [ThreadWaitSem EXCEPT ![t] = 0]
    /\ returned' = [returned EXCEPT ![t] = TRUE]
    /\ UNCHANGED <<cv, CvLock, Lock, WaitList, notified, expired>>

WaitTimeout(t) ==
    /\ Timeouts
    /\ Go(t, "w_take", "w_grab")
    /\ ThreadWaitSem[t] = 0
    /\ returned' = [returned EXCEPT ![t] = FALSE]
    /\ expired' = TRUE
    /\ UNCHANGED <<cv, state, notified>>

WaitGrabCvLock(t) ==
    /\ Go(t, "w_grab", "out")
    /\ TakeMutex(CvLock, t)
    /\ UNCHANGED <<cv, returned, Lock, WaitList, ThreadWaitSem, notified, expired>>

-----------------------------------------------------------------------------
(* ConditionVariable::Signal and Broadcast *)

CallSignal(t, c) ==
    /\ Go(t, "out", "s_lock")
    /\ cv' = [cv EXCEPT ![t] = c]
    /\ UNCHANGED <<returned, state, notified, expired>>

CallBroadcast(t, c) ==
    /\ Go(t, "out", "b_lock")
    /\ cv' = [cv EXCEPT ![t] = c]
    /\ UNCHANGED <<returned, state, notified, expired>>

NotifyLock(t) ==
    /\ Go(t, "s_lock", "s_pop") \/ Go(t, "b_lock", "b_pop")
    /\ TakeLock(t)
    /\ UNCHANGED <<cv, returned, CvLock, WaitList, ThreadWaitSem, notified, expired>>

(* Mutants: the front is signalled but left on the list; it is taken off   *)
(* and its semaphore not given.                                            *)
PopAndGiveNoPop(c) ==
    /\ WaitList[c] # <<>>
    /\ ThreadWaitSem' = [ThreadWaitSem EXCEPT ![Head(WaitList[c])] = 1]
    /\ notified' = [notified EXCEPT ![Head(WaitList[c])] = TRUE]
    /\ UNCHANGED WaitList

PopAndGiveNoGive(c) ==
    /\ WaitList[c] # <<>>
    /\ WaitList' = [WaitList EXCEPT ![c] = Tail(@)]
    /\ UNCHANGED <<ThreadWaitSem, notified>>

(* WaitList.pop_front() and thr->Signal(), a give that a full semaphore    *)
(* swallows.                                                               *)
PopAndGive(c) ==
    LET thr == Head(WaitList[c]) IN
    /\ WaitList[c] # <<>>
    /\ WaitList' = [WaitList EXCEPT ![c] = Tail(@)]
    /\ ThreadWaitSem' = [ThreadWaitSem EXCEPT ![thr] = 1]
    /\ notified' = [notified EXCEPT ![thr] = TRUE]

SignalPop(t) ==
    /\ Go(t, "s_pop", "out")
    /\ PopAndGive(cv[t])
    /\ ReleaseLock(t)
    /\ UNCHANGED <<cv, returned, CvLock, expired>>

(* Mutant: Broadcast signals one thread only, as Signal does.              *)
BroadcastPopOne(t) ==
    /\ Go(t, "b_pop", "out")
    /\ PopAndGive(cv[t])
    /\ ReleaseLock(t)
    /\ UNCHANGED <<cv, returned, CvLock, expired>>

BroadcastPop(t) ==
    /\ Go(t, "b_pop", "b_pop")
    /\ PopAndGive(cv[t])
    /\ UNCHANGED <<cv, returned, CvLock, Lock, expired>>

(* There is nobody (left) to signal.                                       *)
NotifyDone(t) ==
    /\ Go(t, "s_pop", "out") \/ Go(t, "b_pop", "out")
    /\ WaitList[cv[t]] = <<>>
    /\ ReleaseLock(t)
    /\ UNCHANGED <<cv, returned, CvLock, WaitList, ThreadWaitSem, notified, expired>>

-----------------------------------------------------------------------------
(* The client: it takes and drops CvLock around its calls.                 *)

LockCvLock(t) ==
    /\ pc[t] = "out"
    /\ TakeMutex(CvLock, t)
    /\ UNCHANGED <<pc, cv, returned, Lock, WaitList, ThreadWaitSem, notified, expired>>

UnlockCvLock(t) ==
    /\ pc[t] = "out" /\ CvLock = t
    /\ GiveMutex(CvLock)
    /\ UNCHANGED <<pc, cv, returned, Lock, WaitList, ThreadWaitSem, notified, expired>>

Step(t) ==
    \/ WaitLock(t) \/ WaitPush(t) \/ WaitDropCvLock(t) \/ WaitTake(t) \/ WaitGrabCvLock(t)
    \/ NotifyLock(t) \/ SignalPop(t) \/ BroadcastPop(t) \/ NotifyDone(t)

Client(t) ==
    \/ LockCvLock(t) \/ UnlockCvLock(t)
    \/ t \in Waiters /\ \E c \in Cvs : CallWait(t, c)
    \/ t \in Notifiers /\ \E c \in Cvs : CallSignal(t, c) \/ CallBroadcast(t, c)

Next == \E t \in Threads : Client(t) \/ Step(t) \/ WaitTimeout(t)

Spec == Init /\ [][Next]_vars

(* The scheduler runs every thread that is ready.  Nothing is assumed of   *)
(* WaitTimeout: a Wait may have been given portMAX_DELAY.                  *)
FairSpec == Spec /\ \A t \in Threads : WF_vars(Step(t))

-----------------------------------------------------------------------------
(* Properties *)

(* The threads that wait on c and were not signalled yet.                  *)
Waiting(c) ==
    {t \in Threads : cv[t] = c /\ pc[t] \in {"w_drop", "w_take"} /\ ThreadWaitSem[t] = 0}

(* No wakeup can be lost: a thread that is asleep on its semaphore is on   *)
(* the WaitList, where the next signal finds it, although it dropped       *)
(* CvLock before it went to sleep.                                         *)
SleepersAreListed ==
    \A t \in Threads : pc[t] = "w_take" /\ ThreadWaitSem[t] = 0 => t \in ToSet(WaitList[cv[t]])

(* The next two hold until a first Wait times out, which leaves its thread *)
(* on the WaitList; SignalReachesAWaiter shows what follows.               *)

(* The WaitList holds waiting threads only, each once: there is no stale   *)
(* entry, and no give goes to a semaphore that is already full.            *)
ListedAreWaiting ==
    ~expired => \A c \in Cvs : ToSet(WaitList[c]) = Waiting(c) /\ IsInjective(WaitList[c])

(* A semaphore is full only between a signal and the end of the Wait it is *)
(* for: no signal is left over for a later Wait.  So a Wait returns true   *)
(* only if the thread was signalled during that Wait: "true if the         *)
(* condition variable was signaled, false if it timed out".                *)
NoSignalLeftOver ==
    ~expired => \A t \in Threads :
        /\ ThreadWaitSem[t] = 1 => pc[t] \in {"w_drop", "w_take"} /\ notified[t]
        /\ pc[t] = "w_grab" /\ returned[t] => notified[t]

(* "Signal all threads waiting": whoever waits when a Broadcast has the    *)
(* list wakes up, whatever timed out before.                               *)
BroadcastWakesAll ==
    \A t, u \in Threads :
        pc[u] = "b_pop" /\ t \in Waiting(cv[u]) ~> pc[t] \in {"w_grab", "out"}

(* "Signal a thread waiting on this ConditionVariable": if there is one,   *)
(* it is a waiting thread that Signal takes off the list.                  *)
SignalReachesAWaiter ==
    [][\A t \in Threads : SignalPop(t) /\ Waiting(cv[t]) # {}
          => Head(WaitList[cv[t]]) \in Waiting(cv[t])]_vars

=============================================================================
