----------------------------- MODULE BoundedQueue -----------------------------
(***************************************************************************)
(* Producers and consumers of a bounded queue over two condition variables *)
(* and one mutex: the programs of                                          *)
(* Linux/Demo/Linux_g++_condition_variables*, composed with                *)
(* ConditionVariable, of which each thread uses Wait without a timeout and *)
(* Signal.                                                                 *)
(***************************************************************************)
EXTENDS FreeRTOSSemaphore, Integers, FiniteSets, Sequences

CONSTANTS Producers, Consumers, MaxSize

Threads == Producers \cup Consumers

(* There are some of each: main creates them before any of them runs.      *)
ASSUME BoundedQueueAssumption ==
    /\ IsFiniteSet(Threads) /\ NoTask \notin Threads
    /\ Producers # {} /\ Consumers # {} /\ Producers \cap Consumers = {}
    /\ MaxSize \in Nat \ {0}

VARIABLES
    loop,       \* where each thread is in its Run loop
    CurSize,    \* the number of items in the queue
    call, cv, returned, CvLock, Locks, WaitList, ThreadWaitSem, notified, expired

Cvars == <<call, cv, returned, CvLock, Locks, WaitList, ThreadWaitSem, notified, expired>>
bqVars == <<loop, CurSize, Cvars>>

C == INSTANCE ConditionVariable WITH
        Waiters <- Threads, Notifiers <- Threads, Cvs <- {"notEmptyCv", "notFullCv"},
        Timeouts <- FALSE, MaxWaitList <- Cardinality(Threads),
        pc <- call, Lock <- Locks

Ats == {"lock", "check", "signal", "unlock"}

BqTypeOK ==
    /\ loop \in [Threads -> Ats]
    /\ CurSize \in Nat

(* Every thread starts at the top of its loop; which condition variable    *)
(* its last call was about is arbitrary before the first.                  *)
BqInit ==
    /\ C!Init /\ \A t \in Threads : cv[t] = "notFullCv"
    /\ loop = [t \in Threads |-> "lock"]
    /\ CurSize = 0

Move(t, from, to) == loop[t] = from /\ loop' = [loop EXCEPT ![t] = to]

-----------------------------------------------------------------------------

LockQueue(t) ==
    /\ Move(t, "lock", "check")
    /\ C!LockCvLock(t)
    /\ UNCHANGED CurSize

(* while (IsFull()) Wait(notFullCv, lock), and the same for IsEmpty: after *)
(* the Wait the thread is at its check again.                              *)
WaitForRoom(t) ==
    /\ Move(t, "check", "check") /\ t \in Producers
    /\ CurSize = MaxSize
    /\ C!CallWait(t, "notFullCv")
    /\ UNCHANGED CurSize

WaitForItem(t) ==
    /\ Move(t, "check", "check") /\ t \in Consumers
    /\ CurSize = 0
    /\ C!CallWait(t, "notEmptyCv")
    /\ UNCHANGED CurSize

Add(t) ==
    /\ Move(t, "check", "signal") /\ t \in Producers /\ call[t] = "out"
    /\ CurSize # MaxSize
    /\ CurSize' = CurSize + 1
    /\ UNCHANGED Cvars

(* Mutants: a thread that was woken does not check again; the item is read *)
(* and left in the queue.                                                  *)
RemoveTrustsWakeup(t) ==
    /\ Move(t, "check", "signal") /\ t \in Consumers /\ call[t] = "out"
    /\ CurSize # 0 \/ returned[t]
    /\ CurSize' = CurSize - 1
    /\ UNCHANGED Cvars

RemoveNot(t) ==
    /\ Move(t, "check", "signal") /\ t \in Consumers /\ call[t] = "out"
    /\ CurSize # 0
    /\ UNCHANGED <<CurSize, Cvars>>

RemoveItem(t) ==
    /\ Move(t, "check", "signal") /\ t \in Consumers /\ call[t] = "out"
    /\ CurSize # 0
    /\ CurSize' = CurSize - 1
    /\ UNCHANGED Cvars

(* Mutant: each side signals its own condition variable.                   *)
SignalOwnSide(t) ==
    /\ Move(t, "signal", "unlock")
    /\ C!CallSignal(t, IF t \in Consumers THEN "notEmptyCv" ELSE "notFullCv")
    /\ UNCHANGED CurSize

SignalOther(t) ==
    /\ Move(t, "signal", "unlock")
    /\ C!CallSignal(t, IF t \in Producers THEN "notEmptyCv" ELSE "notFullCv")
    /\ UNCHANGED CurSize

UnlockQueue(t) ==
    /\ Move(t, "unlock", "lock")
    /\ C!UnlockCvLock(t)
    /\ UNCHANGED CurSize

(* A step inside a call of the library.                                    *)
Library(t) == C!Step(t) /\ UNCHANGED <<loop, CurSize>>

ThreadStep(t) ==
    \/ LockQueue(t) \/ WaitForRoom(t) \/ WaitForItem(t) \/ Add(t) \/ RemoveItem(t)
    \/ SignalOther(t) \/ UnlockQueue(t) \/ Library(t)

BqNext == \E t \in Threads : ThreadStep(t)

BqSpec == BqInit /\ [][BqNext]_bqVars

(* The scheduler runs every thread that is ready; all have one priority    *)
(* and share the processor by time slices.                                 *)
BqFairSpec == BqSpec /\ \A t \in Threads : WF_bqVars(ThreadStep(t))

-----------------------------------------------------------------------------
(* Properties *)

(* The assertions of Add and Remove: configASSERT(CurSize <= MaxSize) and  *)
(* configASSERT(CurSize >= 0).                                             *)
QueueAsserts == 0 <= CurSize /\ CurSize <= MaxSize

Asleep(t) == call[t] = "w_take" /\ ThreadWaitSem[t] = 0

(* No wakeup is lost, although a signal wakes one thread, perhaps none,    *)
(* and another thread may take the item first: if all consumers are asleep *)
(* there is nothing to consume, or a producer is about to signal it; the   *)
(* same for producers and room.                                            *)
Signalling(T, c) ==
    \E t \in T : loop[t] = "signal" \/ (cv[t] = c /\ call[t] \in {"s_lock", "s_pop"})

NoLostWakeup ==
    /\ (\A t \in Consumers : Asleep(t)) => CurSize = 0 \/ Signalling(Producers, "notEmptyCv")
    /\ (\A t \in Producers : Asleep(t)) => CurSize = MaxSize \/ Signalling(Consumers, "notFullCv")

(* The threads never all wait for each other: items are removed, and hence *)
(* added, again and again.                                                 *)
ItemsKeepFlowing == []<><<CurSize' < CurSize>>_bqVars

=============================================================================
