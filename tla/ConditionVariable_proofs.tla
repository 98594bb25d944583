----------------------- MODULE ConditionVariable_proofs -----------------------
(***************************************************************************)
(* Proofs about ConditionVariable, for any threads, condition variables    *)
(* and bound on the lists, with or without timeouts.                       *)
(***************************************************************************)
EXTENDS ConditionVariable, SequenceLemmas, TLAPS

(* The types without the bound on the lists, which is not the code's.      *)
Typed ==
    /\ pc \in [Threads -> PCs]
    /\ cv \in [Threads -> Cvs]
    /\ returned \in [Threads -> BOOLEAN]
    /\ CvLock \in Threads \cup {NoTask}
    /\ Lock \in [Cvs -> Threads \cup {NoTask}]
    /\ WaitList \in [Cvs -> Seq(Threads)]
    /\ ThreadWaitSem \in [Threads -> {0, 1}]
    /\ notified \in [Threads -> BOOLEAN]
    /\ expired \in BOOLEAN

(* The constructors establish the types.                                   *)
LEMMA TypedInit == Init => Typed
<1> SUFFICES ASSUME Init PROVE Typed
  OBVIOUS
<1>1. PICK c \in Cvs : cv = [t \in Threads |-> c]
  BY DEF Init, Created
<1>2. <<>> \in Seq(Threads)
  OBVIOUS
<1> QED
  BY <1>1, <1>2 DEF Init, Created, Typed, PCs

(* What a pop leaves behind is a list of threads, and the front is one.    *)
LEMMA PopTyped ==
    ASSUME Typed, NEW c \in Cvs, PopAndGive(c)
    PROVE  /\ Head(WaitList[c]) \in Threads
           /\ WaitList' \in [Cvs -> Seq(Threads)]
           /\ ThreadWaitSem' \in [Threads -> {0, 1}]
           /\ notified' \in [Threads -> BOOLEAN]
<1>1. WaitList[c] \in Seq(Threads) /\ WaitList[c] # <<>>
  BY DEF Typed, PopAndGive
<1>2. Head(WaitList[c]) \in Threads /\ Tail(WaitList[c]) \in Seq(Threads)
  BY <1>1, HeadTailProperties
<1> QED
  BY <1>2 DEF Typed, PopAndGive

(* Every step keeps them.                                                  *)
LEMMA TypedNext == Typed /\ [Next]_vars => Typed'
<1> SUFFICES ASSUME Typed, [Next]_vars PROVE Typed'
  OBVIOUS
<1> USE DEF Go, TakeLock, ReleaseLock, TakeMutex, GiveMutex, PCs, WaitPCs
<1>1. CASE UNCHANGED vars
  BY <1>1 DEF vars, state, Typed
<1>2. ASSUME NEW t \in Threads, Client(t) PROVE Typed'
  <2>1. CASE LockCvLock(t) \/ UnlockCvLock(t)
    BY <2>1 DEF Typed, LockCvLock, UnlockCvLock
  <2>2. CASE \E c \in Cvs : CallWait(t, c)
    BY <2>2 DEF Typed, CallWait, state
  <2>3. CASE \E c \in Cvs : CallSignal(t, c)
    BY <2>3 DEF Typed, CallSignal, state
  <2>4. CASE \E c \in Cvs : CallBroadcast(t, c)
    BY <2>4 DEF Typed, CallBroadcast, state
  <2> QED
    BY <1>2, <2>1, <2>2, <2>3, <2>4 DEF Client
<1>3. ASSUME NEW t \in Threads, Step(t) PROVE Typed'
  <2>1. CASE WaitLock(t)
    BY <2>1 DEF Typed, WaitLock
  <2>2. CASE WaitPush(t)
    <3>1. Append(WaitList[cv[t]], t) \in Seq(Threads)
      BY AppendProperties DEF Typed
    <3> QED
      BY <2>2, <3>1 DEF Typed, WaitPush
  <2>3. CASE WaitDropCvLock(t) \/ WaitGrabCvLock(t)
    BY <2>3 DEF Typed, WaitDropCvLock, WaitGrabCvLock
  <2>4. CASE WaitTake(t)
    BY <2>4 DEF Typed, WaitTake
  <2>5. CASE NotifyLock(t)
    BY <2>5 DEF Typed, NotifyLock
  <2>6. CASE NotifyDone(t)
    BY <2>6 DEF Typed, NotifyDone
  <2>7. CASE SignalPop(t) \/ BroadcastPop(t)
    <3>1. cv[t] \in Cvs /\ PopAndGive(cv[t])
      BY <2>7 DEF Typed, SignalPop, BroadcastPop
    <3> QED
      BY <2>7, <3>1, PopTyped DEF Typed, SignalPop, BroadcastPop
  <2> QED
    BY <1>3, <2>1, <2>2, <2>3, <2>4, <2>5, <2>6, <2>7 DEF Step
<1>4. ASSUME NEW t \in Threads, WaitTimeout(t) PROVE Typed'
  BY <1>4 DEF Typed, WaitTimeout, state
<1> QED
  BY <1>1, <1>2, <1>3, <1>4 DEF Next

(* A thread moves itself only: what the others are doing is theirs.        *)
LEMMA OwnPc ==
    ASSUME Typed, NEW t \in Threads, Client(t) \/ Step(t) \/ WaitTimeout(t)
    PROVE  \A u \in Threads \ {t} : pc'[u] = pc[u]
<1> USE DEF Typed, Go
<1>1. CASE Client(t)
  BY <1>1 DEF Client, LockCvLock, UnlockCvLock, CallWait, CallSignal, CallBroadcast
<1>2. CASE WaitTimeout(t)
  BY <1>2 DEF WaitTimeout
<1>3. CASE Step(t)
  BY <1>3 DEF Step, WaitLock, WaitPush, WaitDropCvLock, WaitTake, WaitGrabCvLock, NotifyLock,
              SignalPop, BroadcastPop, NotifyDone
<1> QED
  BY <1>1, <1>2, <1>3

-----------------------------------------------------------------------------
(* Steps by what they do to the lists: a push, a pop, or nothing.          *)

Elsewhere(t) ==
    \/ Client(t) \/ WaitLock(t) \/ WaitDropCvLock(t) \/ WaitTake(t) \/ WaitTimeout(t)
    \/ WaitGrabCvLock(t) \/ NotifyLock(t) \/ NotifyDone(t)

(* Every step is of one of the three kinds, or stutters.                   *)
LEMMA StepKinds ==
    ASSUME [Next]_vars
    PROVE  \/ \E t \in Threads : WaitPush(t)
           \/ \E t \in Threads : SignalPop(t) \/ BroadcastPop(t)
           \/ \E t \in Threads : Elsewhere(t)
           \/ UNCHANGED vars
<1>1. ASSUME NEW t \in Threads, Client(t) \/ Step(t) \/ WaitTimeout(t)
      PROVE  WaitPush(t) \/ SignalPop(t) \/ BroadcastPop(t) \/ Elsewhere(t)
  BY <1>1, Zenon DEF Step, Elsewhere
<1> QED
  BY <1>1 DEF Next

(* A pop by t takes the front off the list of its condition variable and   *)
(* fills that thread's semaphore.                                          *)
LEMMA PopStep ==
    ASSUME Typed, NEW t \in Threads, SignalPop(t) \/ BroadcastPop(t),
           NEW c, c = cv[t], NEW h, h = Head(WaitList[c])
    PROVE  /\ c \in Cvs /\ h \in Threads
           /\ cv' = cv /\ returned' = returned /\ expired' = expired
           /\ WaitList[c] \in Seq(Threads) /\ WaitList[c] # <<>>
           /\ WaitList' = [WaitList EXCEPT ![c] = Tail(@)]
           /\ ThreadWaitSem' = [ThreadWaitSem EXCEPT ![h] = 1]
           /\ notified' = [notified EXCEPT ![h] = TRUE]
           /\ pc[t] \in {"s_pop", "b_pop"}
           /\ pc'[t] \in {"out", "b_pop"}
           /\ \A u \in Threads \ {t} : pc'[u] = pc[u]
<1>1. c \in Cvs /\ WaitList[c] \in Seq(Threads)
  BY DEF Typed
<1>2. PopAndGive(c)
  BY DEF SignalPop, BroadcastPop
<1>3. WaitList[c] # <<>> /\ WaitList' = [WaitList EXCEPT ![c] = Tail(@)]
      /\ ThreadWaitSem' = [ThreadWaitSem EXCEPT ![h] = 1]
      /\ notified' = [notified EXCEPT ![h] = TRUE]
  BY <1>2 DEF PopAndGive
<1>4. h \in Threads
  BY <1>1, <1>3, TailSet
<1> QED
  BY <1>1, <1>3, <1>4 DEF SignalPop, BroadcastPop, Go, Typed

(* A push by t, at the end of the list of its condition variable.          *)
LEMMA PushStep ==
    ASSUME Typed, NEW t \in Threads, WaitPush(t)
    PROVE  /\ cv' = cv /\ returned' = returned /\ expired' = expired
           /\ ThreadWaitSem' = ThreadWaitSem /\ notified' = notified
           /\ cv[t] \in Cvs /\ WaitList[cv[t]] \in Seq(Threads)
           /\ WaitList' = [WaitList EXCEPT ![cv[t]] = Append(@, t)]
           /\ pc[t] = "w_push" /\ pc'[t] = "w_drop"
           /\ \A u \in Threads \ {t} : pc'[u] = pc[u]
BY DEF WaitPush, Go, Typed

-----------------------------------------------------------------------------
(* SleepersAreListed, made inductive: also before the thread sleeps.       *)

Unsignalled(t) == pc[t] \in {"w_drop", "w_take"} /\ ThreadWaitSem[t] = 0

UnsignalledAreListed == \A t \in Threads : Unsignalled(t) => t \in ToSet(WaitList[cv[t]])

(* What does not touch the lists makes no thread unsignalled, and, unless  *)
(* it is a timeout, no thread signalled either.                            *)
LEMMA ElsewhereKeeps ==
    ASSUME Typed, NEW t \in Threads, Elsewhere(t)
    PROVE  /\ WaitList' = WaitList
           /\ \A u \in Threads : Unsignalled(u)' => Unsignalled(u) /\ cv'[u] = cv[u]
           /\ expired' \/ \A u \in Threads : Unsignalled(u) => Unsignalled(u)' /\ cv'[u] = cv[u]
<1> USE DEF Typed, Unsignalled, Go, WaitPCs, PCs
<1>1. CASE Client(t)
  BY <1>1 DEF Client, LockCvLock, UnlockCvLock, CallWait, CallSignal, CallBroadcast, state
<1>2. CASE WaitLock(t) \/ WaitDropCvLock(t) \/ WaitTimeout(t) \/ WaitGrabCvLock(t)
  BY <1>2 DEF WaitLock, WaitDropCvLock, WaitTimeout, WaitGrabCvLock, state
<1>3. CASE WaitTake(t)
  BY <1>3 DEF WaitTake
<1>4. CASE NotifyLock(t) \/ NotifyDone(t)
  BY <1>4 DEF NotifyLock, NotifyDone
<1> QED
  BY <1>1, <1>2, <1>3, <1>4 DEF Elsewhere

(* The strengthened invariant holds across every step.                     *)
LEMMA UnsignalledNext == Typed /\ UnsignalledAreListed /\ [Next]_vars => UnsignalledAreListed'
<1> SUFFICES ASSUME Typed, UnsignalledAreListed, [Next]_vars, NEW u \in Threads, Unsignalled(u)'
             PROVE  u \in ToSet(WaitList'[cv'[u]])
  BY DEF UnsignalledAreListed
<1>0. cv[u] \in Cvs /\ WaitList[cv[u]] \in Seq(Threads)
  BY DEF Typed
<1>1. ASSUME NEW t \in Threads, WaitPush(t) PROVE u \in ToSet(WaitList'[cv'[u]])
  <2>1. ToSet(Append(WaitList[cv[t]], t)) = ToSet(WaitList[cv[t]]) \cup {t}
    BY <1>1, PushStep, AppendSet
  <2>2. u = t \/ Unsignalled(u)
    BY <1>1, PushStep DEF Unsignalled
  <2>3. /\ cv' = cv /\ cv[t] \in Cvs
        /\ WaitList' = [WaitList EXCEPT ![cv[t]] = Append(@, t)]
    BY <1>1, PushStep
  <2>4. u = t \/ u \in ToSet(WaitList[cv[u]])
    BY <2>2 DEF UnsignalledAreListed
  <2>5. CASE cv[u] = cv[t]
    BY <2>1, <2>3, <2>4, <2>5 DEF Typed
  <2>6. CASE cv[u] # cv[t]
    BY <1>0, <2>3, <2>4, <2>6 DEF Typed
  <2> QED
    BY <2>5, <2>6
<1>2. ASSUME NEW t \in Threads, SignalPop(t) \/ BroadcastPop(t)
      PROVE  u \in ToSet(WaitList'[cv'[u]])
  <2>1. PICK c, h : c = cv[t] /\ h = Head(WaitList[c])
    OBVIOUS
  <2>2. /\ c \in Cvs /\ h \in Threads /\ cv' = cv
        /\ WaitList' = [WaitList EXCEPT ![c] = Tail(@)]
        /\ ToSet(WaitList[c]) = ToSet(Tail(WaitList[c])) \cup {h}
    BY <1>2, <2>1, PopStep, TailSet
  <2>3. u # h /\ Unsignalled(u)
    <3>1. /\ ThreadWaitSem' = [ThreadWaitSem EXCEPT ![h] = 1] /\ h \in Threads
          /\ pc'[t] \in {"out", "b_pop"} /\ \A v \in Threads \ {t} : pc'[v] = pc[v]
      BY <1>2, <2>1, PopStep
    <3> QED
      BY <3>1 DEF Unsignalled, Typed
  <2> QED
    BY <1>0, <2>2, <2>3 DEF UnsignalledAreListed, Typed
<1>3. ASSUME NEW t \in Threads, Elsewhere(t) PROVE u \in ToSet(WaitList'[cv'[u]])
  BY <1>3, ElsewhereKeeps DEF UnsignalledAreListed
<1>4. CASE UNCHANGED vars
  BY <1>4 DEF UnsignalledAreListed, Unsignalled, vars, state
<1> QED
  BY <1>1, <1>2, <1>3, <1>4, StepKinds

(* The types hold, for any bound on the lists: no step of the library      *)
(* leaves a variable outside of what its declaration allows.               *)
THEOREM TypeCorrect == Spec => []Typed
BY TypedInit, TypedNext, PTL DEF Spec

(* No wakeup is lost: a thread that sleeps on its semaphore is on the      *)
(* WaitList, with any threads, timeouts and condition variables.           *)
THEOREM SleepersListed == Spec => []SleepersAreListed
<1>1. Init => UnsignalledAreListed
  BY DEF Init, Created, UnsignalledAreListed, Unsignalled
<1>2. UnsignalledAreListed => SleepersAreListed
  BY DEF UnsignalledAreListed, Unsignalled, SleepersAreListed
<1> QED
  BY <1>1, <1>2, TypeCorrect, UnsignalledNext, PTL DEF Spec

-----------------------------------------------------------------------------
(* ListedAreWaiting and NoSignalLeftOver need each other: a thread that    *)
(* queues itself is waiting because no signal was left over, and a signal  *)
(* ends a Wait because the front of the list is waiting.                   *)

Accurate == ListedAreWaiting /\ NoSignalLeftOver

(* The lists stay exact.                                                   *)
LEMMA ListedNext ==
    Typed /\ Accurate /\ ~expired' /\ [Next]_vars =>
        \A c \in Cvs : ToSet(WaitList'[c]) = Waiting(c)' /\ IsInjective(WaitList'[c])
<1> SUFFICES ASSUME Typed, Accurate, ~expired', [Next]_vars, NEW d \in Cvs
             PROVE  ToSet(WaitList'[d]) = Waiting(d)' /\ IsInjective(WaitList'[d])
  OBVIOUS
<1>0. /\ Waiting(d) = {u \in Threads : cv[u] = d /\ Unsignalled(u)}
      /\ Waiting(d)' = {u \in Threads : cv'[u] = d /\ Unsignalled(u)'}
      /\ WaitList[d] \in Seq(Threads)
  BY DEF Waiting, Unsignalled, Typed
<1>a. ~expired => ToSet(WaitList[d]) = Waiting(d) /\ IsInjective(WaitList[d])
  BY DEF Accurate, ListedAreWaiting
<1>1. ASSUME NEW t \in Threads, WaitPush(t)
      PROVE  ToSet(WaitList'[d]) = Waiting(d)' /\ IsInjective(WaitList'[d])
  <2>1. ~expired /\ ~Unsignalled(t) /\ Unsignalled(t)'
        /\ \A u \in Threads \ {t} : Unsignalled(u)' <=> Unsignalled(u)
    BY <1>1, PushStep DEF Accurate, NoSignalLeftOver, Unsignalled, Typed
  <2>2. CASE d = cv[t]
    <3>1. Waiting(d)' = Waiting(d) \cup {t} /\ t \notin Waiting(d)
      BY <1>0, <1>1, <2>1, <2>2, PushStep
    <3>2. WaitList'[d] = Append(WaitList[d], t)
      BY <1>1, <2>2, PushStep DEF Typed
    <3> QED
      BY <1>0, <1>a, <2>1, <3>1, <3>2, AppendSet
  <2>3. CASE d # cv[t]
    <3>1. Waiting(d)' = Waiting(d) /\ WaitList'[d] = WaitList[d]
      BY <1>0, <1>1, <2>1, <2>3, PushStep DEF Typed
    <3> QED
      BY <1>a, <2>1, <3>1
  <2> QED
    BY <2>2, <2>3
<1>2. ASSUME NEW t \in Threads, SignalPop(t) \/ BroadcastPop(t)
      PROVE  ToSet(WaitList'[d]) = Waiting(d)' /\ IsInjective(WaitList'[d])
  <2>1. PICK c, h : c = cv[t] /\ h = Head(WaitList[c])
    OBVIOUS
  <2>2. /\ c \in Cvs /\ h \in Threads /\ cv' = cv /\ ~expired
        /\ WaitList' = [WaitList EXCEPT ![c] = Tail(@)]
        /\ ThreadWaitSem' = [ThreadWaitSem EXCEPT ![h] = 1]
        /\ ToSet(WaitList[c]) = ToSet(Tail(WaitList[c])) \cup {h}
        /\ IsInjective(WaitList[c]) =>
              IsInjective(Tail(WaitList[c])) /\ h \notin ToSet(Tail(WaitList[c]))
    <3>1. c \in Cvs /\ h \in Threads /\ WaitList[c] \in Seq(Threads) /\ WaitList[c] # <<>>
      BY <1>2, <2>1, PopStep
    <3>2. cv' = cv /\ expired' = expired
      BY <1>2, <2>1, PopStep
    <3>3. WaitList' = [WaitList EXCEPT ![c] = Tail(@)]
      BY <1>2, <2>1, PopStep
    <3>4. ThreadWaitSem' = [ThreadWaitSem EXCEPT ![h] = 1]
      BY <1>2, <2>1, PopStep
    <3> QED
      BY <2>1, <3>1, <3>2, <3>3, <3>4, TailSet
  <2>3. cv[h] = c
    BY <2>2 DEF Accurate, ListedAreWaiting, Waiting
  <2>4. ~Unsignalled(h)' /\ \A u \in Threads \ {h} : Unsignalled(u)' <=> Unsignalled(u)
    <3>1. /\ pc[t] \in {"s_pop", "b_pop"} /\ pc'[t] \in {"out", "b_pop"}
          /\ \A v \in Threads \ {t} : pc'[v] = pc[v]
      BY <1>2, <2>1, PopStep
    <3> QED
      BY <2>2, <3>1 DEF Unsignalled, Typed
  <2>5. CASE d = c
    <3>1. Waiting(d)' = Waiting(d) \ {h}
      BY <1>0, <2>2, <2>4
    <3>2. WaitList'[d] = Tail(WaitList[d])
      BY <2>2, <2>5 DEF Typed
    <3> QED
      BY <1>a, <2>2, <2>5, <3>1, <3>2
  <2>6. CASE d # c
    <3>1. Waiting(d)' = Waiting(d) /\ WaitList'[d] = WaitList[d]
      BY <1>0, <2>2, <2>3, <2>4, <2>6 DEF Typed
    <3> QED
      BY <1>a, <2>2, <3>1
  <2> QED
    BY <2>5, <2>6
<1>3. ASSUME NEW t \in Threads, Elsewhere(t)
      PROVE  ToSet(WaitList'[d]) = Waiting(d)' /\ IsInjective(WaitList'[d])
  <2>1. ~expired
    BY <1>3 DEF Elsewhere, Client, LockCvLock, UnlockCvLock, CallWait, CallSignal, CallBroadcast,
                WaitLock, WaitDropCvLock, WaitTake, WaitTimeout, WaitGrabCvLock, NotifyLock,
                NotifyDone
  <2> QED
    BY <1>0, <1>a, <1>3, <2>1, ElsewhereKeeps
<1>4. CASE UNCHANGED vars
  <2>1. Waiting(d)' = Waiting(d) /\ WaitList' = WaitList /\ expired' = expired
    BY <1>4 DEF Waiting, vars, state
  <2> QED
    BY <1>a, <2>1
<1> QED
  BY <1>1, <1>2, <1>3, <1>4, StepKinds

(* No signal is ever left over.                                            *)
LEMMA LeftOverNext ==
    Typed /\ Accurate /\ ~expired' /\ [Next]_vars => NoSignalLeftOver'
<1> SUFFICES ASSUME Typed, Accurate, ~expired', [Next]_vars, NEW u \in Threads
             PROVE  /\ ThreadWaitSem'[u] = 1 => pc'[u] \in {"w_drop", "w_take"} /\ notified'[u]
                    /\ pc'[u] = "w_grab" /\ returned'[u] => notified'[u]
  BY DEF NoSignalLeftOver
<1> DEFINE Goal == /\ ThreadWaitSem'[u] = 1 => pc'[u] \in {"w_drop", "w_take"} /\ notified'[u]
                   /\ pc'[u] = "w_grab" /\ returned'[u] => notified'[u]
<1>0. ~expired => /\ ThreadWaitSem[u] = 1 => pc[u] \in {"w_drop", "w_take"} /\ notified[u]
                  /\ pc[u] = "w_grab" /\ returned[u] => notified[u]
  BY DEF Accurate, NoSignalLeftOver
<1>1. ASSUME NEW t \in Threads, WaitPush(t) PROVE Goal
  BY <1>0, <1>1, PushStep
<1>2. ASSUME NEW t \in Threads, SignalPop(t) \/ BroadcastPop(t) PROVE Goal
  <2>1. PICK c, h : c = cv[t] /\ h = Head(WaitList[c])
    OBVIOUS
  <2>2. h \in ToSet(WaitList[c]) /\ c \in Cvs /\ ~expired
    BY <1>2, <2>1, PopStep, TailSet
  <2>3. pc[h] \in {"w_drop", "w_take"}
    BY <2>2 DEF Accurate, ListedAreWaiting, Waiting
  <2>4. /\ ThreadWaitSem' = [ThreadWaitSem EXCEPT ![h] = 1]
        /\ notified' = [notified EXCEPT ![h] = TRUE] /\ returned' = returned
        /\ pc[t] \in {"s_pop", "b_pop"} /\ pc'[t] \in {"out", "b_pop"}
        /\ \A v \in Threads \ {t} : pc'[v] = pc[v]
    BY <1>2, <2>1, PopStep
  <2> QED
    BY <1>0, <2>2, <2>3, <2>4 DEF Typed
<1>3. ASSUME NEW t \in Threads, Elsewhere(t) PROVE Goal
  <2> USE DEF Typed, Go, PCs, WaitPCs
  <2>1. CASE Client(t)
    BY <1>0, <2>1
    DEF Client, LockCvLock, UnlockCvLock, CallWait, CallSignal, CallBroadcast, state
  <2>2. CASE WaitLock(t) \/ WaitDropCvLock(t) \/ WaitTimeout(t) \/ WaitGrabCvLock(t)
    BY <1>0, <2>2 DEF WaitLock, WaitDropCvLock, WaitTimeout, WaitGrabCvLock, state
  <2>3. CASE WaitTake(t)
    BY <1>0, <2>3 DEF WaitTake
  <2>4. CASE NotifyLock(t) \/ NotifyDone(t)
    BY <1>0, <2>4 DEF NotifyLock, NotifyDone
  <2> QED
    BY <1>3, <2>1, <2>2, <2>3, <2>4 DEF Elsewhere
<1>4. CASE UNCHANGED vars
  BY <1>0, <1>4 DEF vars, state
<1> QED
  BY <1>1, <1>2, <1>3, <1>4, StepKinds

(* Both hold across every step.                                            *)
LEMMA AccurateNext == Typed /\ Accurate /\ [Next]_vars => Accurate'
<1> SUFFICES ASSUME Typed, Accurate, [Next]_vars PROVE Accurate'
  OBVIOUS
<1>1. CASE expired'
  BY <1>1 DEF Accurate, ListedAreWaiting, NoSignalLeftOver
<1>2. CASE ~expired'
  BY <1>2, ListedNext, LeftOverNext DEF Accurate, ListedAreWaiting
<1> QED
  BY <1>1, <1>2

(* The lists are empty at first, and the semaphores too.                   *)
LEMMA AccurateInit == Init => Accurate
BY DEF Init, Created, Accurate, ListedAreWaiting, NoSignalLeftOver, Waiting, ToSet, IsInjective

(* Until a Wait times out both hold.                                       *)
LEMMA AccurateAlways == Spec => []Accurate
BY TypeCorrect, AccurateInit, AccurateNext, PTL DEF Spec

(* Until a Wait times out, a WaitList holds the threads that wait and were *)
(* not signalled, each once.                                               *)
THEOREM ListsExact == Spec => []ListedAreWaiting
<1>1. Accurate => ListedAreWaiting
  BY DEF Accurate
<1> QED
  BY <1>1, AccurateAlways, PTL

(* Until a Wait times out, every signal ends the Wait it was given for.    *)
THEOREM SignalsConsumed == Spec => []NoSignalLeftOver
<1>1. Accurate => NoSignalLeftOver
  BY DEF Accurate
<1> QED
  BY <1>1, AccurateAlways, PTL

=============================================================================
