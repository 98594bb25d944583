----------------------------- MODULE DeferredWork -----------------------------
(***************************************************************************)
(* Tasklets, timers and tick hooks together: tasks, hooks and the timer    *)
(* daemon itself schedule tasklets and command timers, and create and      *)
(* destroy everything, at any time, over one queue of commands.            *)
(* What follows the use of an object that is gone is not followed.         *)
(***************************************************************************)
EXTENDS Tasklet, Timer, TickHook

vars == <<where, arg, daemonVars, taskletVars, timerVars, hookVars>>

TypeOK ==
    /\ where \in [Contexts -> {"out", "k_take", "k_pend", "k_back", "d_take", "d_delete", "m_send",
                           "m_delete", "h_register", "h_destroy", "h_remove"}]
    /\ arg \in [Contexts -> {None} \cup Tasklets \cup Timers \cup Hooks \cup Commands]
    /\ commands \in Seq(Commands) /\ Len(commands) <= QueueLength
    /\ executing \in {None} \cup ({"run", "give"} \X Tasklets) \cup ({"expired"} \X Timers)
    /\ active \subseteq Timers
    /\ DtorLock \in [Tasklets -> {0, 1}]
    /\ tasklet \in [Tasklets -> {"alive", "dying", "gone"}]
    /\ timer \in [Timers -> {"alive", "half", "gone"}] /\ quiet \in [Timers -> BOOLEAN]
    /\ hook \in [Hooks -> {"alive", "half", "gone"}]
    /\ Enabled \in [Hooks -> BOOLEAN] /\ disabled \in [Hooks -> BOOLEAN]
    /\ Callbacks \in Seq(Hooks) /\ walk \in Seq(Hooks)
    /\ critical \in Contexts \cup {None} /\ torn \in BOOLEAN

Init == DaemonInit /\ TaskletInit /\ TimerInit /\ HookInit

(* What is called, or its memory read, though it is gone, or partly gone:  *)
(* Run of a tasklet, until DtorLock is given; Run of a timer or of a hook, *)
(* which only a whole object has.                                          *)
UsesTasklet(k) == executing \in {"run", "give"} \X {k} /\ tasklet[k] = "gone"
UsesTimer(m)   == executing = <<"expired", m>> /\ timer[m] # "alive"
UsesHook(h)    == /\ walk # <<>> /\ Head(walk) = h
                  /\ hook[h] = "gone" \/ (hook[h] = "half" /\ Enabled[h])

Undefined ==
    \/ \E k \in Tasklets : UsesTasklet(k)
    \/ \E m \in Timers : UsesTimer(m)
    \/ \E h \in Hooks : UsesHook(h)
    \/ torn /\ walk # <<>>

-----------------------------------------------------------------------------

Call(c) ==
    \/ /\ \E k \in Tasklets : Schedule(c, k) \/ DestroyTasklet(c, k)
       /\ UNCHANGED <<timerVars, hookVars>>
    \/ /\ \E m \in Timers : DestroyTimer(c, m) \/ \E what \in {"start", "stop"} : CallTimer(c, m, what)
       /\ UNCHANGED <<taskletVars, hookVars>>
    \/ /\ \E h \in Hooks :
             Register(c, h) \/ DestroyHook(c, h) \/ \E value \in BOOLEAN : SetEnabled(c, h, value)
       /\ UNCHANGED <<taskletVars, timerVars>>

(* Steps inside a call, and those that only the end of a Timeout takes.    *)
Step(c) ==
    \/ TaskletStep(c) /\ UNCHANGED <<timerVars, hookVars>>
    \/ TimerStep(c) /\ UNCHANGED <<taskletVars, hookVars>>
    \/ HookStep(c) /\ UNCHANGED <<taskletVars, timerVars>>

TimesOut(c) ==
    \/ PendTimesOut(c) /\ UNCHANGED <<timerVars, hookVars>>
    \/ TimerCommandTimesOut(c) /\ UNCHANGED <<taskletVars, hookVars>>

Receives == (ReceiveRun \/ ReceiveTimerCommand) /\ UNCHANGED <<taskletVars, timerVars, hookVars>>

Returns ==
    \/ CallbackReturns /\ UNCHANGED <<taskletVars, timerVars, hookVars>>
    \/ (PendedReturns \/ AdapterGives) /\ UNCHANGED <<timerVars, hookVars>>

Expires == (\E m \in Timers : Expire(m)) /\ UNCHANGED <<taskletVars, timerVars, hookVars>>

Interrupt ==
    \/ (TickInterrupt \/ VisitHook) /\ UNCHANGED <<taskletVars, timerVars>>
    \/ RunHook /\ (\E k \in Tasklets : ScheduleFromISR(k) \/ ScheduleFromISRFails(k)) /\ UNCHANGED timerVars
    \/ /\ RunHook /\ (\E m \in Timers, what \in {"start", "stop"} : TimerFromISR(m, what))
       /\ UNCHANGED taskletVars

Next ==
    /\ ~Undefined
    /\ \/ \E c \in Contexts : MayRun(c) /\ (Call(c) \/ Step(c) \/ TimesOut(c))
       \/ MayRun(Daemon) /\ (Receives \/ Returns \/ Expires)
       \/ Interrupt

Spec == Init /\ [][Next]_vars

(* The scheduler runs what is ready, if only between interrupts, which     *)
(* end.  The daemon has the highest priority (configTIMER_TASK_PRIORITY),  *)
(* and is the first to get what it waits for; between two timers that      *)
(* expire it looks at its queue; callbacks end.  Nobody has to make a      *)
(* call, and no Timeout has to be finite.                                  *)
FairSpec ==
    /\ Spec
    /\ \A c \in Contexts : SF_vars(~Undefined /\ MayRun(c) /\ Step(c))
    /\ SF_vars(~Undefined /\ MayRun(Daemon) /\ Receives)
    /\ SF_vars(~Undefined /\ MayRun(Daemon) /\ Returns)
    /\ WF_vars(~Undefined /\ walk # <<>> /\ Interrupt)

-----------------------------------------------------------------------------
(* Properties *)

(* DtorLock is empty exactly while one party has taken it and not given it *)
(* back: a task in Schedule, a place in the queue, the daemon, or the      *)
(* destructor.  So a tasklet is never pending twice, and no DtorLock is    *)
(* leaked, not by a Schedule that failed either, nor by an interrupt.      *)
TaskletAccounted ==
    \A k \in Tasklets : tasklet[k] # "gone" =>
        /\ DtorLock[k] = 1 <=> Holders(k) = {}
        /\ \A x, y \in Holders(k) : x = y

(* Nothing that is gone is used: no tasklet whose destructor called        *)
(* CheckForSafeDelete; no timer that was inactive, and had no command on   *)
(* the way, when its destructor was called; no hook that was disabled, and *)
(* none, disabled or not, after its destructor.  And no interrupt walks a  *)
(* list that is being changed.                                             *)
NothingGoneIsUsed ==
    /\ \A k \in Tasklets : ~UsesTasklet(k)
    /\ \A m \in Timers : quiet[m] => ~UsesTimer(m)
    /\ \A h \in Hooks : UsesHook(h) => hook[h] = "half" /\ ~disabled[h]
    /\ ~(torn /\ walk # <<>>)

(* The daemon waits for what only the daemon could do: for a DtorLock that *)
(* is taken, by nobody who is about to give it, or for room in the queue.  *)
Stuck ==
    \/ /\ where[Daemon] \in {"k_take", "d_take"}
       /\ DtorLock[arg[Daemon]] = 0
       /\ \A c \in Tasks : arg[c] = arg[Daemon] => where[c] \notin {"k_back", "k_pend"} \/ (Full /\ where[c] = "k_pend")
    \/ where[Daemon] \in {"k_pend", "m_send", "m_delete"} /\ Full

(* Every tasklet that was scheduled runs, and every timer that is          *)
(* destroyed is deleted in the end: unless a callback waits for the daemon *)
(* it runs in, or what is gone is used, or callbacks keep the daemon.      *)
CommandsExecuted ==
    ([]<>~Stuck /\ []~Undefined) =>
        /\ \A k \in Tasklets : (\E i \in DOMAIN commands : commands[i] = <<"run", k>>) ~> executing = <<"run", k>>
        /\ \A m \in Timers : timer[m] = "gone" ~> m \notin active /\ ~Pending(m)

=============================================================================
