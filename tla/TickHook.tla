------------------------------- MODULE TickHook -------------------------------
(***************************************************************************)
(* Tick hooks, ctickhook.cpp: objects on a std::list that the interrupt of *)
(* each tick walks, to call Run of those that are enabled.  Tasks change   *)
(* the list, and Enabled, in critical sections, which keep the interrupt   *)
(* and all other tasks out.                                                *)
(***************************************************************************)
EXTENDS TimerDaemon, SequencesExt

CONSTANTS
    Hooks,          \* the objects
    MaxCallbacks    \* bound on the list

VARIABLES
    Callbacks, Enabled,
    hook,           \* "alive", "half": the derived part is destroyed, or "gone"
    disabled,       \* history: was it disabled when its destruction began?
    critical,       \* the task that is in a critical section, or None
    torn,           \* is Callbacks in the middle of a change?
    walk            \* the hooks the interrupt has yet to visit; <<>> when there is none

hookVars == <<Callbacks, Enabled, hook, disabled, critical, torn, walk>>

HookInit ==
    /\ Callbacks = <<>>
    /\ Enabled = [h \in Hooks |-> TRUE]
    /\ hook = [h \in Hooks |-> "alive"]
    /\ disabled = [h \in Hooks |-> FALSE]
    /\ critical = None /\ torn = FALSE /\ walk = <<>>

(* A task runs while no interrupt does, and no critical section of another.*)
MayRun(c) == walk = <<>> /\ critical \in {None, c}

-----------------------------------------------------------------------------

(* taskENTER_CRITICAL, and a change of the list begins; it is made, and    *)
(* taskEXIT_CRITICAL.                                                      *)
EnterCritical(c) == critical' = c /\ torn' = TRUE
ExitCritical     == critical' = None /\ torn' = FALSE

Register(c, h) ==
    /\ hook[h] = "alive" /\ Len(Callbacks) < MaxCallbacks
    /\ Enter(c, "h_register", h)
    /\ EnterCritical(c)
    /\ UNCHANGED <<daemonVars, Callbacks, Enabled, hook, disabled, walk>>

PushFront(c) ==
    /\ Return(c, "h_register")
    /\ Callbacks' = <<arg[c]>> \o Callbacks
    /\ ExitCritical
    /\ UNCHANGED <<daemonVars, Enabled, hook, disabled, walk>>

(* Enable and Disable, one store in a critical section.                    *)
SetEnabled(c, h, value) ==
    /\ hook[h] = "alive" /\ where[c] = "out"
    /\ c = Daemon => executing # None
    /\ Enabled' = [Enabled EXCEPT ![h] = value]
    /\ UNCHANGED <<where, arg, daemonVars, Callbacks, hook, disabled, critical, torn, walk>>

(* The derived destructor, while no other call is made of the hook.        *)
DestroyHook(c, h) ==
    /\ hook[h] = "alive"
    /\ \A d \in Contexts : arg[d] # h
    /\ Enter(c, "h_destroy", h)
    /\ hook' = [hook EXCEPT ![h] = "half"]
    /\ disabled' = [disabled EXCEPT ![h] = ~Enabled[h]]
    /\ UNCHANGED <<daemonVars, Callbacks, Enabled, critical, torn, walk>>

(* ~TickHook                                                               *)
Unregister(c) ==
    /\ Go(c, "h_destroy", "h_remove")
    /\ EnterCritical(c)
    /\ UNCHANGED <<arg, daemonVars, Callbacks, Enabled, hook, disabled, walk>>

(* list::remove: what is left are the other hooks, in the order they had.  *)
Rest(h) ==
    LET others == {i \in DOMAIN Callbacks : Callbacks[i] # h}
        ranks  == [1 .. Cardinality(others) -> others]
    IN  {[i \in DOMAIN f |-> Callbacks[f[i]]] :
            f \in {g \in ranks : \A i, j \in DOMAIN g : i < j => g[i] < g[j]}}

RemoveHook(c) ==
    /\ Return(c, "h_remove")
    /\ Callbacks' \in Rest(arg[c])
    /\ hook' = [hook EXCEPT ![arg[c]] = "gone"]
    /\ ExitCritical
    /\ UNCHANGED <<daemonVars, Enabled, disabled, walk>>

HookStep(c) == PushFront(c) \/ Unregister(c) \/ RemoveHook(c)

-----------------------------------------------------------------------------
(* vApplicationTickHook *)

TickInterrupt ==
    /\ critical = None /\ walk = <<>> /\ Callbacks # <<>>
    /\ walk' = Callbacks
    /\ UNCHANGED <<where, arg, daemonVars, Callbacks, Enabled, hook, disabled, critical, torn>>

VisitDone == walk' = Tail(walk) /\ UNCHANGED <<Callbacks, Enabled, hook, disabled, critical, torn>>

(* A hook that is not enabled, or does nothing with tasklets and timers.   *)
VisitHook ==
    /\ walk # <<>> /\ VisitDone
    /\ UNCHANGED <<where, arg, daemonVars>>

(* Run of one that does.                                                   *)
RunHook == walk # <<>> /\ Enabled[Head(walk)] /\ VisitDone

=============================================================================
