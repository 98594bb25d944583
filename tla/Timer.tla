-------------------------------- MODULE Timer --------------------------------
(***************************************************************************)
(* Software timers, ctimer.cpp: each method sends one command to the timer *)
(* daemon; the destructor sends the command that deletes the timer, and    *)
(* does not wait until it is executed.                                     *)
(***************************************************************************)
EXTENDS TimerDaemon

VARIABLES
    timer,      \* "alive", "half": the derived part is destroyed, or "gone"
    quiet       \* history: was it inactive, and none of its commands on the
                \* way, when its destruction began?

timerVars == <<timer, quiet>>

(* xTimerCreate: dormant.                                                  *)
TimerInit ==
    /\ timer = [m \in Timers |-> "alive"]
    /\ quiet = [m \in Timers |-> FALSE]

(* Start, Reset and SetPeriod all start the timer; Stop.                   *)
CallTimer(c, m, what) ==
    /\ timer[m] = "alive"
    /\ Enter(c, "m_send", <<what, m>>)
    /\ UNCHANGED <<daemonVars, timerVars>>

SendTimerCommand(c) ==
    /\ Return(c, "m_send")
    /\ Send(arg[c])
    /\ UNCHANGED <<executing, active, timerVars>>

(* CmdTimeout is over and there was no room: false.                        *)
TimerCommandTimesOut(c) ==
    /\ Full
    /\ Return(c, "m_send")
    /\ UNCHANGED <<daemonVars, timerVars>>

(* StartFromISR, ResetFromISR, SetPeriodFromISR and StopFromISR.           *)
TimerFromISR(m, what) ==
    /\ timer[m] = "alive"
    /\ Send(<<what, m>>)
    /\ UNCHANGED <<where, arg, executing, active, timerVars>>

-----------------------------------------------------------------------------
(* The destructor, called while no other call is made of the timer *)

Pending(m) == \E what \in {"start", "stop"}, i \in DOMAIN commands : commands[i] = <<what, m>>

DestroyTimer(c, m) ==
    /\ timer[m] = "alive"
    /\ \A d \in Contexts, what \in {"start", "stop"} : arg[d] # <<what, m>>
    /\ Enter(c, "m_delete", m)
    /\ timer' = [timer EXCEPT ![m] = "half"]
    /\ quiet' = [quiet EXCEPT ![m] =
                    m \notin active /\ ~Pending(m) /\ executing # <<"expired", m>>]
    /\ UNCHANGED daemonVars

(* Mutant: xTimerDelete(handle, 0).                                        *)
SendDeleteOrNot(c) ==
    /\ Return(c, "m_delete")
    /\ IF Full THEN UNCHANGED commands ELSE Send(<<"delete", arg[c]>>)
    /\ timer' = [timer EXCEPT ![arg[c]] = "gone"]
    /\ UNCHANGED <<executing, active, quiet>>

(* xTimerDelete(handle, portMAX_DELAY)                                     *)
SendDelete(c) ==
    /\ Return(c, "m_delete")
    /\ Send(<<"delete", arg[c]>>)
    /\ timer' = [timer EXCEPT ![arg[c]] = "gone"]
    /\ UNCHANGED <<executing, active, quiet>>

TimerStep(c) == SendTimerCommand(c) \/ SendDelete(c)

=============================================================================
