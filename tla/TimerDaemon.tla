----------------------------- MODULE TimerDaemon -----------------------------
(***************************************************************************)
(* The timer daemon of FreeRTOS, as tasklets and timers use it, and the    *)
(* tasks that call it.  The kernel is not part of the repository.          *)
(*                                                                         *)
(* Commands are sent to a queue of QueueLength places, in which a sender   *)
(* may wait for room, and are executed in the order they were sent.        *)
(* Timers expire only between two commands.  What the daemon executes may  *)
(* call the library itself, and the daemon may have to wait there.         *)
(***************************************************************************)
EXTENDS Naturals, Sequences

CONSTANTS
    Tasks, Daemon,      \* who may call; Daemon is the timer task
    Tasklets, Timers,   \* the objects
    None,               \* no task, no command, no object
    QueueLength         \* configTIMER_QUEUE_LENGTH

Contexts == Tasks \cup {Daemon}

ASSUME TimerDaemonAssumption ==
    /\ Daemon \notin Tasks
    /\ None \notin Contexts
    /\ None \notin ({"run", "give"} \X Tasklets) \cup ({"expired"} \X Timers)
    /\ QueueLength \in Nat \ {0}

VARIABLES
    where,      \* where each task is in the library, "out" when in no call
    arg,        \* the object that call is of, or the command it sends
    commands,   \* the queue, of <<what, object>>
    executing,  \* the command the daemon executes, or None
    active      \* the timers that may expire

daemonVars == <<commands, executing, active>>

Commands ==
    ({"run"} \X Tasklets) \cup ({"start", "stop", "delete"} \X Timers)

DaemonInit ==
    /\ where = [c \in Contexts |-> "out"]
    /\ arg = [c \in Contexts |-> None]
    /\ commands = <<>> /\ executing = None /\ active = {}

Go(c, from, to) == where[c] = from /\ where' = [where EXCEPT ![c] = to]

(* The daemon calls the library from what it executes only.                *)
Enter(c, to, object) ==
    /\ c = Daemon => executing # None
    /\ Go(c, "out", to)
    /\ arg' = [arg EXCEPT ![c] = object]

Return(c, from) == Go(c, from, "out") /\ arg' = [arg EXCEPT ![c] = None]

Full == Len(commands) = QueueLength

(* Of xTimerGenericCommand and xTimerPendFunctionCall, with room.          *)
Send(command) == ~Full /\ commands' = Append(commands, command)

Receive == executing = None /\ commands # <<>> /\ commands' = Tail(commands)

(* The function that was pended is called.                                 *)
ReceiveRun ==
    /\ Receive /\ Head(commands)[1] = "run"
    /\ executing' = Head(commands)
    /\ UNCHANGED <<where, arg, active>>

(* Commands for timers are executed at once.                               *)
ReceiveTimerCommand ==
    LET what == Head(commands)[1]
        m    == Head(commands)[2]
    IN  /\ Receive /\ what # "run"
        /\ active' = IF what = "start" THEN active \cup {m} ELSE active \ {m}
        /\ UNCHANGED <<where, arg, executing>>

(* The callback is called; a periodic timer stays active.                  *)
Expire(m) ==
    /\ executing = None /\ m \in active
    /\ executing' = <<"expired", m>>
    /\ active' \in {active, active \ {m}}
    /\ UNCHANGED <<where, arg, commands>>

CallbackReturns ==
    /\ where[Daemon] = "out" /\ executing \in {"expired"} \X Timers
    /\ executing' = None
    /\ UNCHANGED <<where, arg, commands, active>>

=============================================================================
