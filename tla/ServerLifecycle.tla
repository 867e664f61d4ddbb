---------------------------- MODULE ServerLifecycle ----------------------------
(***************************************************************************)
(* What ServerSession and its runtime states promise, without the loops,   *)
(* the EtherCAT master and the diagnostics behind them: the transitions of *)
(* ServerRuntimeState (motion_server/app/session.py) that a client can     *)
(* observe, and how they depend on an active server or bus fault.          *)
(*                                                                         *)
(* ServerRuntime implements this specification.                            *)
(***************************************************************************)

VARIABLES
    mode,    \* the runtime state, or the state of a process that serves none
    faulty   \* a server or bus fault is active

Modes == {"starting", "initialization_error", "normal", "fault",
          "bus_disconnected", "unserved"}

\* States with an attached runtime.
Connected == {"normal", "fault", "bus_disconnected"}

TypeOK == mode \in Modes /\ faulty \in BOOLEAN

Init == mode = "starting" /\ faulty = FALSE

\* mark_failed: degraded, with the initialization fault active.
StartFails ==
    /\ mode = "starting"
    /\ mode' = "initialization_error"
    /\ faulty' = TRUE

\* mark_ready
StartSucceeds ==
    /\ mode = "starting"
    /\ mode' = "normal"
    /\ faulty' = FALSE

\* A reconnect, a fault reset or an axis restart returns to NORMAL, and only
\* without an active server or bus fault.
Recovers ==
    /\ mode \in {"initialization_error", "fault", "bus_disconnected"}
    /\ mode' = "normal"
    /\ faulty' = FALSE

\* Operation is restricted: faults come and go in FAULT without lifting it.
Restricts ==
    /\ mode \in {"normal", "fault"}
    /\ mode' = "fault"
    /\ faulty' \in BOOLEAN

\* The bus is lost or a recovery failed; only Recovers or a restart leave it.
Disconnects ==
    /\ mode \in Connected
    /\ mode' = "bus_disconnected"
    /\ faulty' \in BOOLEAN

\* The process restarts.
Restarts ==
    /\ mode \notin {"starting"}
    /\ mode' = "starting"
    /\ faulty' = FALSE

\* The process ends, or its state no longer belongs to its session.
Fails ==
    /\ mode \in Connected \union {"initialization_error"}
    /\ mode' = "unserved"
    /\ faulty' = FALSE

Next ==
    \/ StartFails
    \/ StartSucceeds
    \/ Recovers
    \/ Restricts
    \/ Disconnects
    \/ Restarts
    \/ Fails

Spec == Init /\ [][Next]_<<mode, faulty>>
===============================================================================
