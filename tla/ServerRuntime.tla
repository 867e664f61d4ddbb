----------------------------- MODULE ServerRuntime -----------------------------
(***************************************************************************)
(* The runtime life cycle of the Motion Server process: start-up and its   *)
(* failures, the degraded server, the cyclic server loop, the              *)
(* bus-disconnected loop, bus reconnect, axis restart, fault reset and     *)
(* process restart.                                                        *)
(*                                                                         *)
(*   motion_server/server.py          the three loops and start-up         *)
(*   motion_server/app/session.py     ServerSession, ServerRuntimeState    *)
(*   motion_server/app/recovery.py    reconnect and axis restart           *)
(*   motion_server/diagnostic/        manager, runtime monitor             *)
(*   motion_server/api/validator.py   which command is admitted            *)
(*                                                                         *)
(* The process is single threaded.  One pass of the server loop is a PDO   *)
(* cycle ("cycle"), the homing update ("homing") and one round of client   *)
(* requests ("clients"); every request runs to completion before the next. *)
(* What the bus, the drives and the clock do is chosen in each action.     *)
(***************************************************************************)
EXTENDS Naturals, DiagnosticManager

CONSTANTS NAxes,              \* number of configured CMMT axes
          MismatchThreshold   \* BUS_WKC_MISMATCH_DETECTION_CYCLES

ASSUME NAxesAssumption == NAxes \in Nat \ {0}
ASSUME ThresholdAssumption == MismatchThreshold \in Nat \ {0}

Axes == 0 .. NAxes - 1

-----------------------------------------------------------------------------
(* Types *)

RuntimeStates == {"normal", "initialization_error", "bus_disconnected", "fault"}

Stages == {"configuration", "device_model_build", "runtime_creation",
           "bus_connection", "device_initialization"}

InitStatus == Stages \union {"ready"}

\* session.runtime is None, or the PDO phase of its EtherCAT master
\* (pysoem_master.py): closed, idle, prepared (send pending), sent (receive
\* pending).
Links == {"none", "closed", "idle", "prepared", "sent"}

GlobalCodes == {"SERVER_INITIALIZATION_FAILED", "BUS_PROCESS_DATA_INCOMPLETE",
                "BUS_CONNECTION_LOST", "BUS_RECONNECT_FAILED"}

BusCodes == GlobalCodes \ {"SERVER_INITIALIZATION_FAILED"}

AxisFaultCodes == {"AXIS_DRIVE_FAULT", "AXIS_RESTART_FAILED",
                   "PARAMETER_REFRESH_FAILED"}

AxisCodes == AxisFaultCodes \union {"AXIS_DRIVE_WARNING"}

Loops == {"startup", "degraded", "server", "disconnected", "restarting",
          "crashed", "orphaned"}

Phases == {"cycle", "homing", "clients"}

VARIABLES
    loop,             \* which loop of server.py runs, or how it ended
    phase,            \* the part of run_server_loop that runs next
    runtimeState,     \* session.runtime_state
    sessionInit,      \* session.initialization_status: "ready" or failed stage
    link,             \* session.runtime and its master
    fullState,        \* state is initial_server_state, not initial_degraded_state
    stateInit,        \* state["initialization_status"]
    reconnectOp,      \* state has "bus_reconnect_operation"
    restartRequested, \* state["server_restart_requested"]
    homingActive,     \* state["homing"]["active"]
    mismatch,         \* RuntimeDiagnosticMonitor._bus_wkc_mismatch_cycles, capped
    gdiag,            \* standing of the server and bus diagnostics
    adiag,            \* standing of each axis' diagnostics
    badRun            \* history: latest exchanges that all had a wrong WKC, capped

session == <<runtimeState, sessionInit, link>>
state == <<fullState, stateInit, reconnectOp, restartRequested>>
control == <<loop, phase>>
vars == <<loop, phase, runtimeState, sessionInit, link, fullState, stateInit,
          reconnectOp, restartRequested, homingActive, mismatch, gdiag, adiag,
          badRun>>

TypeOK ==
    /\ loop \in Loops
    /\ phase \in Phases
    /\ runtimeState \in RuntimeStates
    /\ sessionInit \in InitStatus
    /\ link \in Links
    /\ fullState \in BOOLEAN
    /\ stateInit \in InitStatus
    /\ reconnectOp \in BOOLEAN
    /\ restartRequested \in BOOLEAN
    /\ homingActive \in BOOLEAN
    /\ mismatch \in 0 .. MismatchThreshold
    /\ gdiag \in [GlobalCodes -> Standing]
    /\ adiag \in [Axes -> [AxisCodes -> Standing]]
    /\ badRun \in 0 .. MismatchThreshold

-----------------------------------------------------------------------------
(* Admission of requests (api/validator.py).  Requests of clients without   *)
(* command authority change nothing; CommandAuthority models that part.     *)

DegradedAllowed == {"system/server/fault_reset", "system/server/restart",
                    "system/bus/fault_reset", "system/bus/reconnect"}

GlobalFaultAllowed == DegradedAllowed \union
                      {"system/axis/disable", "system/axis/fault_reset",
                       "system/axis/stop"}

AxisFaultAllowed == {"system/axis/disable", "system/axis/fault_reset",
                     "system/axis/restart", "system/axis/stop"}

\* INITIALIZATION_RECOVERY_SCOPE: BUS_RECONNECT = 1 < SERVER_RESTART = 2.
RequiredScope(stage) ==
    IF stage \in {"bus_connection", "device_initialization"} THEN 1 ELSE 2

\* recovery_scope_allowed for the two commands of RECOVERY_COMMAND_SCOPES.
ScopeAllowed(cmd) ==
    /\ cmd = "system/bus/reconnect" => RequiredScope(stateInit) <= 1
    /\ cmd = "system/server/restart" => RequiredScope(stateInit) <= 2

HasGlobalFault(g) == \E c \in GlobalCodes : IsActive(g[c])

HasAxisFault(a) == \E c \in AxisFaultCodes : IsActive(adiag[a][c])

\* command_allowed_by_runtime_state up to the axis selection.
AllowedByRuntimeState(cmd) ==
    /\ cmd = "system/bus/reconnect" => runtimeState # "normal"
    /\ runtimeState \in {"fault", "bus_disconnected"} => cmd \in GlobalFaultAllowed

\* validate_command returns None for a server or bus command.
Admitted(cmd) ==
    /\ stateInit # "ready" => cmd \in DegradedAllowed /\ ScopeAllowed(cmd)
    /\ AllowedByRuntimeState(cmd)

\* validate_command returns None for a command on axis a.
AdmittedOnAxis(cmd, a) ==
    /\ Admitted(cmd)
    /\ cmd \in AxisFaultAllowed \/ ~HasAxisFault(a)

\* A request is being dispatched: service_client in any of the three loops.
Serving == loop \in {"degraded", "server", "disconnected"} /\ phase = "clients"

\* ... in a loop that passes its runtime to the handlers.
ServingRuntime == loop \in {"server", "disconnected"} /\ phase = "clients"

-----------------------------------------------------------------------------
(* exchange() inside a request handler.  It fails in prepare, send or receive *)
(* and leaves the PDO phase there; the router answers Fail and the loop goes  *)
(* on.  A master in another phase than idle refuses to prepare.               *)

ExchangeOk == link = "idle" /\ link' = "idle"

ExchangeRaises ==
    \/ link = "idle" /\ link' \in {"idle", "prepared", "sent"}
    \/ link # "idle" /\ link' = link

\* A handler that calls finish_homing and then does more exchanges: it may
\* stop before or after the homing record is closed.  finish_homing begins
\* with an exchange, so nothing changes while the master refuses one.
HomingMayStop ==
    \/ homingActive' = homingActive
    \/ link = "idle" /\ homingActive' = FALSE

-----------------------------------------------------------------------------
(* Diagnostics of recovery *)

\* refresh_after_recovery resolves PARAMETER_REFRESH_FAILED of the axes in A.
Refreshed(d, A) ==
    [a \in Axes |-> IF a \in A
        THEN [d[a] EXCEPT !["PARAMETER_REFRESH_FAILED"] = Resolve(@)]
        ELSE d[a]]

\* ... and stops at the first axis whose refresh fails.
RefreshFailed(d, A, f) ==
    [Refreshed(d, {a \in A : a < f}) EXCEPT
        ![f]["PARAMETER_REFRESH_FAILED"] = Detect(@)]

\* What a recovery that failed somewhere did to the axis diagnostics: it
\* stopped before, during or after the refresh of the axes in A.
RefreshOutcomes(d, A) ==
    {d, Refreshed(d, A)} \union {RefreshFailed(d, A, f) : f \in A}

\* complete_bus_reconnect_diagnostics: resolve, then acknowledge the bus
\* faults; AXIS_RESTART_FAILED is only resolved.
ReconnectedBus(g) ==
    [c \in GlobalCodes |-> IF c \in BusCodes THEN Acknowledge(Resolve(g[c])) ELSE g[c]]

ReconnectedAxes(d) ==
    [a \in Axes |-> [d[a] EXCEPT !["AXIS_RESTART_FAILED"] = Resolve(@)]]

\* acknowledge_faults(source=...)
AcknowledgedCodes(g, C) ==
    [c \in GlobalCodes |-> IF c \in C THEN Acknowledge(g[c]) ELSE g[c]]

AcknowledgedAxes(d, A) ==
    [a \in Axes |-> [c \in AxisCodes |->
        IF a \in A /\ c \in AxisFaultCodes THEN Acknowledge(d[a][c]) ELSE d[a][c]]]

-----------------------------------------------------------------------------
(* Start-up (application.py run, server.py run_main_once) *)

Init ==
    /\ loop = "startup"
    /\ phase = "clients"
    /\ runtimeState = "normal"
    /\ sessionInit = "ready"
    /\ link = "none"
    /\ fullState = FALSE
    /\ stateInit = "ready"
    /\ reconnectOp = FALSE
    /\ restartRequested = FALSE
    /\ homingActive = FALSE
    /\ mismatch = 0
    /\ gdiag = [c \in GlobalCodes |-> "none"]
    /\ adiag = [a \in Axes |-> [c \in AxisCodes |-> "none"]]
    /\ badRun = 0

\* mark_failed and detect_initialization_fault; the runtime is closed and
\* detached (fail_runtime_initialization).
FailInitialization(stage) ==
    /\ runtimeState' = "initialization_error"
    /\ sessionInit' = stage
    /\ link' = "none"

\* The server starts degraded; withOp says whether the state carries the
\* reconnect operation.
EnterDegraded(stage, withOp) ==
    /\ loop = "startup"
    /\ loop' = "degraded"
    /\ FailInitialization(stage)
    /\ stateInit' = stage
    /\ reconnectOp' = withOp
    /\ gdiag' = [gdiag EXCEPT !["SERVER_INITIALIZATION_FAILED"] = Detect(@)]
    /\ UNCHANGED <<phase, fullState, restartRequested, homingActive, mismatch,
                   adiag, badRun>>

\* The configuration cannot be built: run_configuration_degraded_once.
ConfigurationFails == EnterDegraded("configuration", FALSE)

\* initialize_runtime_session fails: the state gets reconnect_failed_initialization.
InitializationFails ==
    \E stage \in Stages \ {"configuration"} : EnterDegraded(stage, TRUE)

\* build_initialized_server_state fails after a successful initialization.
StateBuildFails == EnterDegraded("device_initialization", FALSE)

StartupCompletes ==
    /\ loop = "startup"
    /\ loop' = "server"
    /\ phase' = "cycle"
    /\ link' = "idle"
    /\ fullState' = TRUE
    /\ UNCHANGED <<runtimeState, sessionInit, stateInit, reconnectOp,
                   restartRequested, homingActive, mismatch, gdiag, adiag, badRun>>


-----------------------------------------------------------------------------
(* The PDO cycle of run_server_loop *)

\* mark_bus_disconnected, then run_bus_disconnected_loop.
MarkDisconnected ==
    /\ loop' = "disconnected"
    /\ phase' = "clients"
    /\ link' = "closed"
    /\ runtimeState' = "bus_disconnected"
    /\ gdiag' = [gdiag EXCEPT !["BUS_CONNECTION_LOST"] = Detect(@)]

InCycle == loop = "server" /\ phase = "cycle"

\* Mutant: the CommunicationException of a closed master is swallowed.
CycleIgnoresClosedMaster ==
    /\ InCycle
    /\ link \in {"closed", "idle"}
    /\ IF link = "closed"
       THEN phase' = "clients" /\ UNCHANGED <<loop, link, runtimeState, gdiag>>
       ELSE MarkDisconnected
    /\ UNCHANGED <<sessionInit, state, homingActive, mismatch, adiag, badRun>>

\* Any exchange of the cycle raises CommunicationException; a closed master
\* always does.
CycleLosesBus ==
    /\ InCycle
    /\ link \in {"closed", "idle"}
    /\ MarkDisconnected
    /\ UNCHANGED <<sessionInit, state, homingActive, mismatch, adiag, badRun>>

\* The master is not in phase idle: prepare_processdata raises RuntimeError,
\* which no handler of run_server_loop catches.
CycleFindsOpenPhase ==
    /\ InCycle
    /\ link \in {"prepared", "sent"}
    /\ loop' = "crashed"
    /\ UNCHANGED <<phase, session, state, homingActive, mismatch, gdiag, adiag,
                   badRun>>

\* The cycle or the status log reads a key of the full state that the
\* degraded state does not have: KeyError.
DegradedStateCrashes ==
    /\ loop = "server"
    /\ ~fullState
    /\ phase \in {"cycle", "clients"}
    /\ loop' = "crashed"
    /\ UNCHANGED <<phase, session, state, homingActive, mismatch, gdiag, adiag,
                   badRun>>

\* The counter is compared with >= only, so it stops at the threshold here.
Capped(n) == IF n > MismatchThreshold THEN MismatchThreshold ELSE n

\* _update_axes: F and W are the axes whose statusword has the fault and the
\* warning bit.
UpdateAxes(F, W) ==
    adiag' = [a \in Axes |-> [adiag[a] EXCEPT
        !["AXIS_DRIVE_FAULT"] = IF a \in F THEN Detect(@) ELSE Resolve(@),
        !["AXIS_DRIVE_WARNING"] =
            IF a \in W THEN Detect(@) ELSE ResolveUnlatched(@)]]

\* update() returned: the loop goes on to update_homing_state.
CycleEnds ==
    /\ \E F, W \in SUBSET Axes : UpdateAxes(F, W)
    /\ phase' = IF homingActive THEN "homing" ELSE "clients"
    /\ UNCHANGED <<loop, sessionInit, link, state, homingActive>>

\* _update_bus with the expected working counter.
CycleMatches ==
    /\ InCycle
    /\ link = "idle"
    /\ mismatch' = 0
    /\ badRun' = 0
    /\ gdiag' = [gdiag EXCEPT !["BUS_PROCESS_DATA_INCOMPLETE"] = Resolve(@)]
    /\ UNCHANGED runtimeState
    /\ CycleEnds

\* _update_bus with a wrong working counter, below the threshold.
CycleMismatches ==
    /\ InCycle
    /\ link = "idle"
    /\ mismatch + 1 < MismatchThreshold
    /\ mismatch' = mismatch + 1
    /\ badRun' = Capped(badRun + 1)
    /\ UNCHANGED <<runtimeState, gdiag>>
    /\ CycleEnds

\* ... at the threshold with the transport available.
CycleDetectsIncompleteData ==
    /\ InCycle
    /\ link = "idle"
    /\ mismatch + 1 >= MismatchThreshold
    /\ mismatch' = Capped(mismatch + 1)
    /\ badRun' = Capped(badRun + 1)
    /\ runtimeState' = "fault"
    /\ gdiag' = [gdiag EXCEPT !["BUS_PROCESS_DATA_INCOMPLETE"] = Detect(@)]
    /\ CycleEnds

\* ... at the threshold with the transport gone: the counter stays.
CycleFindsTransportLost ==
    /\ InCycle
    /\ link = "idle"
    /\ mismatch + 1 >= MismatchThreshold
    /\ mismatch' = Capped(mismatch + 1)
    /\ badRun' = Capped(badRun + 1)
    /\ MarkDisconnected
    /\ UNCHANGED <<sessionInit, state, homingActive, adiag>>

Cycle ==
    \/ CycleLosesBus
    \/ CycleFindsOpenPhase
    \/ CycleMatches
    \/ CycleMismatches
    \/ CycleDetectsIncompleteData
    \/ CycleFindsTransportLost

-----------------------------------------------------------------------------
(* update_homing_state, called outside the try blocks of the cycle *)

InHoming == loop = "server" /\ phase = "homing"

HomingContinues ==
    /\ InHoming
    /\ phase' = "clients"
    /\ UNCHANGED <<loop, session, state, homingActive, mismatch, gdiag, adiag,
                   badRun>>

\* Error bit or referenced: finish_homing.
HomingFinishes ==
    /\ InHoming
    /\ phase' = "clients"
    /\ homingActive' = FALSE
    /\ UNCHANGED <<loop, session, state, mismatch, gdiag, adiag, badRun>>

\* An exchange of finish_homing raises and nothing catches it.
HomingFinishRaises ==
    /\ InHoming
    /\ ExchangeRaises
    /\ loop' = "crashed"
    /\ UNCHANGED <<phase, runtimeState, sessionInit, state, homingActive,
                   mismatch, gdiag, adiag, badRun>>

Homing == HomingContinues \/ HomingFinishes \/ HomingFinishRaises

-----------------------------------------------------------------------------
(* Requests on the server and the bus *)

\* Mutant: a fault reset lifts the restriction without looking at the faults.
RefreshedUnconditionally(g) ==
    IF link # "none" /\ runtimeState = "fault" THEN "normal" ELSE runtimeState

\* _refresh_global_fault_state after the acknowledgement.
RefreshedRuntimeState(g) ==
    IF ~HasGlobalFault(g) /\ link # "none" /\ runtimeState = "fault"
    THEN "normal" ELSE runtimeState

\* fault_reset_source
FaultReset(cmd, codes) ==
    /\ Serving
    /\ Admitted(cmd)
    /\ gdiag' = AcknowledgedCodes(gdiag, codes)
    /\ runtimeState' = RefreshedRuntimeState(gdiag')
    /\ UNCHANGED <<control, sessionInit, link, state, homingActive, mismatch,
                   adiag, badRun>>

FaultResetServer ==
    FaultReset("system/server/fault_reset", {"SERVER_INITIALIZATION_FAILED"})

FaultResetBus == FaultReset("system/bus/fault_reset", BusCodes)

RequestServerRestart ==
    /\ Serving
    /\ Admitted("system/server/restart")
    /\ restartRequested' = TRUE
    /\ UNCHANGED <<control, session, fullState, stateInit, reconnectOp,
                   homingActive, mismatch, gdiag, adiag, badRun>>

\* request_bus_reconnect with or without state["bus_reconnect_operation"].
BusReconnect(op) ==
    /\ Serving
    /\ Admitted("system/bus/reconnect")
    /\ reconnectOp = op

\* reconnect_runtime without a runtime raises at once and changes nothing;
\* with one it fails at some step and closes the master again.
ReconnectFails ==
    /\ BusReconnect(FALSE)
    /\ ServingRuntime
    /\ link' = "closed"
    /\ runtimeState' = "bus_disconnected"
    /\ gdiag' = [gdiag EXCEPT !["BUS_RECONNECT_FAILED"] = Detect(@)]
    /\ adiag' \in RefreshOutcomes(adiag, Axes)
    /\ UNCHANGED <<control, sessionInit, state, homingActive, mismatch, badRun>>

\* The diagnostic monitor of the loop is kept, and so is its counter.
ReconnectCompletes ==
    /\ BusReconnect(FALSE)
    /\ ServingRuntime
    /\ link' = "idle"
    /\ gdiag' = ReconnectedBus(gdiag)
    /\ adiag' = ReconnectedAxes(Refreshed(adiag, Axes))
    /\ runtimeState' = IF HasGlobalFault(gdiag') THEN "fault" ELSE "normal"
    /\ badRun' = 0
    /\ UNCHANGED <<control, sessionInit, state, homingActive, mismatch>>

\* reconnect_failed_initialization: initialization fails at a stage, takes too
\* long (reported as bus_connection) or the state cannot be built.
InitReconnectFails ==
    /\ BusReconnect(TRUE)
    /\ loop = "degraded"
    /\ \E stage \in Stages \ {"configuration"} : FailInitialization(stage)
    /\ gdiag' = [gdiag EXCEPT !["SERVER_INITIALIZATION_FAILED"] = Detect(@),
                              !["BUS_RECONNECT_FAILED"] = Detect(@)]
    /\ UNCHANGED <<control, state, homingActive, mismatch, adiag, badRun>>

\* Mutant: complete_bus_reconnect_diagnostics is not called.
InitReconnectKeepsBusFaults ==
    /\ BusReconnect(TRUE)
    /\ loop = "degraded"
    /\ gdiag["SERVER_INITIALIZATION_FAILED"] # "acknowledged"
    /\ gdiag' = [gdiag EXCEPT
                    !["SERVER_INITIALIZATION_FAILED"] = Acknowledge(Resolve(@))]
    /\ runtimeState' = "normal"
    /\ sessionInit' = "ready"
    /\ link' = "idle"
    /\ fullState' = TRUE
    /\ stateInit' = "ready"
    /\ reconnectOp' = FALSE
    /\ restartRequested' = FALSE
    /\ UNCHANGED <<control, homingActive, mismatch, adiag, badRun>>

\* The new state replaces the degraded one: every key of the old one is gone,
\* a pending restart request included.
InitReconnectCompletes ==
    /\ BusReconnect(TRUE)
    /\ loop = "degraded"
    /\ gdiag["SERVER_INITIALIZATION_FAILED"] # "acknowledged"
    /\ gdiag' = [ReconnectedBus(gdiag) EXCEPT
                    !["SERVER_INITIALIZATION_FAILED"] = Acknowledge(Resolve(@))]
    /\ runtimeState' = "normal"
    /\ sessionInit' = "ready"
    /\ link' = "idle"
    /\ fullState' = TRUE
    /\ stateInit' = "ready"
    /\ reconnectOp' = FALSE
    /\ restartRequested' = FALSE
    /\ UNCHANGED <<control, homingActive, mismatch, adiag, badRun>>

\* The initialization fault was acknowledged before: resolving it removes it,
\* acknowledge() raises KeyError, and the state stays the degraded one.
InitReconnectRaises ==
    /\ BusReconnect(TRUE)
    /\ loop = "degraded"
    /\ gdiag["SERVER_INITIALIZATION_FAILED"] = "acknowledged"
    /\ gdiag' = [gdiag EXCEPT !["SERVER_INITIALIZATION_FAILED"] = Resolve(@)]
    /\ runtimeState' = "normal"
    /\ sessionInit' = "ready"
    /\ link' = "idle"
    /\ UNCHANGED <<control, state, homingActive, mismatch, adiag, badRun>>

\* The same operation in a loop that already runs a runtime: the session gets
\* another one while the loop keeps its own.  The model stops here.
InitReconnectOrphansLoop ==
    /\ BusReconnect(TRUE)
    /\ ServingRuntime
    /\ loop' = "orphaned"
    /\ UNCHANGED <<phase, session, state, homingActive, mismatch, gdiag, adiag,
                   badRun>>

ServerRequest ==
    \/ FaultResetServer
    \/ FaultResetBus
    \/ RequestServerRestart
    \/ ReconnectFails
    \/ ReconnectCompletes
    \/ InitReconnectFails
    \/ InitReconnectCompletes
    \/ InitReconnectRaises
    \/ InitReconnectOrphansLoop

-----------------------------------------------------------------------------
(* Requests on axes *)

\* fault_reset_axes: the diagnostics are acknowledged after the last exchange.
AxisFaultReset(A) ==
    /\ ServingRuntime
    /\ \A a \in A : AdmittedOnAxis("system/axis/fault_reset", a)
    /\ \/ ExchangeOk /\ adiag' = AcknowledgedAxes(adiag, A)
       \/ ExchangeRaises /\ UNCHANGED adiag
    /\ UNCHANGED <<control, runtimeState, sessionInit, state, homingActive,
                   mismatch, gdiag, badRun>>

\* stop_axes and disable
StopOrDisable(a) ==
    /\ ServingRuntime
    /\ AdmittedOnAxis("system/axis/stop", a)
    /\ ExchangeOk \/ ExchangeRaises
    /\ HomingMayStop
    /\ UNCHANGED <<control, runtimeState, sessionInit, state, mismatch, gdiag,
                   adiag, badRun>>

\* start_homing: accepted, rejected for a disabled axis (the record is
\* replaced by an inactive one), or an exchange raises.
Home(a) ==
    /\ ServingRuntime
    /\ AdmittedOnAxis("system/axis/home", a)
    /\ \/ ExchangeOk /\ homingActive' = TRUE
       \/ link' = link /\ homingActive' = FALSE
       \/ ExchangeRaises /\ UNCHANGED homingActive
    /\ UNCHANGED <<control, runtimeState, sessionInit, state, mismatch, gdiag,
                   adiag, badRun>>

\* Every other command of an axis: enable, mode, moves, jog, trajectory.
MotionCommand(a) ==
    /\ ServingRuntime
    /\ AdmittedOnAxis("system/axis/move_abs", a)
    /\ ExchangeOk \/ ExchangeRaises
    /\ UNCHANGED <<control, runtimeState, sessionInit, state, homingActive,
                   mismatch, gdiag, adiag, badRun>>

\* restart_axis reaches no further than its own preparation: homing, hold,
\* disable, settle, restart SDO.
RestartAxisStopsEarly(a) ==
    /\ ServingRuntime
    /\ AdmittedOnAxis("system/axis/restart", a)
    /\ ExchangeOk \/ ExchangeRaises
    /\ HomingMayStop
    /\ UNCHANGED <<control, runtimeState, sessionInit, state, mismatch, gdiag,
                   adiag, badRun>>

\* ... and enters restart_axis_runtime.
RestartAxis(a) ==
    /\ ServingRuntime
    /\ AdmittedOnAxis("system/axis/restart", a)
    /\ link = "idle"
    /\ homingActive' = FALSE
    /\ UNCHANGED <<control, sessionInit, state, mismatch, gdiag>>

\* The bus does not come back: the master is closed.
RestartAxisLosesBus(a) ==
    /\ RestartAxis(a)
    /\ link' = "closed"
    /\ runtimeState' = "bus_disconnected"
    /\ \E d \in RefreshOutcomes(adiag, {a}) :
          adiag' = [d EXCEPT ![a]["AXIS_RESTART_FAILED"] = Detect(@)]
    /\ UNCHANGED badRun

\* Operational again, but after the deadline.
RestartAxisTooLate(a) ==
    /\ RestartAxis(a)
    /\ link' = "idle"
    /\ runtimeState' = "fault"
    /\ adiag' = [Refreshed(adiag, {a}) EXCEPT
                    ![a]["AXIS_RESTART_FAILED"] = Detect(@)]
    /\ badRun' = 0

\* An acknowledged AXIS_RESTART_FAILED is removed by resolve(); acknowledge()
\* then raises KeyError before the runtime state is set.
RestartAxisCompletes(a) ==
    /\ RestartAxis(a)
    /\ link' = "idle"
    /\ adiag' = [Refreshed(adiag, {a}) EXCEPT
                    ![a]["AXIS_RESTART_FAILED"] = Acknowledge(Resolve(@))]
    /\ runtimeState' = IF adiag[a]["AXIS_RESTART_FAILED"] = "acknowledged"
                       THEN "fault" ELSE "normal"
    /\ badRun' = 0

AxisRequest ==
    \/ \E A \in (SUBSET Axes) \ {{}} : AxisFaultReset(A)
    \/ \E a \in Axes : StopOrDisable(a)
    \/ \E a \in Axes : Home(a)
    \/ \E a \in Axes : MotionCommand(a)
    \/ \E a \in Axes : RestartAxisStopsEarly(a)
    \/ \E a \in Axes : RestartAxisLosesBus(a)
    \/ \E a \in Axes : RestartAxisTooLate(a)
    \/ \E a \in Axes : RestartAxisCompletes(a)

-----------------------------------------------------------------------------
(* The end of a round of requests *)

\* run_degraded_server_loop: a recovered runtime before a pending restart.
DegradedRoundEnds ==
    /\ loop = "degraded"
    /\ \/ /\ link # "none"
          /\ runtimeState = "normal"
          /\ loop' = "server"
          /\ phase' = "cycle"
          /\ mismatch' = 0
       \/ /\ ~(link # "none" /\ runtimeState = "normal")
          /\ restartRequested
          /\ loop' = "restarting"
          /\ UNCHANGED <<phase, mismatch>>
    /\ UNCHANGED <<session, state, homingActive, gdiag, adiag, badRun>>

\* run_server_loop
ServerRoundEnds ==
    /\ loop = "server"
    /\ phase = "clients"
    /\ \/ restartRequested /\ loop' = "restarting" /\ UNCHANGED phase
       \/ ~restartRequested /\ phase' = "cycle" /\ UNCHANGED loop
    /\ UNCHANGED <<session, state, homingActive, mismatch, gdiag, adiag, badRun>>

\* Mutant: the loop looks at the runtime state only.
DisconnectedRoundIgnoresRestart ==
    /\ loop = "disconnected"
    /\ runtimeState # "bus_disconnected"
    /\ loop' = "server"
    /\ phase' = "cycle"
    /\ UNCHANGED <<session, state, homingActive, mismatch, gdiag, adiag, badRun>>

\* run_bus_disconnected_loop; its return of None continues the server loop.
DisconnectedRoundEnds ==
    /\ loop = "disconnected"
    /\ \/ /\ restartRequested
          /\ loop' = "restarting"
          /\ UNCHANGED phase
       \/ /\ ~restartRequested
          /\ runtimeState # "bus_disconnected"
          /\ loop' = "server"
          /\ phase' = "cycle"
    /\ UNCHANGED <<session, state, homingActive, mismatch, gdiag, adiag, badRun>>

\* ServerRestartRequested reaches application.py: the runtime is detached and
\* closed, the process image is replaced, and everything starts anew.
ProcessRestarts ==
    /\ loop = "restarting"
    /\ loop' = "startup"
    /\ phase' = "clients"
    /\ runtimeState' = "normal"
    /\ sessionInit' = "ready"
    /\ link' = "none"
    /\ fullState' = FALSE
    /\ stateInit' = "ready"
    /\ reconnectOp' = FALSE
    /\ restartRequested' = FALSE
    /\ homingActive' = FALSE
    /\ mismatch' = 0
    /\ gdiag' = [c \in GlobalCodes |-> "none"]
    /\ adiag' = [a \in Axes |-> [c \in AxisCodes |-> "none"]]
    /\ badRun' = 0

\* The process has ended with an uncaught exception, or is outside the model.
Ended ==
    /\ loop \in {"crashed", "orphaned"}
    /\ UNCHANGED vars

Startup ==
    \/ ConfigurationFails
    \/ InitializationFails
    \/ StateBuildFails
    \/ StartupCompletes

\* What the process does by itself, whether or not a client asks.
LoopStep ==
    \/ Startup
    \/ Cycle
    \/ Homing
    \/ DegradedRoundEnds
    \/ ServerRoundEnds
    \/ DisconnectedRoundEnds
    \/ ProcessRestarts

Next ==
    \/ LoopStep
    \/ ServerRequest
    \/ AxisRequest
    \/ DegradedStateCrashes
    \/ Ended

Spec == Init /\ [][Next]_vars

\* The loops are sequential code that always reaches its next statement, so
\* the process's own steps are weakly fair.  Requests may never come, but only
\* finitely many of them are served in one round.
FairSpec == Spec /\ WF_vars(LoopStep)

-----------------------------------------------------------------------------
(* Properties *)

\* One of the three loops of server.py runs.
Running == loop \in {"degraded", "server", "disconnected"}

\* While the full state is in place, the runtime state is NORMAL only if no
\* server or bus fault is active: reconnect_runtime, restart_axis_runtime,
\* _refresh_global_fault_state and the diagnostic monitor set the runtime state
\* at five places, and together they never open the normal command set on a
\* faulty bus.
NormalMeansNoGlobalFault ==
    Running /\ fullState = TRUE /\ runtimeState = "normal" => ~HasGlobalFault(gdiag)

\* The session owns a runtime exactly when it is not in INITIALIZATION_ERROR;
\* mark_failed and detach_runtime, attach_runtime and mark_ready are separate
\* calls (session.py, server.py).
RuntimeOwnership ==
    Running => (runtimeState = "initialization_error" <=> link = "none")

\* The runtime state is BUS_DISCONNECTED exactly while the EtherCAT master is
\* closed, over every failed and completed reconnect and axis restart.
DisconnectedMeansClosed ==
    Running => (runtimeState = "bus_disconnected" <=> link = "closed")

\* While the bus is disconnected an unresolved diagnostic says why: a fault
\* reset that acknowledges it cannot make it disappear.
DisconnectIsDiagnosed ==
    Running /\ runtimeState = "bus_disconnected" =>
        \/ IsUnresolved(gdiag["BUS_CONNECTION_LOST"])
        \/ IsUnresolved(gdiag["BUS_RECONNECT_FAILED"])
        \/ \E a \in Axes : IsUnresolved(adiag[a]["AXIS_RESTART_FAILED"])

\* Facts that make the four invariants above inductive: start-up begins from
\* scratch, the stored initialization status belongs to the state, the loops
\* with a PDO cycle have a runtime and the degraded one fails or is done, and
\* the initialization fault is there without a runtime and gone with the full
\* state.
StartupFromScratch ==
    loop = "startup" =>
        /\ runtimeState = "normal"
        /\ fullState = FALSE
        /\ stateInit = "ready"
        /\ reconnectOp = FALSE
        /\ ~HasGlobalFault(gdiag)

StatusOfState ==
    Running =>
        /\ fullState = TRUE <=> stateInit = "ready"
        /\ reconnectOp = TRUE => fullState = FALSE

LoopHasRuntime ==
    /\ loop \in {"server", "disconnected"} => link # "none"
    /\ Running /\ fullState = TRUE => link # "none"
    /\ loop = "degraded" => runtimeState \in {"initialization_error", "normal"}

InitializationFaultFollows ==
    /\ Running /\ link = "none" =>
          IsUnresolved(gdiag["SERVER_INITIALIZATION_FAILED"])
    /\ Running /\ fullState = TRUE => gdiag["SERVER_INITIALIZATION_FAILED"] = "none"

IndInv ==
    /\ TypeOK
    /\ StartupFromScratch
    /\ StatusOfState
    /\ LoopHasRuntime
    /\ InitializationFaultFollows
    /\ NormalMeansNoGlobalFault
    /\ RuntimeOwnership
    /\ DisconnectedMeansClosed
    /\ DisconnectIsDiagnosed

\* A latched fault that nobody acknowledged disappears in no cycle of the
\* monitor; only a request of a client removes it (RuntimeDiagnosticMonitor
\* and DiagnosticManager._clear_if_ready).
FaultsLatch ==
    [][(phase \in {"cycle", "homing"} =>
          /\ \A c \in GlobalCodes :
                gdiag[c] \in {"detected", "resolved"} => IsActive(gdiag'[c])
          /\ \A a \in Axes, c \in AxisFaultCodes :
                adiag[a][c] \in {"detected", "resolved"} => IsActive(adiag'[a][c]))]_vars

\* Wrong working counters in as many exchanges in a row as the threshold says
\* are diagnosed and restrict the server (_update_bus): no fault reset,
\* homing or failed axis restart in between hides them while the bus runs.
MismatchesAreDetected ==
    loop = "server" /\ link # "closed" /\ badRun = MismatchThreshold =>
        /\ IsUnresolved(gdiag["BUS_PROCESS_DATA_INCOMPLETE"])
        /\ runtimeState = "fault"

\* A restart that was accepted while a runtime is served is carried out, or
\* the process has ended by itself (requested_server_action).
RestartHappens ==
    restartRequested /\ loop \in {"server", "disconnected"}
        ~> loop \in {"restarting", "crashed", "orphaned"}

\* A closed master does not go unnoticed: the server loop reaches the
\* bus-disconnected loop, unless the bus is reconnected or the process leaves.
LossIsNoticed ==
    loop = "server" /\ link = "closed" ~> loop # "server" \/ link # "closed"

\* The runtime states as a client sees them.  A process that crashed, or whose
\* degraded state outlived its failed session, serves no runtime state.
Mode ==
    IF loop \in {"startup", "restarting"} THEN "starting"
    ELSE IF ~Running \/ (link # "none" /\ ~fullState) THEN "unserved"
    ELSE runtimeState

Faulty == Mode \in RuntimeStates /\ HasGlobalFault(gdiag)

Lifecycle == INSTANCE ServerLifecycle WITH mode <- Mode, faulty <- Faulty

\* The server implements the transitions of ServerLifecycle: BUS_DISCONNECTED
\* and INITIALIZATION_ERROR are left only by a recovery that leaves no server
\* or bus fault behind, and FAULT is never lifted by the monitor.
ImplementsLifecycle == Lifecycle!Spec

=============================================================================
