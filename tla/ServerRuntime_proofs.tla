-------------------------- MODULE ServerRuntime_proofs --------------------------
(***************************************************************************)
(* Proofs about ServerRuntime for any number of axes and any threshold.    *)
(***************************************************************************)
EXTENDS ServerRuntime, TLAPS

-----------------------------------------------------------------------------
(* Facts about the diagnostic life cycle *)

\* The operations of DiagnosticManager lead from standing to standing.
LEMMA StandingTypes ==
    ASSUME NEW s \in Standing
    PROVE  /\ Detect(s) \in Standing
           /\ Acknowledge(s) \in Standing
           /\ Resolve(s) \in Standing
           /\ ResolveUnlatched(s) \in Standing
BY DEF Standing, Detect, Acknowledge, Resolve, ResolveUnlatched

\* Resolving and then acknowledging removes any entry, whatever its history.
LEMMA AcknowledgeResolve ==
    ASSUME NEW s \in Standing
    PROVE  Acknowledge(Resolve(s)) = "none"
BY DEF Standing, Acknowledge, Resolve

\* Neither operation creates an entry.
LEMMA NoneStays ==
    Acknowledge("none") = "none" /\ Resolve("none") = "none"
BY DEF Acknowledge, Resolve

GType == [GlobalCodes -> Standing]
AType == [Axes -> [AxisCodes -> Standing]]

\* The refresh of recovery keeps the type of the axis diagnostics.
LEMMA RefreshTypes ==
    ASSUME NEW d \in AType, NEW A \in SUBSET Axes
    PROVE  /\ Refreshed(d, A) \in AType
           /\ RefreshOutcomes(d, A) \subseteq AType
<1>1. \A B \in SUBSET Axes : Refreshed(d, B) \in AType
  <2> TAKE B \in SUBSET Axes
  <2>1. "PARAMETER_REFRESH_FAILED" \in AxisCodes
    BY DEF AxisCodes, AxisFaultCodes
  <2>2. \A a \in Axes :
          [d[a] EXCEPT !["PARAMETER_REFRESH_FAILED"] = Resolve(@)]
            \in [AxisCodes -> Standing]
    BY <2>1, StandingTypes DEF AType
  <2> QED BY <2>2 DEF AType, Refreshed
<1>2. ASSUME NEW f \in A PROVE RefreshFailed(d, A, f) \in AType
  <2>1. {a \in A : a < f} \in SUBSET Axes
    OBVIOUS
  <2>2. PICK e \in AType : e = Refreshed(d, {a \in A : a < f})
    BY <1>1, <2>1
  <2>3. [e EXCEPT ![f]["PARAMETER_REFRESH_FAILED"] = Detect(@)] \in AType
    <3>1. e[f]["PARAMETER_REFRESH_FAILED"] \in Standing
      BY DEF AType, AxisCodes, AxisFaultCodes
    <3>2. Detect(e[f]["PARAMETER_REFRESH_FAILED"]) \in Standing
      BY <3>1, StandingTypes
    <3> QED BY <3>2 DEF AType
  <2> QED BY <2>2, <2>3 DEF RefreshFailed
<1> QED BY <1>1, <1>2 DEF RefreshOutcomes

\* Marking one diagnostic of one axis keeps the type.
LEMMA AxisMarkTypes ==
    ASSUME NEW d \in AType, NEW a \in Axes, NEW s \in Standing
    PROVE  [d EXCEPT ![a]["AXIS_RESTART_FAILED"] = s] \in AType
BY DEF AType, AxisCodes, AxisFaultCodes

\* So do the reconnect and the acknowledgement of a set of axes.
LEMMA AxesTypes ==
    ASSUME NEW d \in AType, NEW A \in SUBSET Axes
    PROVE  ReconnectedAxes(d) \in AType /\ AcknowledgedAxes(d, A) \in AType
<1>1. "AXIS_RESTART_FAILED" \in AxisCodes
  BY DEF AxisCodes, AxisFaultCodes
<1>2. \A a \in Axes :
        [d[a] EXCEPT !["AXIS_RESTART_FAILED"] = Resolve(@)] \in [AxisCodes -> Standing]
  BY <1>1, StandingTypes DEF AType
<1>3. \A a \in Axes, c \in AxisCodes :
        d[a][c] \in Standing /\ Acknowledge(d[a][c]) \in Standing
  BY StandingTypes DEF AType
<1> QED BY <1>2, <1>3 DEF AType, ReconnectedAxes, AcknowledgedAxes

\* And what a cycle of the monitor does to the axes.
LEMMA UpdateAxesType ==
    ASSUME NEW F \in SUBSET Axes, NEW W \in SUBSET Axes,
           adiag \in AType, UpdateAxes(F, W)
    PROVE  adiag' \in AType
<1> DEFINE new(a) == [adiag[a] EXCEPT
        !["AXIS_DRIVE_FAULT"] = IF a \in F THEN Detect(@) ELSE Resolve(@),
        !["AXIS_DRIVE_WARNING"] =
            IF a \in W THEN Detect(@) ELSE ResolveUnlatched(@)]
<1>1. ASSUME NEW a \in Axes PROVE new(a) \in [AxisCodes -> Standing]
  <2>1. /\ "AXIS_DRIVE_FAULT" \in AxisCodes
        /\ "AXIS_DRIVE_WARNING" \in AxisCodes
        /\ adiag[a] \in [AxisCodes -> Standing]
    BY DEF AType, AxisCodes, AxisFaultCodes
  <2> QED BY <2>1, StandingTypes
<1>2. adiag' = [a \in Axes |-> new(a)]
  BY DEF UpdateAxes
<1> QED BY <1>1, <1>2 DEF AType

\* The server and bus diagnostics keep their type in every way they change.
LEMMA GlobalTypes ==
    ASSUME NEW g \in GType
    PROVE  /\ \A c \in GlobalCodes : g[c] \in Standing
           /\ \A c \in GlobalCodes : [g EXCEPT ![c] = Detect(@)] \in GType
           /\ \A c \in GlobalCodes : [g EXCEPT ![c] = Resolve(@)] \in GType
           /\ \A C : AcknowledgedCodes(g, C) \in GType
           /\ ReconnectedBus(g) \in GType
<1>1. \A c \in GlobalCodes : g[c] \in Standing
  BY DEF GType
<1>2. \A c \in GlobalCodes : Acknowledge(g[c]) \in Standing
                            /\ Acknowledge(Resolve(g[c])) \in Standing
  BY <1>1, StandingTypes
<1>3. \A C : AcknowledgedCodes(g, C) \in GType
  BY <1>1, <1>2 DEF GType, AcknowledgedCodes
<1>4. ReconnectedBus(g) \in GType
  BY <1>1, <1>2 DEF GType, ReconnectedBus
<1> QED BY <1>1, <1>3, <1>4, StandingTypes DEF GType

\* The codes the actions name are server and bus codes.
LEMMA CodesAreGlobal ==
    /\ "SERVER_INITIALIZATION_FAILED" \in GlobalCodes
    /\ "BUS_PROCESS_DATA_INCOMPLETE" \in GlobalCodes
    /\ "BUS_CONNECTION_LOST" \in GlobalCodes
    /\ "BUS_RECONNECT_FAILED" \in GlobalCodes
BY DEF GlobalCodes

\* The counters never pass the threshold.
LEMMA CappedType ==
    ASSUME NEW n \in 0 .. MismatchThreshold
    PROVE  Capped(n + 1) \in 0 .. MismatchThreshold
BY ThresholdAssumption DEF Capped

-----------------------------------------------------------------------------
(* Type correctness *)

\* The types of the scalar variables; TypeOK adds the diagnostics.
Scalars == <<loop, phase, runtimeState, sessionInit, link, fullState, stateInit,
             reconnectOp, restartRequested, homingActive, mismatch, badRun>>

ScalarTypes ==
    /\ loop \in Loops
    /\ phase \in Phases
    /\ runtimeState \in RuntimeStates
    /\ sessionInit \in InitStatus
    /\ link \in Links
    /\ fullState \in BOOLEAN
    /\ stateInit \in InitStatus
    /\ reconnectOp \in BOOLEAN
    /\ restartRequested \in BOOLEAN
    /\ homingActive \in BOOLEAN
    /\ mismatch \in 0 .. MismatchThreshold
    /\ badRun \in 0 .. MismatchThreshold

LEMMA TypeParts == TypeOK <=> ScalarTypes /\ gdiag \in GType /\ adiag \in AType
BY DEF TypeOK, ScalarTypes, GType, AType

\* Every step of the process by itself keeps the types.
LEMMA LoopStepType ==
    ASSUME TypeOK, LoopStep
    PROVE  TypeOK'
<1>0. ScalarTypes /\ gdiag \in GType /\ adiag \in AType
  BY TypeParts
<1> SUFFICES ScalarTypes' /\ gdiag' \in GType /\ adiag' \in AType
  BY TypeParts DEF TypeOK, ScalarTypes, GType, AType
<1> USE <1>0, CodesAreGlobal
<1>1. CASE Startup
  <2>1. ASSUME NEW stage \in Stages, NEW withOp \in BOOLEAN,
               EnterDegraded(stage, withOp)
        PROVE  ScalarTypes' /\ gdiag' \in GType /\ adiag' \in AType
    BY <2>1, GlobalTypes DEF EnterDegraded, FailInitialization, ScalarTypes, Loops,
      RuntimeStates, Links, InitStatus
  <2>2. CASE StartupCompletes
    BY <2>2 DEF StartupCompletes, ScalarTypes, Loops, Links, Phases
  <2>3. CASE ConfigurationFails \/ InitializationFails \/ StateBuildFails
    BY <2>1, <2>3 DEF ConfigurationFails, InitializationFails, StateBuildFails, Stages
  <2> QED BY <1>1, <2>2, <2>3 DEF Startup
<1>2. CASE Cycle
  <2>1. ASSUME CycleEnds PROVE adiag' \in AType
    BY <2>1, UpdateAxesType DEF CycleEnds
  <2>2. CASE CycleLosesBus
    BY <2>2, GlobalTypes DEF CycleLosesBus, MarkDisconnected, ScalarTypes, Loops,
      Phases, Links, RuntimeStates, state
  <2>3. CASE CycleFindsOpenPhase
    BY <2>3 DEF CycleFindsOpenPhase, ScalarTypes, Loops, session, state
  <2>4. CASE CycleMatches
    <3>1. gdiag' \in GType
      BY <2>4, GlobalTypes DEF CycleMatches
    <3>2. ScalarTypes'
      BY <2>4, ThresholdAssumption DEF CycleMatches, CycleEnds, ScalarTypes, Phases, state
    <3> QED BY <2>1, <2>4, <3>1, <3>2 DEF CycleMatches
  <2>5. CASE CycleMismatches
    BY <2>1, <2>5, CappedType, ThresholdAssumption
      DEF CycleMismatches, CycleEnds, ScalarTypes, Phases, state
  <2>6. CASE CycleDetectsIncompleteData
    BY <2>1, <2>6, CappedType, GlobalTypes
      DEF CycleDetectsIncompleteData, CycleEnds, ScalarTypes, Phases, RuntimeStates, state
  <2>7. CASE CycleFindsTransportLost
    BY <2>7, CappedType, GlobalTypes DEF CycleFindsTransportLost, MarkDisconnected,
      ScalarTypes, Loops, Phases, Links, RuntimeStates, state
  <2> QED BY <1>2, <2>2, <2>3, <2>4, <2>5, <2>6, <2>7 DEF Cycle
<1>3. CASE Homing
  BY <1>3 DEF Homing, HomingContinues, HomingFinishes, HomingFinishRaises,
    ExchangeRaises, ScalarTypes, Loops, Phases, Links, session, state
<1>4. CASE DegradedRoundEnds \/ ServerRoundEnds \/ DisconnectedRoundEnds
  BY <1>4, ThresholdAssumption DEF DegradedRoundEnds, ServerRoundEnds,
    DisconnectedRoundEnds, ScalarTypes, Loops, Phases, session, state
<1>5. CASE ProcessRestarts
  <2>1. gdiag' \in GType /\ adiag' \in AType
    BY <1>5 DEF ProcessRestarts, GType, AType, Standing
  <2>2. loop' \in Loops /\ phase' \in Phases /\ runtimeState' \in RuntimeStates
          /\ sessionInit' \in InitStatus /\ stateInit' \in InitStatus
          /\ link' \in Links
    BY <1>5 DEF ProcessRestarts, Loops, Phases, RuntimeStates, InitStatus, Links
  <2>3. mismatch' \in 0 .. MismatchThreshold /\ badRun' \in 0 .. MismatchThreshold
    BY <1>5, ThresholdAssumption DEF ProcessRestarts
  <2> QED BY <1>5, <2>1, <2>2, <2>3 DEF ProcessRestarts, ScalarTypes
<1> QED BY <1>1, <1>2, <1>3, <1>4, <1>5 DEF LoopStep

\* So does every request on the server or the bus.
LEMMA ServerRequestType ==
    ASSUME TypeOK, ServerRequest
    PROVE  TypeOK'
<1>0. ScalarTypes /\ gdiag \in GType /\ adiag \in AType
  BY TypeParts
<1> SUFFICES ScalarTypes' /\ gdiag' \in GType /\ adiag' \in AType
  BY TypeParts DEF TypeOK, ScalarTypes, GType, AType
<1> USE <1>0, CodesAreGlobal
<1>1. ASSUME NEW cmd, NEW C, FaultReset(cmd, C)
      PROVE  ScalarTypes' /\ gdiag' \in GType /\ adiag' \in AType
  BY <1>1, GlobalTypes DEF FaultReset, RefreshedRuntimeState, ScalarTypes,
    RuntimeStates, control, state
<1>2. CASE RequestServerRestart
  BY <1>2 DEF RequestServerRestart, ScalarTypes, control, session
<1>3. CASE ReconnectFails
  <2>1. adiag' \in AType
    BY <1>3, RefreshTypes DEF ReconnectFails
  <2> QED BY <1>3, <2>1, GlobalTypes DEF ReconnectFails, ScalarTypes, Links,
    RuntimeStates, control, state
<1>4. CASE ReconnectCompletes
  <2>1. adiag' \in AType
    BY <1>4, RefreshTypes, AxesTypes DEF ReconnectCompletes
  <2> QED BY <1>4, <2>1, GlobalTypes, ThresholdAssumption DEF ReconnectCompletes,
    ScalarTypes, Links, RuntimeStates, control, state
<1>5. CASE InitReconnectFails
  <2>1. gdiag' \in GType
    <3>1. Detect(gdiag["SERVER_INITIALIZATION_FAILED"]) \in Standing
            /\ Detect(gdiag["BUS_RECONNECT_FAILED"]) \in Standing
      BY StandingTypes DEF GType
    <3> QED BY <1>5, <3>1 DEF InitReconnectFails, GType
  <2> QED BY <1>5, <2>1 DEF InitReconnectFails, FailInitialization, ScalarTypes,
    InitStatus, Links, RuntimeStates, control, state
<1>6. CASE InitReconnectCompletes
  <2>1. gdiag' \in GType
    <3>1. PICK g \in GType : g = ReconnectedBus(gdiag)
      BY GlobalTypes
    <3>2. Acknowledge(Resolve(g["SERVER_INITIALIZATION_FAILED"])) \in Standing
      BY StandingTypes DEF GType
    <3> QED BY <1>6, <3>1, <3>2 DEF InitReconnectCompletes, GType
  <2> QED BY <1>6, <2>1 DEF InitReconnectCompletes, ScalarTypes, InitStatus, Links,
    RuntimeStates, control
<1>7. CASE InitReconnectRaises
  BY <1>7, GlobalTypes DEF InitReconnectRaises, ScalarTypes, InitStatus, Links,
    RuntimeStates, control, state
<1>8. CASE InitReconnectOrphansLoop
  BY <1>8 DEF InitReconnectOrphansLoop, ScalarTypes, Loops, session, state
<1> QED BY <1>1, <1>2, <1>3, <1>4, <1>5, <1>6, <1>7, <1>8
  DEF ServerRequest, FaultResetServer, FaultResetBus

\* And every request on axes.
LEMMA AxisRequestType ==
    ASSUME TypeOK, AxisRequest
    PROVE  TypeOK'
<1>0. ScalarTypes /\ gdiag \in GType /\ adiag \in AType
  BY TypeParts
<1> SUFFICES ScalarTypes' /\ gdiag' \in GType /\ adiag' \in AType
  BY TypeParts DEF TypeOK, ScalarTypes, GType, AType
<1> USE <1>0
<1>1. ASSUME NEW A \in SUBSET Axes, AxisFaultReset(A)
      PROVE  ScalarTypes' /\ gdiag' \in GType /\ adiag' \in AType
  BY <1>1, AxesTypes DEF AxisFaultReset, ExchangeOk, ExchangeRaises, ScalarTypes,
    Links, control, state
<1>2. ASSUME NEW a \in Axes, StopOrDisable(a) \/ RestartAxisStopsEarly(a)
      PROVE  ScalarTypes' /\ gdiag' \in GType /\ adiag' \in AType
  BY <1>2 DEF StopOrDisable, RestartAxisStopsEarly, HomingMayStop, ExchangeOk,
    ExchangeRaises, ScalarTypes, Links, control, state
<1>3. ASSUME NEW a \in Axes, Home(a) \/ MotionCommand(a)
      PROVE  ScalarTypes' /\ gdiag' \in GType /\ adiag' \in AType
  BY <1>3 DEF Home, MotionCommand, ExchangeOk, ExchangeRaises, ScalarTypes, Links,
    control, state
<1>4. ASSUME NEW a \in Axes, NEW d \in AType
      PROVE  /\ [d EXCEPT ![a]["AXIS_RESTART_FAILED"] = Detect(@)] \in AType
             /\ [d EXCEPT ![a]["AXIS_RESTART_FAILED"] = Acknowledge(Resolve(@))] \in AType
  <2>1. d[a]["AXIS_RESTART_FAILED"] \in Standing
    BY DEF AType, AxisCodes, AxisFaultCodes
  <2>2. /\ Detect(d[a]["AXIS_RESTART_FAILED"]) \in Standing
        /\ Acknowledge(Resolve(d[a]["AXIS_RESTART_FAILED"])) \in Standing
    BY <2>1, StandingTypes
  <2> QED BY <2>2, AxisMarkTypes
<1>5. ASSUME NEW a \in Axes
      PROVE  Refreshed(adiag, {a}) \in AType /\ RefreshOutcomes(adiag, {a}) \subseteq AType
  BY RefreshTypes
<1>6. ASSUME NEW a \in Axes, RestartAxisLosesBus(a)
      PROVE  ScalarTypes' /\ gdiag' \in GType /\ adiag' \in AType
  <2>1. adiag' \in AType
    BY <1>4, <1>5, <1>6 DEF RestartAxisLosesBus
  <2> QED BY <1>6, <2>1 DEF RestartAxisLosesBus, RestartAxis, ScalarTypes, Links,
    RuntimeStates, control, state
<1>7. ASSUME NEW a \in Axes, RestartAxisTooLate(a)
      PROVE  ScalarTypes' /\ gdiag' \in GType /\ adiag' \in AType
  <2>1. adiag' \in AType
    BY <1>4, <1>5, <1>7 DEF RestartAxisTooLate
  <2>2. /\ link' = "idle" /\ homingActive' = FALSE /\ badRun' = 0
        /\ runtimeState' \in {"normal", "fault"}
        /\ UNCHANGED <<loop, phase, sessionInit, fullState, stateInit, reconnectOp,
                       restartRequested, mismatch, gdiag>>
    BY <1>7 DEF RestartAxisTooLate, RestartAxis, control, state
  <2>3. badRun' \in 0 .. MismatchThreshold
    BY <2>2, ThresholdAssumption
  <2> QED BY <2>1, <2>2, <2>3 DEF ScalarTypes, Links, RuntimeStates
<1>8. ASSUME NEW a \in Axes, RestartAxisCompletes(a)
      PROVE  ScalarTypes' /\ gdiag' \in GType /\ adiag' \in AType
  <2>1. adiag' \in AType
    BY <1>4, <1>5, <1>8 DEF RestartAxisCompletes
  <2>2. /\ link' = "idle" /\ homingActive' = FALSE /\ badRun' = 0
        /\ runtimeState' \in {"normal", "fault"}
        /\ UNCHANGED <<loop, phase, sessionInit, fullState, stateInit, reconnectOp,
                       restartRequested, mismatch, gdiag>>
    BY <1>8 DEF RestartAxisCompletes, RestartAxis, control, state
  <2>3. badRun' \in 0 .. MismatchThreshold
    BY <2>2, ThresholdAssumption
  <2> QED BY <2>1, <2>2, <2>3 DEF ScalarTypes, Links, RuntimeStates
<1> QED BY <1>1, <1>2, <1>3, <1>6, <1>7, <1>8 DEF AxisRequest

\* The model starts in a typed state.
LEMMA InitType == ASSUME Init PROVE TypeOK
<1>1. gdiag \in GType /\ adiag \in AType
  BY DEF Init, GType, AType, Standing
<1>2. loop \in Loops /\ phase \in Phases /\ runtimeState \in RuntimeStates
        /\ sessionInit \in InitStatus /\ stateInit \in InitStatus /\ link \in Links
  BY DEF Init, Loops, Phases, RuntimeStates, InitStatus, Links
<1>3. mismatch \in 0 .. MismatchThreshold /\ badRun \in 0 .. MismatchThreshold
  BY ThresholdAssumption DEF Init
<1>4. ScalarTypes
  BY <1>2, <1>3 DEF Init, ScalarTypes
<1> QED BY <1>1, <1>4, TypeParts

LEMMA NextType == ASSUME TypeOK, [Next]_vars PROVE TypeOK'
<1>1. CASE DegradedStateCrashes
  BY <1>1 DEF DegradedStateCrashes, TypeOK, Loops, session, state
<1>2. CASE UNCHANGED vars
  BY <1>2 DEF vars, TypeOK
<1> QED BY <1>1, <1>2, LoopStepType, ServerRequestType, AxisRequestType DEF Next, Ended

\* Every variable of the server keeps its type in every behaviour.
THEOREM TypeCorrect == Spec => []TypeOK
BY InitType, NextType, PTL DEF Spec

-----------------------------------------------------------------------------
(* Server and bus faults under the operations on diagnostics *)

\* What a change of the server and bus diagnostics does to the set of faults.
LEMMA FaultFacts ==
    ASSUME NEW g \in GType, ~HasGlobalFault(g)
    PROVE  /\ \A C : ~HasGlobalFault(AcknowledgedCodes(g, C))
           /\ \A c \in GlobalCodes : ~HasGlobalFault([g EXCEPT ![c] = Resolve(@)])
<1>1. \A c \in GlobalCodes : g[c] = "none"
  BY DEF HasGlobalFault, IsActive
<1>2. ASSUME NEW C PROVE ~HasGlobalFault(AcknowledgedCodes(g, C))
  BY <1>1, NoneStays DEF HasGlobalFault, IsActive, AcknowledgedCodes
<1>3. ASSUME NEW c \in GlobalCodes PROVE ~HasGlobalFault([g EXCEPT ![c] = Resolve(@)])
  BY <1>1, NoneStays DEF HasGlobalFault, IsActive, GType
<1> QED BY <1>2, <1>3

\* complete_bus_reconnect_diagnostics removes every bus fault.
LEMMA ReconnectFacts ==
    ASSUME NEW g \in GType
    PROVE  /\ \A c \in BusCodes : ReconnectedBus(g)[c] = "none"
           /\ ReconnectedBus(g)["SERVER_INITIALIZATION_FAILED"]
                = g["SERVER_INITIALIZATION_FAILED"]
<1>1. \A c \in GlobalCodes : Acknowledge(Resolve(g[c])) = "none"
  BY AcknowledgeResolve DEF GType
<1> QED BY <1>1 DEF ReconnectedBus, BusCodes, GlobalCodes

\* An unresolved entry stays unresolved when it is detected or acknowledged.
LEMMA UnresolvedStays ==
    ASSUME NEW s \in Standing
    PROVE  /\ IsUnresolved(Detect(s))
           /\ IsUnresolved(s) => IsUnresolved(Acknowledge(s))
BY DEF Standing, IsUnresolved, Detect, Acknowledge

\* An acknowledgement does not touch what it does not select.
LEMMA AcknowledgedCode ==
    ASSUME NEW g \in GType, NEW C, NEW c \in GlobalCodes
    PROVE  /\ AcknowledgedCodes(g, C)[c] \in {g[c], Acknowledge(g[c])}
           /\ IsUnresolved(g[c]) => IsUnresolved(AcknowledgedCodes(g, C)[c])
           /\ g[c] = "none" => AcknowledgedCodes(g, C)[c] = "none"
<1>1. AcknowledgedCodes(g, C)[c] \in {g[c], Acknowledge(g[c])}
  BY DEF AcknowledgedCodes
<1> QED BY <1>1, UnresolvedStays, NoneStays DEF GType

-----------------------------------------------------------------------------
(* The inductive invariant *)

\* The invariant without the types.
Consistent ==
    /\ StartupFromScratch
    /\ StatusOfState
    /\ LoopHasRuntime
    /\ InitializationFaultFollows
    /\ NormalMeansNoGlobalFault
    /\ RuntimeOwnership
    /\ DisconnectedMeansClosed
    /\ DisconnectIsDiagnosed

LEMMA IndInvParts == IndInv <=> TypeOK /\ Consistent
BY DEF IndInv, Consistent

\* A step that leaves the session, the state and the diagnostics alone keeps
\* the invariant when it goes on in a loop that may run here.
LEMMA FrameKeeps ==
    ASSUME Consistent,
           UNCHANGED <<runtimeState, link, fullState, stateInit, reconnectOp, gdiag, adiag>>,
           \/ loop' = loop
           \/ loop' \in {"restarting", "crashed", "orphaned"}
           \/ Running /\ loop' \in {"server", "disconnected"} /\ link # "none"
    PROVE  Consistent'
BY DEF Consistent, StartupFromScratch, StatusOfState, LoopHasRuntime,
  InitializationFaultFollows, NormalMeansNoGlobalFault, RuntimeOwnership,
  DisconnectedMeansClosed, DisconnectIsDiagnosed, Running, HasGlobalFault

\* So does a PDO exchange inside a handler, whatever phase it ends in.
LEMMA ExchangeKeeps ==
    ASSUME Consistent, Running,
           ExchangeOk \/ ExchangeRaises,
           UNCHANGED <<loop, runtimeState, fullState, stateInit, reconnectOp, gdiag, adiag>>
    PROVE  Consistent'
BY DEF Consistent, StartupFromScratch, StatusOfState, LoopHasRuntime,
  InitializationFaultFollows, NormalMeansNoGlobalFault, RuntimeOwnership,
  DisconnectedMeansClosed, DisconnectIsDiagnosed, Running, HasGlobalFault,
  ExchangeOk, ExchangeRaises

\* Losing the bus in a cycle: the connection fault explains it.
LEMMA MarkDisconnectedKeeps ==
    ASSUME TypeOK, Consistent, loop = "server", MarkDisconnected,
           UNCHANGED <<fullState, stateInit, reconnectOp, adiag>>
    PROVE  Consistent'
<1>1. gdiag \in GType
  BY TypeParts
<1>2. IsUnresolved(gdiag'["BUS_CONNECTION_LOST"])
  BY <1>1, CodesAreGlobal, UnresolvedStays DEF MarkDisconnected, GType
<1>3. gdiag'["SERVER_INITIALIZATION_FAILED"] = gdiag["SERVER_INITIALIZATION_FAILED"]
  BY <1>1, CodesAreGlobal DEF MarkDisconnected, GType
<1>4. loop' = "disconnected" /\ link' = "closed" /\ runtimeState' = "bus_disconnected"
  BY DEF MarkDisconnected
<1> QED BY <1>2, <1>3, <1>4 DEF Consistent, StartupFromScratch, StatusOfState,
  LoopHasRuntime, InitializationFaultFollows, NormalMeansNoGlobalFault,
  RuntimeOwnership, DisconnectedMeansClosed, DisconnectIsDiagnosed, Running

\* Every step of the process by itself keeps the invariant.
LEMMA LoopStepKeeps ==
    ASSUME TypeOK, Consistent, LoopStep
    PROVE  Consistent'
<1>0. gdiag \in GType
  BY TypeParts
<1>1. CASE Startup
  <2>1. ASSUME NEW stage \in Stages, NEW withOp \in BOOLEAN,
               EnterDegraded(stage, withOp)
        PROVE  Consistent'
    <3>1. /\ loop' = "degraded" /\ link' = "none" /\ stateInit' = stage
          /\ runtimeState' = "initialization_error"
          /\ fullState' = FALSE
      BY <2>1 DEF EnterDegraded, FailInitialization, Consistent, StartupFromScratch
    <3>2. IsUnresolved(gdiag'["SERVER_INITIALIZATION_FAILED"])
      BY <1>0, <2>1, CodesAreGlobal, UnresolvedStays DEF EnterDegraded, GType
    <3> QED BY <3>1, <3>2 DEF Stages, Consistent, StartupFromScratch, StatusOfState,
      LoopHasRuntime, InitializationFaultFollows, NormalMeansNoGlobalFault,
      RuntimeOwnership, DisconnectedMeansClosed, DisconnectIsDiagnosed, Running
  <2>2. CASE StartupCompletes
    <3>1. ~HasGlobalFault(gdiag)
      BY <2>2 DEF StartupCompletes, Consistent, StartupFromScratch
    <3>2. gdiag'["SERVER_INITIALIZATION_FAILED"] = "none" /\ ~HasGlobalFault(gdiag')
      BY <2>2, <3>1, CodesAreGlobal DEF StartupCompletes, HasGlobalFault, IsActive
    <3>3. /\ loop' = "server" /\ link' = "idle" /\ stateInit' = "ready"
          /\ runtimeState' = "normal" /\ fullState' = TRUE /\ reconnectOp' = FALSE
      BY <2>2 DEF StartupCompletes, Consistent, StartupFromScratch
    <3> QED BY <3>2, <3>3 DEF Consistent, StartupFromScratch, StatusOfState,
      LoopHasRuntime, InitializationFaultFollows, NormalMeansNoGlobalFault,
      RuntimeOwnership, DisconnectedMeansClosed, DisconnectIsDiagnosed, Running
  <2>3. CASE ConfigurationFails \/ InitializationFails \/ StateBuildFails
    BY <2>1, <2>3 DEF ConfigurationFails, InitializationFails, StateBuildFails, Stages
  <2> QED BY <1>1, <2>2, <2>3 DEF Startup
<1>2. CASE Cycle
  <2>1. CASE CycleLosesBus \/ CycleFindsTransportLost
    BY <2>1, MarkDisconnectedKeeps DEF CycleLosesBus, CycleFindsTransportLost,
      InCycle, state
  <2>2. CASE CycleFindsOpenPhase
    BY <2>2, FrameKeeps DEF CycleFindsOpenPhase, session, state
  <2>3. ASSUME CycleMatches \/ CycleMismatches \/ CycleDetectsIncompleteData
        PROVE  /\ loop = "server" /\ loop' = "server"
               /\ link = "idle" /\ link' = "idle"
               /\ fullState' = fullState /\ stateInit' = stateInit
               /\ reconnectOp' = reconnectOp
    BY <2>3 DEF CycleMatches, CycleMismatches, CycleDetectsIncompleteData,
      CycleEnds, InCycle, state
  <2>4. ASSUME CycleMatches \/ CycleMismatches \/ CycleDetectsIncompleteData,
               gdiag'["SERVER_INITIALIZATION_FAILED"]
                 = gdiag["SERVER_INITIALIZATION_FAILED"],
               \/ runtimeState' = "fault"
               \/ runtimeState' = runtimeState
                    /\ (~HasGlobalFault(gdiag) => ~HasGlobalFault(gdiag'))
        PROVE  Consistent'
    BY <2>3, <2>4 DEF Consistent, StartupFromScratch, StatusOfState,
      LoopHasRuntime, InitializationFaultFollows, NormalMeansNoGlobalFault,
      RuntimeOwnership, DisconnectedMeansClosed, DisconnectIsDiagnosed, Running
  <2>5. CASE CycleMatches
    <3>1. gdiag'["SERVER_INITIALIZATION_FAILED"] = gdiag["SERVER_INITIALIZATION_FAILED"]
      BY <1>0, <2>5, CodesAreGlobal DEF CycleMatches, GType
    <3>2. ~HasGlobalFault(gdiag) => ~HasGlobalFault(gdiag')
      BY <1>0, <2>5, FaultFacts, CodesAreGlobal DEF CycleMatches
    <3> QED BY <2>4, <2>5, <3>1, <3>2 DEF CycleMatches
  <2>6. CASE CycleMismatches
    BY <2>4, <2>6 DEF CycleMismatches
  <2>7. CASE CycleDetectsIncompleteData
    <3>1. gdiag'["SERVER_INITIALIZATION_FAILED"] = gdiag["SERVER_INITIALIZATION_FAILED"]
      BY <1>0, <2>7, CodesAreGlobal DEF CycleDetectsIncompleteData, GType
    <3> QED BY <2>4, <2>7, <3>1 DEF CycleDetectsIncompleteData
  <2> QED BY <1>2, <2>1, <2>2, <2>5, <2>6, <2>7 DEF Cycle
<1>3. CASE Homing
  <2>1. CASE HomingContinues \/ HomingFinishes
    BY <2>1, FrameKeeps DEF HomingContinues, HomingFinishes, session, state
  <2>2. CASE HomingFinishRaises
    BY <2>2 DEF HomingFinishRaises, Consistent, StartupFromScratch, StatusOfState,
      LoopHasRuntime, InitializationFaultFollows, NormalMeansNoGlobalFault,
      RuntimeOwnership, DisconnectedMeansClosed, DisconnectIsDiagnosed, Running
  <2> QED BY <1>3, <2>1, <2>2 DEF Homing
<1>4. CASE DegradedRoundEnds
  BY <1>4, FrameKeeps DEF DegradedRoundEnds, Running, session, state
<1>5. CASE ServerRoundEnds
  BY <1>5, FrameKeeps DEF ServerRoundEnds, session, state
<1>6. CASE DisconnectedRoundEnds
  <2>1. link # "none" /\ Running
    BY <1>6 DEF DisconnectedRoundEnds, Consistent, LoopHasRuntime, Running
  <2> QED BY <1>6, <2>1, FrameKeeps DEF DisconnectedRoundEnds, session, state
<1>7. CASE ProcessRestarts
  <2>1. ~HasGlobalFault(gdiag')
    BY <1>7 DEF ProcessRestarts, HasGlobalFault, IsActive
  <2>2. /\ loop' = "startup" /\ runtimeState' = "normal"
        /\ fullState' = FALSE /\ stateInit' = "ready" /\ reconnectOp' = FALSE
    BY <1>7 DEF ProcessRestarts
  <2> QED BY <2>1, <2>2 DEF Consistent, StartupFromScratch, StatusOfState,
      LoopHasRuntime, InitializationFaultFollows, NormalMeansNoGlobalFault,
      RuntimeOwnership, DisconnectedMeansClosed, DisconnectIsDiagnosed, Running
<1> QED BY <1>1, <1>2, <1>3, <1>4, <1>5, <1>6, <1>7 DEF LoopStep

\* Every request on the server or the bus keeps it.
LEMMA ServerRequestKeeps ==
    ASSUME TypeOK, Consistent, ServerRequest
    PROVE  Consistent'
<1>0. gdiag \in GType
  BY TypeParts
<1>1. ASSUME NEW cmd, NEW C, FaultReset(cmd, C)
      PROVE  Consistent'
  <2>1. /\ UNCHANGED <<loop, link, fullState, stateInit, reconnectOp, adiag>>
        /\ Running /\ loop # "startup"
        /\ gdiag' = AcknowledgedCodes(gdiag, C)
        /\ runtimeState' = RefreshedRuntimeState(gdiag')
    BY <1>1 DEF FaultReset, Serving, Running, control, state
  <2>2. \A c \in GlobalCodes :
          /\ IsUnresolved(gdiag[c]) => IsUnresolved(gdiag'[c])
          /\ gdiag[c] = "none" => gdiag'[c] = "none"
    BY <1>0, <2>1, AcknowledgedCode
  <2>3. ~HasGlobalFault(gdiag) => ~HasGlobalFault(gdiag')
    BY <1>0, <2>1, FaultFacts
  <2>4. \/ runtimeState' = runtimeState
        \/ runtimeState = "fault" /\ runtimeState' = "normal" /\ ~HasGlobalFault(gdiag')
    BY <2>1 DEF RefreshedRuntimeState
  <2> QED BY <2>1, <2>2, <2>3, <2>4, CodesAreGlobal
    DEF Consistent, StartupFromScratch, StatusOfState,
    LoopHasRuntime, InitializationFaultFollows, NormalMeansNoGlobalFault,
    RuntimeOwnership, DisconnectedMeansClosed, DisconnectIsDiagnosed, Running
<1>2. CASE RequestServerRestart
  BY <1>2, FrameKeeps DEF RequestServerRestart, control, session
<1>3. CASE ReconnectFails
  <2>1. IsUnresolved(gdiag'["BUS_RECONNECT_FAILED"])
    BY <1>0, <1>3, CodesAreGlobal, UnresolvedStays DEF ReconnectFails, GType
  <2>2. gdiag'["SERVER_INITIALIZATION_FAILED"] = gdiag["SERVER_INITIALIZATION_FAILED"]
    BY <1>0, <1>3, CodesAreGlobal DEF ReconnectFails, GType
  <2>3. /\ UNCHANGED <<loop, fullState, stateInit, reconnectOp>>
        /\ link' = "closed" /\ runtimeState' = "bus_disconnected"
        /\ loop \in {"server", "disconnected"}
    BY <1>3 DEF ReconnectFails, ServingRuntime, control, state
  <2> QED BY <2>1, <2>2, <2>3
    DEF Consistent, StartupFromScratch, StatusOfState,
    LoopHasRuntime, InitializationFaultFollows, NormalMeansNoGlobalFault,
    RuntimeOwnership, DisconnectedMeansClosed, DisconnectIsDiagnosed, Running
<1>4. CASE ReconnectCompletes
  <2>1. /\ UNCHANGED <<loop, fullState, stateInit, reconnectOp>>
        /\ link' = "idle" /\ gdiag' = ReconnectedBus(gdiag)
        /\ loop \in {"server", "disconnected"}
    BY <1>4 DEF ReconnectCompletes, ServingRuntime, control, state
  <2>2. runtimeState' = IF HasGlobalFault(gdiag') THEN "fault" ELSE "normal"
    BY <1>4 DEF ReconnectCompletes
  <2>3. gdiag'["SERVER_INITIALIZATION_FAILED"] = gdiag["SERVER_INITIALIZATION_FAILED"]
    BY <1>0, <2>1, ReconnectFacts
  <2> QED BY <2>1, <2>2, <2>3
    DEF Consistent, StartupFromScratch, StatusOfState,
    LoopHasRuntime, InitializationFaultFollows, NormalMeansNoGlobalFault,
    RuntimeOwnership, DisconnectedMeansClosed, DisconnectIsDiagnosed, Running
<1>5. CASE InitReconnectFails
  <2>1. IsUnresolved(gdiag'["SERVER_INITIALIZATION_FAILED"])
    <3>1. gdiag["SERVER_INITIALIZATION_FAILED"] \in Standing
      BY <1>0, CodesAreGlobal DEF GType
    <3>2. gdiag'["SERVER_INITIALIZATION_FAILED"]
            = Detect(gdiag["SERVER_INITIALIZATION_FAILED"])
      BY <1>0, <1>5, CodesAreGlobal DEF InitReconnectFails, GType
    <3> QED BY <3>1, <3>2, UnresolvedStays
  <2>2. /\ UNCHANGED <<loop, fullState, stateInit, reconnectOp>> /\ loop = "degraded"
        /\ link' = "none" /\ runtimeState' = "initialization_error"
    BY <1>5 DEF InitReconnectFails, FailInitialization, control, state
  <2>3. fullState = FALSE
    BY <1>5, <2>2 DEF InitReconnectFails, BusReconnect, Consistent, StatusOfState, Running
  <2> QED BY <2>1, <2>2, <2>3
    DEF Consistent, StartupFromScratch, StatusOfState,
    LoopHasRuntime, InitializationFaultFollows, NormalMeansNoGlobalFault,
    RuntimeOwnership, DisconnectedMeansClosed, DisconnectIsDiagnosed, Running
<1>6. CASE InitReconnectCompletes
  <2>1. gdiag'["SERVER_INITIALIZATION_FAILED"] = "none" /\ ~HasGlobalFault(gdiag')
    <3>1. PICK g \in GType : g = ReconnectedBus(gdiag)
      BY <1>0, GlobalTypes
    <3>2. \A c \in BusCodes : g[c] = "none"
      BY <1>0, <3>1, ReconnectFacts
    <3>3. gdiag' = [g EXCEPT !["SERVER_INITIALIZATION_FAILED"] = "none"]
      BY <1>6, <3>1, AcknowledgeResolve, CodesAreGlobal DEF InitReconnectCompletes, GType
    <3> QED BY <3>2, <3>3 DEF HasGlobalFault, IsActive, BusCodes, GlobalCodes, GType
  <2>2. /\ UNCHANGED loop /\ loop = "degraded" /\ link' = "idle"
        /\ runtimeState' = "normal" /\ stateInit' = "ready" /\ fullState' = TRUE
        /\ reconnectOp' = FALSE
    BY <1>6 DEF InitReconnectCompletes, control
  <2> QED BY <2>1, <2>2
    DEF Consistent, StartupFromScratch, StatusOfState,
    LoopHasRuntime, InitializationFaultFollows, NormalMeansNoGlobalFault,
    RuntimeOwnership, DisconnectedMeansClosed, DisconnectIsDiagnosed, Running
<1>7. CASE InitReconnectRaises
  <2>1. /\ UNCHANGED <<loop, fullState, stateInit, reconnectOp>> /\ loop = "degraded"
        /\ link' = "idle" /\ runtimeState' = "normal"
        /\ gdiag["SERVER_INITIALIZATION_FAILED"] = "acknowledged"
    BY <1>7 DEF InitReconnectRaises, control, state
  <2> QED BY <2>1
    DEF Consistent, StartupFromScratch, StatusOfState,
    LoopHasRuntime, InitializationFaultFollows, NormalMeansNoGlobalFault,
    RuntimeOwnership, DisconnectedMeansClosed, DisconnectIsDiagnosed, Running
<1>8. CASE InitReconnectOrphansLoop
  BY <1>8, FrameKeeps DEF InitReconnectOrphansLoop, session, state
<1> QED BY <1>1, <1>2, <1>3, <1>4, <1>5, <1>6, <1>7, <1>8
  DEF ServerRequest, FaultResetServer, FaultResetBus

\* A restart of an axis is admitted only in NORMAL, so without global faults.
LEMMA RestartAdmission ==
    ASSUME Consistent, NEW a \in Axes, RestartAxis(a)
    PROVE  /\ Running /\ loop' = loop /\ loop \in {"server", "disconnected"}
           /\ UNCHANGED <<fullState, stateInit, reconnectOp, gdiag>>
           /\ runtimeState \notin {"fault", "bus_disconnected"}
           /\ stateInit = "ready" /\ fullState = TRUE /\ link = "idle"
<1>1. /\ Running /\ loop' = loop /\ loop \in {"server", "disconnected"}
      /\ link = "idle"
      /\ UNCHANGED <<fullState, stateInit, reconnectOp, gdiag>>
      /\ AdmittedOnAxis("system/axis/restart", a)
  BY DEF RestartAxis, ServingRuntime, Running, control, state
<1>2. "system/axis/restart" \notin GlobalFaultAllowed
        /\ "system/axis/restart" \notin DegradedAllowed
  BY DEF GlobalFaultAllowed, DegradedAllowed
<1>3. runtimeState \notin {"fault", "bus_disconnected"} /\ stateInit = "ready"
  BY <1>1, <1>2 DEF AdmittedOnAxis, Admitted, AllowedByRuntimeState
<1> QED BY <1>1, <1>3 DEF Consistent, StatusOfState

\* Every request on axes keeps the invariant.
LEMMA AxisRequestKeeps ==
    ASSUME TypeOK, Consistent, AxisRequest
    PROVE  Consistent'
<1>0. gdiag \in GType /\ adiag \in AType /\ runtimeState \in RuntimeStates
  BY TypeParts DEF ScalarTypes
<1>1. ASSUME NEW A \in SUBSET Axes, AxisFaultReset(A)
      PROVE  Consistent'
  <2>1. /\ UNCHANGED <<loop, runtimeState, fullState, stateInit, reconnectOp, gdiag>>
        /\ Running /\ loop # "startup"
    BY <1>1 DEF AxisFaultReset, ServingRuntime, Running, control, state
  <2>2. CASE ExchangeRaises /\ UNCHANGED adiag
    BY <2>1, <2>2, ExchangeKeeps
  <2>3. CASE ExchangeOk
    BY <2>1, <2>3
    DEF ExchangeOk, Consistent, StartupFromScratch, StatusOfState,
    LoopHasRuntime, InitializationFaultFollows, NormalMeansNoGlobalFault,
    RuntimeOwnership, DisconnectedMeansClosed, DisconnectIsDiagnosed, Running
  <2> QED BY <1>1, <2>2, <2>3 DEF AxisFaultReset
<1>2. ASSUME NEW a \in Axes,
             StopOrDisable(a) \/ RestartAxisStopsEarly(a) \/ MotionCommand(a)
      PROVE  Consistent'
  <2>1. Running /\ UNCHANGED <<loop, runtimeState, fullState, stateInit, reconnectOp, gdiag, adiag>>
          /\ (ExchangeOk \/ ExchangeRaises)
    BY <1>2 DEF StopOrDisable, RestartAxisStopsEarly, MotionCommand, ServingRuntime,
      Running, control, state
  <2> QED BY <2>1, ExchangeKeeps
<1>3. ASSUME NEW a \in Axes, Home(a)
      PROVE  Consistent'
  <2>1. Running /\ UNCHANGED <<loop, runtimeState, fullState, stateInit, reconnectOp, gdiag, adiag>>
          /\ (ExchangeOk \/ ExchangeRaises \/ link' = link)
    BY <1>3 DEF Home, ServingRuntime, Running, control, state
  <2> QED BY <2>1, ExchangeKeeps, FrameKeeps
<1>4. ASSUME NEW a \in Axes, RestartAxisLosesBus(a)
      PROVE  Consistent'
  <2>1. RestartAxis(a) /\ link' = "closed" /\ runtimeState' = "bus_disconnected"
    BY <1>4 DEF RestartAxisLosesBus
  <2>2. IsUnresolved(adiag'[a]["AXIS_RESTART_FAILED"])
    <3>1. PICK d \in AType :
            adiag' = [d EXCEPT ![a]["AXIS_RESTART_FAILED"] = Detect(@)]
      BY <1>0, <1>4, RefreshTypes DEF RestartAxisLosesBus
    <3>2. d[a]["AXIS_RESTART_FAILED"] \in Standing
      BY DEF AType, AxisCodes, AxisFaultCodes
    <3>3. adiag'[a]["AXIS_RESTART_FAILED"] = Detect(d[a]["AXIS_RESTART_FAILED"])
      BY <3>1 DEF AType, AxisCodes, AxisFaultCodes
    <3> QED BY <3>2, <3>3, UnresolvedStays
  <2> QED BY <2>1, <2>2, RestartAdmission
    DEF Consistent, StartupFromScratch, StatusOfState,
    LoopHasRuntime, InitializationFaultFollows, NormalMeansNoGlobalFault,
    RuntimeOwnership, DisconnectedMeansClosed, DisconnectIsDiagnosed, Running
<1>5. ASSUME NEW a \in Axes, RestartAxisTooLate(a) \/ RestartAxisCompletes(a)
      PROVE  Consistent'
  <2>1. RestartAxis(a) /\ link' = "idle" /\ runtimeState' \in {"normal", "fault"}
    BY <1>5 DEF RestartAxisTooLate, RestartAxisCompletes
  <2>2. runtimeState = "normal"
    BY <1>0, <2>1, RestartAdmission DEF RuntimeStates, Consistent, RuntimeOwnership
  <2> QED BY <2>1, <2>2, RestartAdmission
    DEF Consistent, StartupFromScratch, StatusOfState,
    LoopHasRuntime, InitializationFaultFollows, NormalMeansNoGlobalFault,
    RuntimeOwnership, DisconnectedMeansClosed, DisconnectIsDiagnosed, Running
<1> QED BY <1>1, <1>2, <1>3, <1>4, <1>5 DEF AxisRequest

LEMMA InitInv == ASSUME Init PROVE IndInv
<1>1. ~HasGlobalFault(gdiag)
  BY DEF Init, HasGlobalFault, IsActive
<1>2. /\ loop = "startup" /\ runtimeState = "normal"
      /\ fullState = FALSE /\ stateInit = "ready" /\ reconnectOp = FALSE
  BY DEF Init
<1>3. Consistent
  BY <1>1, <1>2
  DEF Consistent, StartupFromScratch, StatusOfState,
    LoopHasRuntime, InitializationFaultFollows, NormalMeansNoGlobalFault,
    RuntimeOwnership, DisconnectedMeansClosed, DisconnectIsDiagnosed, Running
<1> QED BY <1>3, InitType, IndInvParts

LEMMA NextInv == ASSUME IndInv, [Next]_vars PROVE IndInv'
<1>0. TypeOK /\ Consistent
  BY IndInvParts
<1>1. TypeOK'
  BY <1>0, NextType
<1>2. ASSUME DegradedStateCrashes PROVE Consistent'
  BY <1>0, <1>2, FrameKeeps DEF DegradedStateCrashes, session, state
<1>3. ASSUME UNCHANGED vars PROVE Consistent'
  BY <1>0, <1>3, FrameKeeps DEF vars
<1>4. Consistent'
  BY <1>0, <1>2, <1>3, LoopStepKeeps, ServerRequestKeeps, AxisRequestKeeps
  DEF Next, Ended
<1> QED BY <1>1, <1>4 DEF IndInv, Consistent

\* The inductive invariant holds in every behaviour, for any number of axes.
THEOREM Inductive == Spec => []IndInv
BY InitInv, NextInv, PTL DEF Spec

\* NORMAL is never reported while a server or bus fault is active.
THEOREM NormalIsFaultFree == Spec => []NormalMeansNoGlobalFault
<1>1. IndInv => NormalMeansNoGlobalFault
  BY DEF IndInv
<1> QED BY <1>1, Inductive, PTL

\* The session has a runtime exactly outside INITIALIZATION_ERROR.
THEOREM RuntimeIsOwned == Spec => []RuntimeOwnership
<1>1. IndInv => RuntimeOwnership
  BY DEF IndInv
<1> QED BY <1>1, Inductive, PTL

\* BUS_DISCONNECTED and a closed master coincide.
THEOREM DisconnectedIsClosed == Spec => []DisconnectedMeansClosed
<1>1. IndInv => DisconnectedMeansClosed
  BY DEF IndInv
<1> QED BY <1>1, Inductive, PTL

\* A disconnected bus always has an unresolved diagnostic.
THEOREM DisconnectDiagnosed == Spec => []DisconnectIsDiagnosed
<1>1. IndInv => DisconnectIsDiagnosed
  BY DEF IndInv
<1> QED BY <1>1, Inductive, PTL

-----------------------------------------------------------------------------
(* Faults latch *)

\* Only the server loop has a PDO cycle.
PhaseOfLoop == phase \in {"cycle", "homing"} => loop \in {"server", "crashed"}

LEMMA PhaseInv == Spec => []PhaseOfLoop
<1>1. Init => PhaseOfLoop
  BY DEF Init, PhaseOfLoop
<1>2. ASSUME PhaseOfLoop, [Next]_vars PROVE PhaseOfLoop'
  <2>1. CASE Startup
    BY <1>2, <2>1 DEF Startup, ConfigurationFails, InitializationFails, StateBuildFails,
      EnterDegraded, StartupCompletes, PhaseOfLoop
  <2>2. CASE Cycle
    BY <1>2, <2>2 DEF Cycle, CycleLosesBus, CycleFindsOpenPhase, CycleMatches,
      CycleMismatches, CycleDetectsIncompleteData, CycleFindsTransportLost, CycleEnds,
      MarkDisconnected, InCycle, PhaseOfLoop
  <2>3. CASE Homing
    BY <1>2, <2>3 DEF Homing, HomingContinues, HomingFinishes, HomingFinishRaises,
      InHoming, PhaseOfLoop
  <2>4. CASE DegradedRoundEnds \/ ServerRoundEnds \/ DisconnectedRoundEnds
    BY <1>2, <2>4 DEF DegradedRoundEnds, ServerRoundEnds, DisconnectedRoundEnds, PhaseOfLoop
  <2>5. CASE ProcessRestarts
    BY <2>5 DEF ProcessRestarts, PhaseOfLoop
  <2>6. ASSUME UNCHANGED control PROVE PhaseOfLoop'
    BY <1>2, <2>6 DEF control, PhaseOfLoop
  <2>7. CASE ServerRequest
    BY <2>6, <2>7 DEF ServerRequest, FaultResetServer, FaultResetBus, FaultReset,
      RequestServerRestart, ReconnectFails, ReconnectCompletes, InitReconnectFails,
      InitReconnectCompletes, InitReconnectRaises, InitReconnectOrphansLoop,
      ServingRuntime, PhaseOfLoop
  <2>8. CASE AxisRequest
    BY <2>6, <2>8 DEF AxisRequest, AxisFaultReset, StopOrDisable, Home, MotionCommand,
      RestartAxisStopsEarly, RestartAxisLosesBus, RestartAxisTooLate,
      RestartAxisCompletes, RestartAxis
  <2>9. CASE DegradedStateCrashes
    BY <2>9 DEF DegradedStateCrashes, PhaseOfLoop
  <2>10. CASE UNCHANGED vars
    BY <2>6, <2>10 DEF vars, control
  <2> QED BY <1>2, <2>1, <2>2, <2>3, <2>4, <2>5, <2>7, <2>8, <2>9, <2>10
    DEF Next, LoopStep, Ended
<1> QED BY <1>1, <1>2, PTL DEF Spec

\* What resolve() and detect() leave of an entry that nobody acknowledged.
LEMMA LatchFacts ==
    ASSUME NEW s \in {"detected", "resolved"}
    PROVE  IsActive(Resolve(s)) /\ IsActive(Detect(s)) /\ IsActive(s)
BY DEF Resolve, Detect, IsActive

Latched ==
    /\ \A c \in GlobalCodes :
          gdiag[c] \in {"detected", "resolved"} => IsActive(gdiag'[c])
    /\ \A a \in Axes, c \in AxisFaultCodes :
          adiag[a][c] \in {"detected", "resolved"} => IsActive(adiag'[a][c])

\* A cycle of the monitor keeps every unacknowledged entry.
LEMMA CycleLatches == ASSUME TypeOK, Cycle PROVE Latched
<1>0. gdiag \in GType /\ adiag \in AType
  BY TypeParts
<1>1. ASSUME NEW k \in GlobalCodes,
             gdiag' = gdiag \/ gdiag' = [gdiag EXCEPT ![k] = Detect(@)]
               \/ gdiag' = [gdiag EXCEPT ![k] = Resolve(@)],
             NEW c \in GlobalCodes, gdiag[c] \in {"detected", "resolved"}
      PROVE  IsActive(gdiag'[c])
  BY <1>0, <1>1, LatchFacts DEF GType
<1>2. \A c \in GlobalCodes :
        gdiag[c] \in {"detected", "resolved"} => IsActive(gdiag'[c])
  BY <1>1, CodesAreGlobal DEF Cycle, CycleLosesBus, CycleFindsOpenPhase, CycleMatches,
    CycleMismatches, CycleDetectsIncompleteData, CycleFindsTransportLost, MarkDisconnected
<1>3. ASSUME NEW F \in SUBSET Axes, NEW W \in SUBSET Axes, UpdateAxes(F, W),
             NEW a \in Axes, NEW c \in AxisFaultCodes,
             adiag[a][c] \in {"detected", "resolved"}
      PROVE  IsActive(adiag'[a][c])
  <2>1. c \in AxisCodes /\ c # "AXIS_DRIVE_WARNING"
    BY DEF AxisCodes, AxisFaultCodes
  <2>2. adiag'[a][c] \in {adiag[a][c], Detect(adiag[a][c]), Resolve(adiag[a][c])}
    BY <1>0, <1>3, <2>1 DEF UpdateAxes, AType
  <2> QED BY <1>3, <2>2, LatchFacts
<1>4. ASSUME UNCHANGED adiag, NEW a \in Axes, NEW c \in AxisFaultCodes,
             adiag[a][c] \in {"detected", "resolved"}
      PROVE  IsActive(adiag'[a][c])
  BY <1>4 DEF IsActive
<1>5. UNCHANGED adiag \/ \E F, W \in SUBSET Axes : UpdateAxes(F, W)
  BY DEF Cycle, CycleLosesBus, CycleFindsOpenPhase, CycleMatches, CycleMismatches,
    CycleDetectsIncompleteData, CycleFindsTransportLost, CycleEnds
<1> QED BY <1>2, <1>3, <1>4, <1>5 DEF Latched

\* The latch holds: outside the requests of clients no unacknowledged server,
\* bus or axis fault disappears.
THEOREM FaultsAreLatched == Spec => FaultsLatch
<1>1. ASSUME TypeOK, PhaseOfLoop, [Next]_vars, phase \in {"cycle", "homing"}
      PROVE  Latched
  <2>1. ASSUME UNCHANGED <<gdiag, adiag>> PROVE Latched
    BY <2>1 DEF Latched, IsActive
  <2>2. loop \in {"server", "crashed"} /\ phase # "clients"
    BY <1>1 DEF PhaseOfLoop
  <2>3. ~ServerRequest /\ ~AxisRequest
    BY <2>2 DEF ServerRequest, FaultResetServer, FaultResetBus, FaultReset,
      RequestServerRestart, ReconnectFails, ReconnectCompletes, InitReconnectFails,
      InitReconnectCompletes, InitReconnectRaises, InitReconnectOrphansLoop,
      BusReconnect, Serving, ServingRuntime, AxisRequest, AxisFaultReset,
      StopOrDisable, Home, MotionCommand, RestartAxisStopsEarly, RestartAxisLosesBus,
      RestartAxisTooLate, RestartAxisCompletes, RestartAxis
  <2>4. ~Startup /\ ~ProcessRestarts /\ ~DegradedRoundEnds /\ ~DisconnectedRoundEnds
    BY <2>2 DEF Startup, ConfigurationFails, InitializationFails, StateBuildFails,
      EnterDegraded, StartupCompletes, ProcessRestarts, DegradedRoundEnds,
      DisconnectedRoundEnds
  <2>5. CASE Cycle
    BY <1>1, <2>5, CycleLatches
  <2>6. CASE Homing \/ ServerRoundEnds \/ DegradedStateCrashes \/ UNCHANGED vars
    BY <2>1, <2>6 DEF Homing, HomingContinues, HomingFinishes, HomingFinishRaises,
      ServerRoundEnds, DegradedStateCrashes, vars
  <2> QED BY <1>1, <2>3, <2>4, <2>5, <2>6 DEF Next, LoopStep, Ended
<1>2. ASSUME TypeOK, PhaseOfLoop, [Next]_vars
      PROVE  [(phase \in {"cycle", "homing"} => Latched)]_vars
  BY <1>1, <1>2
<1> QED BY <1>2, TypeCorrect, PhaseInv, PTL DEF Spec, FaultsLatch, Latched

-----------------------------------------------------------------------------
(* Wrong working counters are noticed *)

\* The monitor has counted at least the exchanges of the run, also over the
\* loop it was kept through, and the run was diagnosed when it reached the
\* threshold.
RunIsCounted ==
    /\ loop \in {"startup", "degraded"} => badRun = 0
    /\ badRun <= mismatch
    /\ (loop \in {"server", "disconnected"} /\ link # "closed"
          /\ badRun = MismatchThreshold) =>
          /\ IsUnresolved(gdiag["BUS_PROCESS_DATA_INCOMPLETE"])
          /\ runtimeState = "fault"

\* A new run begins: the bus has just come up, or the counter matched.
LEMMA NewRun ==
    ASSUME badRun' = 0, mismatch' \in Nat
    PROVE  RunIsCounted'
BY ThresholdAssumption DEF RunIsCounted

\* A step outside the cycle that leaves the bus fault and the restriction.
LEMMA RunKept ==
    ASSUME RunIsCounted, UNCHANGED <<badRun, mismatch, gdiag, runtimeState>>,
           loop' \in {"startup", "degraded"} => loop' = loop,
           link' # "closed" => link # "closed",
           loop' \in {"server", "disconnected"} =>
             loop \in {"server", "disconnected"} \/ badRun = 0
    PROVE  RunIsCounted'
BY ThresholdAssumption DEF RunIsCounted

\* A step that closes the master or leaves the loops with a runtime.
LEMMA RunLeft ==
    ASSUME RunIsCounted, badRun' <= mismatch', loop' \notin {"startup", "degraded"},
           link' = "closed" \/ loop' \notin {"server", "disconnected"}
    PROVE  RunIsCounted'
BY DEF RunIsCounted

LEMMA CycleCounts == ASSUME IndInv, RunIsCounted, Cycle PROVE RunIsCounted'
<1>0. /\ gdiag \in GType /\ mismatch \in 0 .. MismatchThreshold
      /\ badRun \in 0 .. MismatchThreshold /\ MismatchThreshold \in Nat \ {0}
      /\ badRun <= mismatch
  BY TypeParts, ThresholdAssumption DEF IndInv, ScalarTypes, RunIsCounted
<1>1. CASE CycleLosesBus
  <2>1. /\ link' = "closed" /\ loop' = "disconnected" /\ UNCHANGED <<badRun, mismatch>>
    BY <1>1 DEF CycleLosesBus, MarkDisconnected
  <2> QED BY <1>0, <2>1, RunLeft
<1>2. CASE CycleFindsOpenPhase
  BY <1>0, <1>2, RunLeft DEF CycleFindsOpenPhase
<1>3. CASE CycleMatches
  BY <1>3, NewRun DEF CycleMatches
<1>4. CASE CycleMismatches
  <2>1. /\ mismatch + 1 < MismatchThreshold /\ mismatch' = mismatch + 1
        /\ badRun' = Capped(badRun + 1) /\ loop' = "server"
    BY <1>4 DEF CycleMismatches, CycleEnds, InCycle
  <2>2. badRun' = badRun + 1 BY <1>0, <2>1 DEF Capped
  <2>3. badRun' <= mismatch' /\ badRun' # MismatchThreshold BY <1>0, <2>1, <2>2
  <2> QED BY <2>1, <2>3 DEF RunIsCounted
<1>5. CASE CycleDetectsIncompleteData
  <2>1. /\ mismatch' = Capped(mismatch + 1) /\ badRun' = Capped(badRun + 1)
        /\ runtimeState' = "fault" /\ loop' = "server"
        /\ gdiag' = [gdiag EXCEPT !["BUS_PROCESS_DATA_INCOMPLETE"] = Detect(@)]
    BY <1>5 DEF CycleDetectsIncompleteData, CycleEnds, InCycle
  <2>2. badRun' <= mismatch' BY <1>0, <2>1 DEF Capped
  <2>3. IsUnresolved(gdiag'["BUS_PROCESS_DATA_INCOMPLETE"])
    BY <1>0, <2>1, CodesAreGlobal, UnresolvedStays DEF GType
  <2> QED BY <2>1, <2>2, <2>3 DEF RunIsCounted
<1>6. CASE CycleFindsTransportLost
  <2>1. /\ mismatch' = Capped(mismatch + 1) /\ badRun' = Capped(badRun + 1)
        /\ link' = "closed" /\ loop' = "disconnected"
    BY <1>6 DEF CycleFindsTransportLost, MarkDisconnected
  <2>2. badRun' <= mismatch' BY <1>0, <2>1 DEF Capped
  <2> QED BY <2>1, <2>2, RunLeft
<1> QED BY <1>1, <1>2, <1>3, <1>4, <1>5, <1>6 DEF Cycle

LEMMA LoopStepCounts == ASSUME IndInv, RunIsCounted, LoopStep PROVE RunIsCounted'
<1>0. /\ mismatch \in Nat /\ badRun <= mismatch /\ MismatchThreshold \in Nat \ {0}
  BY TypeParts, ThresholdAssumption DEF IndInv, ScalarTypes, RunIsCounted
<1>1. CASE Startup
  <2>1. loop = "startup" /\ UNCHANGED <<badRun, mismatch>>
    BY <1>1 DEF Startup, ConfigurationFails, InitializationFails, StateBuildFails,
      EnterDegraded, StartupCompletes
  <2>2. badRun' = 0 BY <2>1 DEF RunIsCounted
  <2> QED BY <1>0, <2>1, <2>2, NewRun
<1>2. CASE Cycle BY <1>2, CycleCounts
<1>3. CASE HomingContinues \/ HomingFinishes
  BY <1>3, RunKept DEF HomingContinues, HomingFinishes, InHoming, session
<1>4. CASE HomingFinishRaises
  BY <1>0, <1>4, RunLeft DEF HomingFinishRaises
<1>5. CASE DegradedRoundEnds
  <2>1. loop = "degraded" /\ badRun' = 0 BY <1>5 DEF DegradedRoundEnds, RunIsCounted
  <2>2. mismatch' \in Nat BY <1>0, <1>5 DEF DegradedRoundEnds
  <2> QED BY <2>1, <2>2, NewRun
<1>6. CASE ServerRoundEnds \/ DisconnectedRoundEnds
  BY <1>6, RunKept DEF ServerRoundEnds, DisconnectedRoundEnds, session
<1>7. CASE ProcessRestarts BY <1>7, NewRun DEF ProcessRestarts
<1> QED BY <1>1, <1>2, <1>3, <1>4, <1>5, <1>6, <1>7 DEF LoopStep, Homing

LEMMA ServerRequestCounts == ASSUME IndInv, RunIsCounted, ServerRequest PROVE RunIsCounted'
<1>0. /\ gdiag \in GType /\ mismatch \in Nat /\ badRun <= mismatch
      /\ MismatchThreshold \in Nat \ {0}
  BY TypeParts, ThresholdAssumption DEF IndInv, ScalarTypes, RunIsCounted
<1>1. ASSUME NEW cmd, NEW C, FaultReset(cmd, C) PROVE RunIsCounted'
  <2>1. /\ gdiag' = AcknowledgedCodes(gdiag, C)
        /\ runtimeState' = RefreshedRuntimeState(gdiag')
        /\ UNCHANGED <<loop, link, badRun, mismatch>>
    BY <1>1 DEF FaultReset, control
  <2>2. ASSUME IsUnresolved(gdiag["BUS_PROCESS_DATA_INCOMPLETE"]), runtimeState = "fault"
        PROVE  IsUnresolved(gdiag'["BUS_PROCESS_DATA_INCOMPLETE"]) /\ runtimeState' = "fault"
    <3>1. IsUnresolved(gdiag'["BUS_PROCESS_DATA_INCOMPLETE"])
      BY <1>0, <2>1, <2>2, CodesAreGlobal, AcknowledgedCode
    <3>2. HasGlobalFault(gdiag')
      BY <3>1, CodesAreGlobal DEF HasGlobalFault, IsActive, IsUnresolved
    <3> QED BY <2>1, <2>2, <3>1, <3>2 DEF RefreshedRuntimeState
  <2> QED BY <2>1, <2>2 DEF RunIsCounted
<1>2. CASE RequestServerRestart
  BY <1>2, RunKept DEF RequestServerRestart, control, session
<1>3. CASE ReconnectFails
  <2>1. link' = "closed" /\ loop' = loop /\ loop \in {"server", "disconnected"}
        /\ UNCHANGED <<badRun, mismatch>>
    BY <1>3 DEF ReconnectFails, ServingRuntime, control
  <2> QED BY <1>0, <2>1, RunLeft
<1>4. CASE ReconnectCompletes BY <1>0, <1>4, NewRun DEF ReconnectCompletes
<1>5. CASE InitReconnectFails \/ InitReconnectCompletes \/ InitReconnectRaises
  <2>1. loop = "degraded" /\ UNCHANGED <<badRun, mismatch>>
    BY <1>5 DEF InitReconnectFails, InitReconnectCompletes, InitReconnectRaises
  <2> QED BY <1>0, <2>1, NewRun DEF RunIsCounted
<1>6. CASE InitReconnectOrphansLoop
  BY <1>0, <1>6, RunLeft DEF InitReconnectOrphansLoop
<1> QED BY <1>1, <1>2, <1>3, <1>4, <1>5, <1>6
  DEF ServerRequest, FaultResetServer, FaultResetBus

LEMMA AxisRequestCounts == ASSUME IndInv, RunIsCounted, AxisRequest PROVE RunIsCounted'
<1>0. Consistent /\ mismatch \in Nat /\ badRun <= mismatch
  BY IndInvParts, TypeParts DEF ScalarTypes, RunIsCounted
<1>1. ASSUME UNCHANGED <<control, runtimeState, mismatch, gdiag, badRun>>,
             ExchangeOk \/ ExchangeRaises \/ link' = link
      PROVE  RunIsCounted'
  <2>1. link' # "closed" => link # "closed" BY <1>1 DEF ExchangeOk, ExchangeRaises
  <2> QED BY <1>1, <2>1, RunKept DEF control
<1>2. ASSUME NEW A, AxisFaultReset(A) PROVE RunIsCounted'
  BY <1>1, <1>2 DEF AxisFaultReset
<1>3. ASSUME NEW a, StopOrDisable(a) \/ Home(a) \/ MotionCommand(a)
                      \/ RestartAxisStopsEarly(a)
      PROVE  RunIsCounted'
  BY <1>1, <1>3 DEF StopOrDisable, Home, MotionCommand, RestartAxisStopsEarly
<1>4. ASSUME NEW a \in Axes, RestartAxisLosesBus(a) PROVE RunIsCounted'
  <2>1. RestartAxis(a) /\ link' = "closed" /\ UNCHANGED <<badRun, mismatch>>
    BY <1>4 DEF RestartAxisLosesBus, RestartAxis
  <2>2. loop' \in {"server", "disconnected"} BY <1>0, <2>1, RestartAdmission
  <2> QED BY <1>0, <2>1, <2>2, RunLeft
<1>5. ASSUME NEW a, RestartAxisTooLate(a) \/ RestartAxisCompletes(a) PROVE RunIsCounted'
  BY <1>0, <1>5, NewRun DEF RestartAxisTooLate, RestartAxisCompletes, RestartAxis
<1> QED BY <1>2, <1>3, <1>4, <1>5 DEF AxisRequest

\* As many wrong working counters in a row as the threshold says are diagnosed
\* and restrict the server while the bus runs, for any threshold and whatever
\* clients request in between.
THEOREM MismatchesAreNoticed == Spec => []MismatchesAreDetected
<1>1. Init => RunIsCounted BY NewRun, ThresholdAssumption DEF Init, RunIsCounted
<1>2. ASSUME IndInv, RunIsCounted, [Next]_vars PROVE RunIsCounted'
  <2>1. CASE DegradedStateCrashes
    BY <2>1, <1>2, RunLeft DEF DegradedStateCrashes, RunIsCounted
  <2>2. CASE UNCHANGED vars BY <1>2, <2>2, RunKept DEF vars
  <2> QED BY <1>2, <2>1, <2>2, LoopStepCounts, ServerRequestCounts, AxisRequestCounts
    DEF Next, Ended
<1>3. RunIsCounted => MismatchesAreDetected BY DEF RunIsCounted, MismatchesAreDetected
<1> QED BY <1>1, <1>2, <1>3, Inductive, PTL DEF Spec

-----------------------------------------------------------------------------
(* The server implements ServerLifecycle *)

\* What the invariant says about the abstract state.
ModeInfo ==
    /\ Mode \in {"starting", "unserved"} \union RuntimeStates
    /\ Mode = "normal" => ~Faulty
    /\ Mode = "initialization_error" => Faulty
    /\ Mode \in {"starting", "unserved"} => ~Faulty

LEMMA ModeFacts == IndInv => ModeInfo
<1> SUFFICES ASSUME IndInv PROVE ModeInfo
  OBVIOUS
<1>1. /\ runtimeState \in RuntimeStates /\ gdiag \in GType /\ Consistent
      /\ loop \in Loops /\ fullState \in BOOLEAN
  BY IndInvParts, TypeParts DEF ScalarTypes
<1>2. Mode \in {"starting", "unserved"} \union RuntimeStates
  BY <1>1 DEF Mode
<1>3. Mode \in {"starting", "unserved"} => ~Faulty
  BY DEF Faulty, RuntimeStates
<1>4. Mode = "normal" => ~Faulty
  BY <1>1 DEF Mode, Faulty, Running, Loops, Consistent, NormalMeansNoGlobalFault,
    RuntimeOwnership
<1>5. Mode = "initialization_error" => Faulty
  <2> SUFFICES ASSUME Mode = "initialization_error" PROVE Faulty
    OBVIOUS
  <2>1. Running /\ runtimeState = "initialization_error"
    BY <1>1 DEF Mode, Running, Loops
  <2>2. IsUnresolved(gdiag["SERVER_INITIALIZATION_FAILED"])
    BY <1>1, <2>1 DEF Consistent, RuntimeOwnership, InitializationFaultFollows
  <2>3. HasGlobalFault(gdiag)
    BY <2>2, CodesAreGlobal DEF HasGlobalFault, IsActive, IsUnresolved
  <2> QED BY <2>3 DEF Faulty, RuntimeStates
<1> QED BY <1>2, <1>3, <1>4, <1>5 DEF ModeInfo

\* The moves of the runtime state that ServerLifecycle permits, without faulty.
Permitted(m, n) ==
    \/ m = n
    \/ m = "starting" /\ n \in {"initialization_error", "normal"}
    \/ m \in {"initialization_error", "fault", "bus_disconnected"} /\ n = "normal"
    \/ m = "normal" /\ n = "fault"
    \/ m \in {"normal", "fault"} /\ n = "bus_disconnected"
    \/ m # "starting" /\ n = "starting"
    \/ m \in RuntimeStates /\ n = "unserved"

\* A permitted move between two states of the invariant is an abstract step.
LEMMA PermittedIsAbstractStep ==
    ASSUME IndInv, IndInv', Permitted(Mode, Mode')
    PROVE  [Lifecycle!Next]_<<Mode, Faulty>>
<1>1. ModeInfo
  BY ModeFacts
<1>2. ModeInfo'
  BY ModeFacts, PTL
<1>3. Faulty \in BOOLEAN /\ Faulty' \in BOOLEAN
  BY DEF Faulty
<1> QED BY <1>1, <1>2, <1>3 DEF ModeInfo, Permitted, RuntimeStates, Lifecycle!Next,
  Lifecycle!StartFails, Lifecycle!StartSucceeds, Lifecycle!Recovers,
  Lifecycle!Restricts, Lifecycle!Disconnects, Lifecycle!Restarts, Lifecycle!Fails,
  Lifecycle!Connected

\* Every step of the server makes a permitted move.
LEMMA StepIsPermitted ==
    ASSUME IndInv, [Next]_vars
    PROVE  Permitted(Mode, Mode')
<1>0. /\ runtimeState \in RuntimeStates /\ gdiag \in GType /\ Consistent
      /\ loop \in Loops /\ link \in Links /\ fullState \in BOOLEAN
  BY IndInvParts, TypeParts DEF ScalarTypes
<1>1. ASSUME UNCHANGED <<loop, runtimeState, fullState>>, link' = "none" <=> link = "none"
      PROVE  Permitted(Mode, Mode')
  BY <1>1 DEF Mode, Running, Permitted
<1>2. ASSUME loop' \in {"startup", "restarting"}
      PROVE  Permitted(Mode, Mode')
  BY <1>2 DEF Mode, Permitted
<1>3. ASSUME loop \in {"server", "disconnected"}, loop' \in {"crashed", "orphaned"}
      PROVE  Permitted(Mode, Mode')
  BY <1>0, <1>3 DEF Mode, Running, Permitted
<1>4. ASSUME Running, loop' \in {"degraded", "server", "disconnected"},
             UNCHANGED <<runtimeState, fullState, link>>
      PROVE  Permitted(Mode, Mode')
  BY <1>4 DEF Mode, Running, Permitted
\* In a loop with a PDO cycle: the hybrid of a runtime and the degraded state
\* stays what it is, otherwise the runtime state is what counts.
<1>5. ASSUME Running, link # "none", link' # "none", Running', UNCHANGED fullState,
             Permitted(runtimeState, runtimeState')
      PROVE  Permitted(Mode, Mode')
  BY <1>5 DEF Mode, Running, Permitted
<1>6. CASE Startup
  <2>1. loop = "startup"
    BY <1>6 DEF Startup, ConfigurationFails, InitializationFails, StateBuildFails,
      EnterDegraded, StartupCompletes
  <2>2. CASE StartupCompletes
    <3>1. loop' = "server" /\ runtimeState' = "normal" /\ fullState' = TRUE
      BY <1>0, <2>2 DEF StartupCompletes, Consistent, StartupFromScratch
    <3> QED BY <2>1, <3>1 DEF Mode, Running, Permitted
  <2>3. CASE ConfigurationFails \/ InitializationFails \/ StateBuildFails
    <3>1. loop' = "degraded" /\ link' = "none" /\ runtimeState' = "initialization_error"
      BY <2>3 DEF ConfigurationFails, InitializationFails, StateBuildFails,
        EnterDegraded, FailInitialization
    <3> QED BY <2>1, <3>1 DEF Mode, Running, Permitted
  <2> QED BY <1>6, <2>2, <2>3 DEF Startup
<1>7. CASE Cycle
  <2>1. loop = "server" /\ link # "none" /\ Running
    BY <1>0, <1>7 DEF Cycle, CycleLosesBus, CycleFindsOpenPhase, CycleMatches,
      CycleMismatches, CycleDetectsIncompleteData, CycleFindsTransportLost, InCycle,
      Consistent, LoopHasRuntime, Running
  <2>2. runtimeState # "initialization_error"
    BY <1>0, <2>1 DEF Consistent, RuntimeOwnership
  <2>3. CASE CycleLosesBus \/ CycleFindsTransportLost
    <3>1. /\ loop' = "disconnected" /\ link' = "closed"
          /\ runtimeState' = "bus_disconnected" /\ fullState' = fullState
      BY <2>3 DEF CycleLosesBus, CycleFindsTransportLost, MarkDisconnected, state
    <3>2. Permitted(runtimeState, runtimeState')
      BY <1>0, <2>2, <3>1 DEF Permitted, RuntimeStates
    <3> QED BY <1>5, <2>1, <3>1, <3>2 DEF Running
  <2>4. CASE CycleFindsOpenPhase
    BY <1>3, <2>1, <2>4 DEF CycleFindsOpenPhase
  <2>5. CASE CycleMatches \/ CycleMismatches
    BY <1>1, <2>5 DEF CycleMatches, CycleMismatches, CycleEnds, state
  <2>6. CASE CycleDetectsIncompleteData
    <3>1. /\ loop' = loop /\ link' = "idle" /\ link = "idle"
          /\ runtimeState' = "fault" /\ fullState' = fullState
      BY <2>6 DEF CycleDetectsIncompleteData, CycleEnds, state
    <3>2. runtimeState # "bus_disconnected"
      BY <1>0, <2>1, <3>1 DEF Consistent, DisconnectedMeansClosed
    <3>3. Permitted(runtimeState, runtimeState')
      BY <1>0, <2>2, <3>1, <3>2 DEF Permitted, RuntimeStates
    <3> QED BY <1>5, <2>1, <3>1, <3>3 DEF Running
  <2> QED BY <1>7, <2>3, <2>4, <2>5, <2>6 DEF Cycle
<1>8. CASE Homing
  <2>1. CASE HomingContinues \/ HomingFinishes
    BY <1>1, <2>1 DEF HomingContinues, HomingFinishes, session, state
  <2>2. CASE HomingFinishRaises
    BY <1>3, <2>2 DEF HomingFinishRaises, InHoming
  <2> QED BY <1>8, <2>1, <2>2 DEF Homing
<1>9. CASE DegradedRoundEnds \/ ServerRoundEnds \/ DisconnectedRoundEnds
  BY <1>2, <1>4, <1>9 DEF DegradedRoundEnds, ServerRoundEnds, DisconnectedRoundEnds,
    Running, session, state
<1>10. CASE ProcessRestarts
  BY <1>2, <1>10 DEF ProcessRestarts
<1>11. CASE ServerRequest
  <2>1. ASSUME NEW cmd, NEW C, FaultReset(cmd, C) PROVE Permitted(Mode, Mode')
    <3>1. /\ UNCHANGED <<loop, link, fullState>> /\ Running
          /\ runtimeState' = RefreshedRuntimeState(gdiag')
      BY <2>1 DEF FaultReset, Serving, Running, control, state
    <3>2. \/ runtimeState' = runtimeState
          \/ link # "none" /\ runtimeState = "fault" /\ runtimeState' = "normal"
      BY <3>1 DEF RefreshedRuntimeState
    <3>3. CASE runtimeState' = runtimeState
      BY <1>1, <3>1, <3>3
    <3>4. CASE link # "none" /\ runtimeState = "fault" /\ runtimeState' = "normal"
      <4>1. Permitted(runtimeState, runtimeState')
        BY <3>4 DEF Permitted
      <4> QED BY <1>5, <3>1, <3>4, <4>1 DEF Running
    <3> QED BY <3>2, <3>3, <3>4
  <2>2. CASE RequestServerRestart
    BY <1>1, <2>2 DEF RequestServerRestart, control, session
  <2>3. ASSUME ReconnectFails \/ ReconnectCompletes
        PROVE  /\ Running /\ UNCHANGED <<loop, fullState>> /\ link # "none"
               /\ runtimeState # "initialization_error"
               /\ link' # "none" /\ Running'
    <3>1. /\ loop \in {"server", "disconnected"} /\ UNCHANGED <<loop, fullState>>
          /\ link' # "none"
      BY <2>3 DEF ReconnectFails, ReconnectCompletes, ServingRuntime, control, state
    <3> QED BY <1>0, <3>1 DEF Running, Consistent, LoopHasRuntime, RuntimeOwnership
  <2>4. CASE ReconnectFails
    <3>1. Permitted(runtimeState, runtimeState')
      BY <1>0, <2>3, <2>4 DEF ReconnectFails, Permitted, RuntimeStates
    <3> QED BY <1>5, <2>3, <2>4, <3>1
  <2>5. CASE ReconnectCompletes
    <3>1. CASE fullState = FALSE
      BY <2>3, <2>5, <3>1 DEF Mode, Running, Permitted
    <3>2. CASE fullState = TRUE
      <4>1. ReconnectedBus(gdiag)["SERVER_INITIALIZATION_FAILED"] = "none"
        BY <1>0, <2>3, <2>5, <3>2, ReconnectFacts
        DEF Consistent, InitializationFaultFollows
      <4>2. ~HasGlobalFault(ReconnectedBus(gdiag))
        BY <1>0, <4>1, ReconnectFacts DEF HasGlobalFault, IsActive, BusCodes
      <4>3. runtimeState' = "normal"
        BY <2>5, <4>2 DEF ReconnectCompletes
      <4>4. Permitted(runtimeState, runtimeState')
        BY <1>0, <2>3, <2>5, <4>3 DEF Permitted, RuntimeStates
      <4> QED BY <1>5, <2>3, <2>5, <4>4
    <3> QED BY <1>0, <3>1, <3>2
  <2>6. ASSUME InitReconnectFails \/ InitReconnectCompletes \/ InitReconnectRaises
        PROVE  /\ Running /\ UNCHANGED loop
               /\ runtimeState = "initialization_error" /\ link = "none"
               /\ Mode = "initialization_error"
    <3>1. loop = "degraded" /\ UNCHANGED loop /\ BusReconnect(TRUE)
      BY <2>6 DEF InitReconnectFails, InitReconnectCompletes, InitReconnectRaises, control
    <3>2. runtimeState = "initialization_error"
      BY <1>0, <3>1 DEF BusReconnect, Admitted, AllowedByRuntimeState, Consistent,
        LoopHasRuntime
    <3>3. link = "none"
      BY <1>0, <3>1, <3>2 DEF Consistent, RuntimeOwnership, Running
    <3> QED BY <3>1, <3>2, <3>3 DEF Mode, Running
  <2>7. CASE InitReconnectFails
    <3>1. link' = "none" /\ runtimeState' = "initialization_error"
      BY <2>7 DEF InitReconnectFails, FailInitialization
    <3> QED BY <2>6, <2>7, <3>1 DEF Mode, Running, Permitted
  <2>8. CASE InitReconnectCompletes
    <3>1. runtimeState' = "normal" /\ fullState' = TRUE
      BY <2>8 DEF InitReconnectCompletes
    <3> QED BY <2>6, <2>8, <3>1 DEF Mode, Running, Permitted
  <2>9. CASE InitReconnectRaises
    <3>1. runtimeState' = "normal" /\ link' = "idle"
      BY <2>9 DEF InitReconnectRaises
    <3> QED BY <2>6, <2>9, <3>1 DEF Mode, Running, Permitted, RuntimeStates
  <2>10. CASE InitReconnectOrphansLoop
    BY <1>3, <2>10 DEF InitReconnectOrphansLoop, ServingRuntime
  <2> QED BY <1>11, <2>1, <2>2, <2>4, <2>5, <2>7, <2>8, <2>9, <2>10
    DEF ServerRequest, FaultResetServer, FaultResetBus
<1>12. CASE AxisRequest
  <2>0. ASSUME NEW A, AxisFaultReset(A)
        PROVE  Permitted(Mode, Mode')
    <3>1. /\ UNCHANGED <<loop, runtimeState, fullState>>
          /\ ExchangeOk \/ ExchangeRaises
      BY <2>0 DEF AxisFaultReset, control, state
    <3>2. link' = "none" <=> link = "none"
      BY <3>1 DEF ExchangeOk, ExchangeRaises
    <3> QED BY <1>1, <3>1, <3>2
  <2>1. ASSUME NEW a \in Axes,
               StopOrDisable(a) \/ Home(a) \/ MotionCommand(a)
                 \/ RestartAxisStopsEarly(a)
        PROVE  Permitted(Mode, Mode')
    <3>1. /\ UNCHANGED <<loop, runtimeState, fullState>>
          /\ ExchangeOk \/ ExchangeRaises \/ link' = link
      BY <2>1 DEF StopOrDisable, Home, MotionCommand, RestartAxisStopsEarly, control,
        state
    <3>2. link' = "none" <=> link = "none"
      BY <3>1 DEF ExchangeOk, ExchangeRaises
    <3> QED BY <1>1, <3>1, <3>2
  <2>2. ASSUME NEW a \in Axes,
               RestartAxisLosesBus(a) \/ RestartAxisTooLate(a) \/ RestartAxisCompletes(a)
        PROVE  Permitted(Mode, Mode')
    <3>1. /\ RestartAxis(a) /\ link' # "none"
          /\ runtimeState' \in {"normal", "fault", "bus_disconnected"}
      BY <2>2 DEF RestartAxisLosesBus, RestartAxisTooLate, RestartAxisCompletes
    <3>2. Running /\ Running' /\ UNCHANGED fullState /\ link # "none"
          /\ runtimeState = "normal"
      BY <1>0, <3>1, RestartAdmission DEF RuntimeStates, Consistent, RuntimeOwnership,
        Running
    <3>3. Permitted(runtimeState, runtimeState')
      BY <3>1, <3>2 DEF Permitted
    <3> QED BY <1>5, <3>1, <3>2, <3>3
  <2> QED BY <1>12, <2>0, <2>1, <2>2 DEF AxisRequest
<1>13. CASE DegradedStateCrashes
  BY <1>3, <1>13 DEF DegradedStateCrashes
<1>14. CASE UNCHANGED vars
  BY <1>1, <1>14 DEF vars
<1> QED BY <1>6, <1>7, <1>8, <1>9, <1>10, <1>11, <1>12, <1>13, <1>14
  DEF Next, LoopStep, Ended

\* The server implements the abstract life cycle.
THEOREM Refinement == Spec => ImplementsLifecycle
<1>1. Init => Lifecycle!Init
  BY DEF Init, Lifecycle!Init, Mode, Faulty, RuntimeStates
<1>2. ASSUME IndInv, IndInv', [Next]_vars
      PROVE  [Lifecycle!Next]_<<Mode, Faulty>>
  BY <1>2, StepIsPermitted, PermittedIsAbstractStep
<1> QED BY <1>1, <1>2, Inductive, PTL DEF Spec, ImplementsLifecycle, Lifecycle!Spec

===============================================================================
