------------------------------- MODULE AxisMotion -------------------------------
(***************************************************************************)
(* The axis commands of the Motion Server and the set points they leave    *)
(* behind.                                                                 *)
(*                                                                         *)
(*   motion_server/handlers/command/  enable, disable, stop, move, jog,    *)
(*                                    home, trajectory, mode, restart      *)
(*   motion_server/control/           holding axes, changing modes, the    *)
(*                                    CSP generator of each axis           *)
(*   motion_server/server.py          one PDO cycle                        *)
(*   motion_server/app/recovery.py    what a recovery does to the axes     *)
(*                                                                         *)
(* A request runs to completion inside the server loop, so one action is   *)
(* one outcome of a whole handler.  Positions and velocities are left out: *)
(* of a generator only whether it follows a timed trajectory matters, of a *)
(* velocity only whether it is zero, of a control word only whether it     *)
(* lets the drive operate, halts it, or starts a homing or jog motion.     *)
(* Requests that a handler refuses without touching anything are not       *)
(* shown.                                                                  *)
(***************************************************************************)
EXTENDS Naturals, FiniteSets

CONSTANTS Axes,             \* the axes of the runtime
          NoAxis,           \* no axis: nothing failed
          InitialMode,      \* motion_config.initial_motion_mode
          Commands,         \* the requests that clients send
          MaySdoFail,       \* an SDO write of the mode may raise
          MaxTrajectories   \* bound on the accepted trajectory requests

MotionModes == {"pp", "pv", "jog", "csp"}

Modes == MotionModes \union {"homing"}

AllCommands == {"enable", "disable", "stop", "trajectory", "trajectory_stop",
                "move_abs", "move_rel", "move_vel", "jog_start", "jog_stop",
                "home", "mode", "fault_reset", "restart", "manualCW"}

ASSUME NoAxisAssumption == NoAxis \notin Axes
ASSUME InitialModeAssumption == InitialMode \in MotionModes
ASSUME CommandsAssumption == Commands \subseteq AllCommands
ASSUME MaySdoFailAssumption == MaySdoFail \in BOOLEAN
ASSUME MaxTrajectoriesAssumption == MaxTrajectories \in Nat

\* What rxpdo.controlword asks of the drive: {"enable"} is 0x000F, {} stands
\* for 0x0000, 0x0006 and 0x0007; "halt" is HALT_BIT; "start" is
\* HOMING_START_BIT or a jog direction.
Words == SUBSET {"enable", "halt", "start"}

\* An axis: state["motion_modes"], rxpdo.mode_of_operation, rxpdo.controlword,
\* whether rxpdo.target_velocity is nonzero, and its CspTrajectoryGenerator:
\* no timed trajectory, following one, or with no sample before its end left.
AxisStates == [mode : Modes, rxMode : Modes, word : Words, moving : BOOLEAN,
               gen : {"idle", "timed", "arrived"}]

\* What txpdo.statusword shows: bit 2, the fault bit and the referenced bit.
DriveStates == [enabled : BOOLEAN, fault : BOOLEAN, referenced : BOOLEAN]

VARIABLES
    ax,           \* per axis: server state, outgoing PDO and generator
    drive,        \* per axis: the incoming PDO
    traj,         \* state["trajectory"]: active and axes
    sequence,     \* state["trajectory_sequence"]
    homing,       \* state["homing"]: active, axes, original modes, seen low
    jogPrevious,  \* state["jog_previous_modes"]; "none" for None
    bus,          \* "down" in run_bus_disconnected_loop
    stopped,      \* history: axes stopped or disabled, no motion asked since
    quiet,        \* history: an axis restart completed, nothing enabled since
    unsure,       \* history: axes whose last mode change failed half-way
    sinceLow      \* history: axes of the running homing seen unreferenced

history == <<stopped, quiet, unsure, sinceLow>>
vars == <<ax, drive, traj, sequence, homing, jogPrevious, bus, stopped, quiet,
          unsure, sinceLow>>

NoTrajectory == [active |-> FALSE, axes |-> {}]
NoHoming == [active |-> FALSE, axes |-> {}, original |-> [a \in Axes |-> "pp"],
             seenLow |-> {}]

TypeOK ==
    /\ ax \in [Axes -> AxisStates]
    /\ drive \in [Axes -> DriveStates]
    /\ traj \in [active : BOOLEAN, axes : SUBSET Axes]
    /\ sequence \in 0 .. MaxTrajectories
    /\ homing \in [active : BOOLEAN, axes : SUBSET Axes,
                   original : [Axes -> Modes], seenLow : SUBSET Axes]
    /\ jogPrevious \in [Axes -> Modes \union {"none"}]
    /\ bus \in {"up", "down"}
    /\ stopped \subseteq Axes
    /\ quiet \in BOOLEAN
    /\ unsure \subseteq Axes
    /\ sinceLow \subseteq Axes

-----------------------------------------------------------------------------
(* What the handlers are made of: functions on the state of the axes *)

\* faulted_axes and operation_enabled_axes, for status words d
FaultedIn(d) == {a \in Axes : d[a].fault}
Faulted == FaultedIn(drive)
Operating(S) == \A a \in S : drive[a].enabled

\* hold_axes: the generators of S are reset to the actual position.
Hold(x, S) ==
    [a \in Axes |-> IF a \in S THEN [x[a] EXCEPT !.gen = "idle"] ELSE x[a]]

\* set_target_positions and sync_trajectory_to_actual_positions: both end the
\* timed trajectory of EVERY axis.
SetTargets(x) == Hold(x, Axes)
SyncTrajectories(x) == Hold(x, Axes)

SetWord(x, S, w) ==
    [a \in Axes |-> IF a \in S THEN [x[a] EXCEPT !.word = w] ELSE x[a]]

\* configure_motion_mode and the assignment of state["motion_modes"] ...
SetModeOf(x, S, m) ==
    [a \in Axes |-> IF a \in S THEN [x[a] EXCEPT !.mode = m, !.rxMode = m]
                               ELSE x[a]]

\* ... and configure_mode_code when its SDO write raises: the outgoing PDO
\* already has the new mode.
SetRxMode(x, a, m) == [x EXCEPT ![a].rxMode = m]

\* hold_faulted_axes
HoldFaulted(x) == IF Faulted = {} THEN x ELSE SetTargets(Hold(x, Faulted))

\* ensure_csp_mode
EnsureCsp(x, S) ==
    LET C == {a \in S : x[a].mode # "csp"}
    IN  IF C = {} THEN x
        ELSE SetTargets(SetWord(SetModeOf(Hold(x, C), C, "csp"), C, {"enable"}))

\* update_commands: one or more exchanges advance the generators of the axes
\* in CSP; those of "done" take their last sample.
Running(x) == {a \in Axes : x[a].gen = "timed" /\ x[a].rxMode = "csp"}
Advance(x, done) ==
    [a \in Axes |-> IF a \in done THEN [x[a] EXCEPT !.gen = "arrived"]
                                  ELSE x[a]]

\* What a handler leaves, its exchanges included.  A handler never reads how
\* far a generator got, so its exchanges are taken at its end.  What the drives
\* answer to an exchange is left to DriveChanges, unless a handler tests the
\* same bit before and after one.
Exchange(x) == \E done \in SUBSET Running(x) : ax' = Advance(x, done)

\* The status words that can follow: a drive operates only if its control word
\* lets it, and a fault stays until it is reset.
Follows(d) ==
    \A a \in Axes :
        /\ d[a].enabled => drive[a].enabled \/ "enable" \in ax[a].word
        /\ drive[a].fault => d[a].fault

\* The referenced bits of the axes being homed, over all status words received
SeenLow(d) ==
    IF homing.active THEN sinceLow \union {a \in homing.axes : ~d[a].referenced}
                     ELSE {}

\* connect: prepare_process_image resets the PDOs, _restore_process_image
\* writes the modes and resets the generators.
Restored(x) ==
    [a \in Axes |-> [x[a] EXCEPT !.rxMode = x[a].mode, !.word = {},
                                 !.moving = FALSE, !.gen = "idle"]]

-----------------------------------------------------------------------------
(* finish_homing *)

\* It clears the start bits, exchanges, and restores the modes in which the axes
\* were homed.  The exchange raises without a bus, a mode change may raise: then
\* the axes "restored" have their mode again and "failed" is half-way.
Restorable == {a \in homing.axes : homing.original[a] \in MotionModes}

Finished == [ok |-> TRUE, restored |-> Restorable, failed |-> NoAxis]

FinishFailures ==
    IF bus = "down"
    THEN {[ok |-> FALSE, restored |-> {}, failed |-> NoAxis]}
    ELSE {f \in [ok : {FALSE}, restored : SUBSET Restorable, failed : Restorable] :
             MaySdoFail /\ f.failed \notin f.restored}

FinishOutcomes ==
    FinishFailures \union (IF bus = "up" THEN {Finished} ELSE {})

\* Mutant: the mode is restored in the state and not in the outgoing PDO.
FinishHomingInStateOnly(x, f) ==
    [a \in Axes |->
        IF a \in f.restored THEN [x[a] EXCEPT !.word = @ \ {"start"},
                                              !.mode = homing.original[a]]
        ELSE IF a \in homing.axes THEN [x[a] EXCEPT !.word = @ \ {"start"}]
        ELSE x[a]]

FinishHoming(x, f) ==
    [a \in Axes |->
        LET y == IF a \in homing.axes THEN [x[a] EXCEPT !.word = @ \ {"start"}]
                                      ELSE x[a]
        IN  IF a \in f.restored
            THEN [y EXCEPT !.mode = homing.original[a], !.rxMode = homing.original[a]]
            ELSE IF a = f.failed THEN [y EXCEPT !.rxMode = homing.original[a]]
            ELSE y]

\* What is left of the record, and of the axes with an uncertain mode.
HomingAfter(f) == IF f.ok THEN NoHoming ELSE homing
UnsureAfter(f) == (unsure \ f.restored) \union ({f.failed} \intersect Axes)

-----------------------------------------------------------------------------
Init ==
    /\ ax = [a \in Axes |-> [mode |-> InitialMode, rxMode |-> InitialMode,
                             word |-> {"enable"}, moving |-> FALSE,
                             gen |-> "idle"]]
    /\ drive \in [Axes -> DriveStates]
    /\ traj = NoTrajectory
    /\ sequence = 0
    /\ homing = NoHoming
    /\ jogPrevious = [a \in Axes |-> "none"]
    /\ bus = "up"
    /\ stopped = {}
    /\ quiet = FALSE
    /\ unsure = {}
    /\ sinceLow = {}

\* A request of the name c reaches its handler while the bus is connected.
Request(c) == c \in Commands /\ bus = "up"

\* The requests that are admitted without a bus, too.
SafetyRequest(c) == c \in Commands

-----------------------------------------------------------------------------
(* axis_state.py *)

Enable(S) ==
    /\ Request("enable")
    /\ Exchange(SetWord(ax, S, {"enable"}))
    /\ quiet' = FALSE
    /\ UNCHANGED <<drive, traj, sequence, homing, jogPrevious, bus, stopped,
                   unsure, sinceLow>>

\* disable ends a trajectory or a homing of its axes, holds them and switches
\* them off.
Disabled(x, S) == SetTargets(SetWord(Hold(x, S), S, {}))

\* Mutant: disable leaves the trajectory of its axes active.
KeepTrajectoryOf(S) == traj

EndTrajectoryOf(S) ==
    IF traj.active /\ S \intersect traj.axes # {} THEN NoTrajectory ELSE traj

Disable(S) ==
    /\ SafetyRequest("disable")
    /\ ~(homing.active /\ homing.axes \intersect S # {})
    /\ traj' = EndTrajectoryOf(S)
    /\ ax' = Disabled(ax, S)
    /\ stopped' = stopped \union S
    /\ UNCHANGED <<drive, sequence, homing, jogPrevious, bus, quiet, unsure,
                   sinceLow>>

DisableHoming(S) ==
    /\ SafetyRequest("disable")
    /\ homing.active /\ homing.axes \intersect S # {}
    /\ traj' = EndTrajectoryOf(S)
    /\ \E f \in FinishOutcomes :
          /\ homing' = HomingAfter(f)
          /\ unsure' = UnsureAfter(f)
          /\ IF f.ok
             THEN /\ ax' = Disabled(FinishHoming(ax, f), S)
                  /\ stopped' = stopped \union S
             ELSE Exchange(FinishHoming(ax, f)) /\ UNCHANGED stopped
    /\ sinceLow' = IF homing'.active THEN sinceLow ELSE {}
    /\ UNCHANGED <<drive, sequence, jogPrevious, bus, quiet>>

\* The last part of stop_axes, for the axes P that still operate.  Nothing is
\* done about an axis in homing mode.
Halted(x, P) ==
    [a \in Axes |->
        IF a \notin P \/ x[a].mode = "homing" THEN x[a]
        ELSE IF x[a].mode \in {"pp", "csp"}
        THEN [x[a] EXCEPT !.word = @ \union {"halt"}]
        ELSE IF x[a].mode = "pv"
        THEN [x[a] EXCEPT !.word = {"enable"}, !.moving = FALSE, !.rxMode = "pv"]
        ELSE [x[a] EXCEPT !.word = {"enable"}]]

Stopped(x, S) == SyncTrajectories(SetTargets(Hold(x, S)))

\* stop_axes, when it had a homing to finish and could not: nothing else is done.
StopFailsFinishing(S) ==
    /\ SafetyRequest("stop")
    /\ Operating(S)
    /\ homing.active
    /\ \E f \in FinishFailures :
          /\ Exchange(FinishHoming(ax, f))
          /\ unsure' = UnsureAfter(f)
    /\ UNCHANGED <<drive, traj, sequence, homing, jogPrevious, bus, stopped,
                   quiet, sinceLow>>

\* stop_axes otherwise.  The axes that still operate are read after the
\* exchange of finish_homing.  For an axis in PV command_profile_velocities
\* refuses while ANY drive shows a fault, and its exchange raises without a
\* bus; what was done to the axes P before it stays done.
Stop(S) ==
    /\ SafetyRequest("stop")
    /\ Operating(S)
    /\ homing.active => bus = "up"
    /\ \E d \in IF homing.active THEN [Axes -> DriveStates] ELSE {drive} :
        LET x  == IF homing.active THEN FinishHoming(ax, Finished) ELSE ax
            y  == Stopped(x, S)
            on == {a \in S : d[a].enabled}
            pv == {a \in on : x[a].mode = "pv"}
        IN  /\ Follows(d)
            /\ drive' = d
            /\ \/ /\ pv = {} \/ (FaultedIn(d) = {} /\ bus = "up")
                  /\ ax' = Halted(y, on)
                  /\ stopped' = stopped \union S
               \/ /\ pv # {} /\ FaultedIn(d) # {}
                  /\ \E P \in SUBSET (on \ pv) : ax' = Halted(y, P)
                  /\ UNCHANGED stopped
               \/ /\ pv # {} /\ FaultedIn(d) = {} /\ bus = "down"
                  /\ \E P \in SUBSET (on \ pv), p \in pv :
                        ax' = Halted(y, P \union {p})
                  /\ UNCHANGED stopped
    /\ traj' = NoTrajectory
    /\ homing' = IF homing.active THEN HomingAfter(Finished) ELSE homing
    /\ unsure' = IF homing.active THEN UnsureAfter(Finished) ELSE unsure
    /\ sinceLow' = {}
    /\ UNCHANGED <<sequence, jogPrevious, bus, quiet>>

\* reset_faults switches its axes off without holding them; their faults may go.
FaultReset(S) ==
    /\ Request("fault_reset")
    /\ Exchange(SetWord(ax, S, {}))
    /\ \E C \in SUBSET S :
          drive' = [a \in Axes |-> IF a \in C THEN [drive[a] EXCEPT !.fault = FALSE]
                                              ELSE drive[a]]
    /\ UNCHANGED <<traj, sequence, homing, jogPrevious, bus, history>>

\* set_controlword: a word that does not let the axes operate holds them.
SetControlword(S, w) ==
    /\ Request("manualCW")
    /\ LET x == SetWord(ax, S, w)
       IN  ax' = IF "enable" \in w THEN x ELSE SetTargets(Hold(x, S))
    /\ quiet' = FALSE
    /\ UNCHANGED <<drive, traj, sequence, homing, jogPrevious, bus, stopped,
                   unsure, sinceLow>>

\* restart_axis: homing and trajectory end, every axis is held and switched off
\* ...
SwitchedOff(x) ==
    SetWord(SyncTrajectories(SetTargets(Hold(x, Axes))), Axes, {})

\* ... it gives up when the homing cannot be finished, ...
RestartFailsFinishing ==
    /\ Request("restart")
    /\ homing.active
    /\ \E f \in FinishFailures :
          /\ Exchange(FinishHoming(ax, f))
          /\ unsure' = UnsureAfter(f)
    /\ UNCHANGED <<drive, traj, sequence, homing, jogPrevious, bus, stopped,
                   quiet, sinceLow>>

\* ... when an axis keeps operating or the restart command fails ("failed"), or
\* when the bus does not come back ("down"); it may come back too late ("late"),
\* which fails the request only.
BusBack == {"completed", "late"}

Restart(outcome) ==
    /\ Request("restart")
    /\ LET x == SwitchedOff(IF homing.active THEN FinishHoming(ax, Finished) ELSE ax)
       IN  ax' = IF outcome \in BusBack THEN Restored(x) ELSE x
    /\ homing' = IF homing.active THEN HomingAfter(Finished) ELSE homing
    /\ unsure' = IF outcome \in BusBack THEN {}
                 ELSE IF homing.active THEN UnsureAfter(Finished) ELSE unsure
    /\ traj' = IF traj.active THEN NoTrajectory ELSE traj
    /\ stopped' = Axes
    /\ quiet' = (outcome \in BusBack)
    /\ bus' = IF outcome = "down" THEN "down" ELSE "up"
    /\ IF outcome \in BusBack
       THEN /\ drive' \in [Axes -> DriveStates]
            /\ \A a \in Axes : ~drive'[a].enabled
       ELSE UNCHANGED drive
    /\ sinceLow' = {}
    /\ UNCHANGED <<sequence, jogPrevious>>

-----------------------------------------------------------------------------
(* trajectory.py *)

\* reject_trajectory for its points or axes, for a disabled axis, and stop with
\* an unknown mode or a disabled axis: only the record changes.
TrajectoryRefused ==
    /\ Request("trajectory") \/ Request("trajectory_stop")
    /\ traj' = NoTrajectory
    /\ UNCHANGED <<ax, drive, sequence, homing, jogPrevious, bus, history>>

\* reject_trajectory because some drive shows a fault
TrajectoryRefusedByFault ==
    /\ Request("trajectory")
    /\ Faulted # {}
    /\ ax' = SyncTrajectories(HoldFaulted(ax))
    /\ traj' = NoTrajectory
    /\ UNCHANGED <<drive, sequence, homing, jogPrevious, bus, history>>

\* After ensure_csp_mode the request may repeat the target of the active
\* trajectory, which changes nothing, ...
TrajectoryRepeated(S) ==
    /\ Request("trajectory")
    /\ Faulted = {} /\ Operating(S)
    /\ traj.active /\ traj.axes = S
    /\ ax' = EnsureCsp(ax, S)
    /\ unsure' = unsure \ {a \in S : ax[a].mode # "csp"}
    /\ UNCHANGED <<drive, traj, sequence, homing, jogPrevious, bus, stopped,
                   quiet, sinceLow>>

\* ... exceed a motion limit (fault_trajectory) ...
TrajectoryFault(S) ==
    /\ Request("trajectory")
    /\ Faulted = {} /\ Operating(S)
    /\ ax' = EnsureCsp(ax, S)
    /\ unsure' = unsure \ {a \in S : ax[a].mode # "csp"}
    /\ traj' = NoTrajectory
    /\ UNCHANGED <<drive, sequence, homing, jogPrevious, bus, stopped, quiet,
                   sinceLow>>

\* ... or start.
TrajectoryMove(S) ==
    /\ Request("trajectory")
    /\ sequence < MaxTrajectories
    /\ Faulted = {} /\ Operating(S)
    /\ LET x == EnsureCsp(ax, S)
       IN  ax' = [a \in Axes |->
                    IF a \in S THEN [x[a] EXCEPT !.gen = "timed", !.rxMode = "csp",
                                                 !.word = {"enable"}]
                               ELSE x[a]]
    /\ traj' = [active |-> TRUE, axes |-> S]
    /\ sequence' = sequence + 1
    /\ stopped' = stopped \ S
    /\ unsure' = unsure \ S
    /\ UNCHANGED <<drive, homing, jogPrevious, bus, quiet, sinceLow>>

TrajectoryStop(S) ==
    /\ Request("trajectory_stop")
    /\ Operating(S)
    /\ ax' = LET x == SyncTrajectories(SetTargets(EnsureCsp(ax, S)))
             IN  SetTargets([a \in Axes |->
                    IF a \in S THEN [x[a] EXCEPT !.rxMode = "csp", !.word = {"enable"}]
                               ELSE x[a]])
    /\ traj' = NoTrajectory
    /\ stopped' = stopped \union S
    /\ unsure' = unsure \ S
    /\ UNCHANGED <<drive, sequence, homing, jogPrevious, bus, quiet, sinceLow>>

-----------------------------------------------------------------------------
(* motion.py and jog.py *)

\* command_position_axes and command_profile_velocities refuse any axis while
\* some drive shows a fault.
MoveRefusedByFault ==
    /\ \/ Request("move_abs") /\ \E a \in Axes : drive[a].referenced
       \/ Request("move_rel")
       \/ Request("move_vel")
    /\ Faulted # {}
    /\ ax' = SyncTrajectories(HoldFaulted(ax))
    /\ UNCHANGED <<drive, traj, sequence, homing, jogPrevious, bus, history>>

\* move_absolute needs referenced axes, move_relative does not.
MoveAdmitted(S) ==
    /\ \/ Request("move_abs") /\ \A a \in S : drive[a].referenced
       \/ Request("move_rel")
    /\ Faulted = {} /\ Operating(S)

\* command_csp_positions gives every axis its target anew, so it ends the timed
\* trajectory of the axes it does not move; axes in PV, jog or homing mode are
\* passed over.
Move(S) ==
    /\ MoveAdmitted(S)
    /\ LET pp  == {a \in S : ax[a].mode = "pp"}
           csp == {a \in S : ax[a].mode = "csp"}
           x   == [a \in Axes |-> IF a \in pp \union csp
                                  THEN [ax[a] EXCEPT !.rxMode = ax[a].mode,
                                                     !.word = {"enable"}]
                                  ELSE ax[a]]
       IN  Exchange(IF csp = {} THEN x ELSE SetTargets(x))
    /\ stopped' = stopped \ S
    /\ UNCHANGED <<drive, traj, sequence, homing, jogPrevious, bus, quiet,
                   unsure, sinceLow>>

\* The PP set-point handshake does not complete: the axes are held.
MoveFails(S) ==
    /\ MoveAdmitted(S)
    /\ \E a \in S : ax[a].mode = "pp"
    /\ LET pp == {a \in S : ax[a].mode = "pp"}
           x  == [a \in Axes |-> IF a \in pp
                                 THEN [ax[a] EXCEPT !.rxMode = "pp",
                                                    !.word = {"enable"}]
                                 ELSE ax[a]]
       IN  Exchange(SetTargets(Hold(x, S)))
    /\ stopped' = stopped \ S
    /\ UNCHANGED <<drive, traj, sequence, homing, jogPrevious, bus, quiet,
                   unsure, sinceLow>>

\* command_profile_velocities for the axes S, of which M shall move
InVelocityMode(x, S, M) ==
    LET C == {a \in S : x[a].mode # "pv"}
        y == SetWord(SetModeOf(Hold(x, C), S, "pv"), S, {"enable"})
    IN  [a \in Axes |-> IF a \in S THEN [y[a] EXCEPT !.moving = (a \in M)] ELSE y[a]]

MoveVelocity(S, M) ==
    /\ Request("move_vel")
    /\ Faulted = {} /\ Operating(S)
    /\ Exchange(InVelocityMode(ax, S, M))
    /\ stopped' = stopped \ S
    /\ unsure' = unsure \ S
    /\ UNCHANGED <<drive, traj, sequence, homing, jogPrevious, bus, quiet,
                   sinceLow>>

\* The mode of axis b cannot be written; the axes D before it already move, and
\* the velocity and the mode of b are already in the outgoing PDO.
MoveVelocityFails(S, M) ==
    /\ Request("move_vel") /\ MaySdoFail
    /\ Faulted = {} /\ Operating(S)
    /\ \E D \in SUBSET S : \E b \in {c \in S \ D : ax[c].mode # "pv"} :
          LET x == InVelocityMode(ax, D, M)
          IN  /\ Exchange(SetRxMode([Hold(x, {b}) EXCEPT ![b].moving = (b \in M)],
                                    b, "pv"))
              /\ unsure' = (unsure \ D) \union {b}
    /\ stopped' = stopped \ S
    /\ UNCHANGED <<drive, traj, sequence, homing, jogPrevious, bus, quiet,
                   sinceLow>>

StartJog(a) ==
    /\ Request("jog_start")
    /\ Operating({a})
    /\ LET x == IF ax[a].mode # "jog" THEN SetModeOf(Hold(ax, {a}), {a}, "jog")
                                      ELSE SetRxMode(ax, a, "jog")
       IN  Exchange(SetWord(x, {a}, {"enable", "start"}))
    /\ jogPrevious' = IF ax[a].mode # "jog"
                      THEN [jogPrevious EXCEPT ![a] = ax[a].mode] ELSE jogPrevious
    /\ stopped' = stopped \ {a}
    /\ unsure' = unsure \ {a}
    /\ UNCHANGED <<drive, traj, sequence, homing, bus, quiet, sinceLow>>

StartJogFails(a) ==
    /\ Request("jog_start") /\ MaySdoFail
    /\ Operating({a})
    /\ ax[a].mode # "jog"
    /\ Exchange(SetRxMode(Hold(ax, {a}), a, "jog"))
    /\ jogPrevious' = [jogPrevious EXCEPT ![a] = ax[a].mode]
    /\ unsure' = unsure \union {a}
    /\ UNCHANGED <<drive, traj, sequence, homing, bus, stopped, quiet, sinceLow>>

\* stop_jog goes back to the mode in which start_jog found the axis, or to PP.
JogReturnMode(a) == IF jogPrevious[a] = "none" THEN "pp" ELSE jogPrevious[a]

\* Mutant: 0x000F for a disabled axis, too.
JogStopAlwaysEnables(a) == {"enable"}

JogStopWord(a) == IF drive[a].enabled THEN {"enable"} ELSE {}

StopJog(a, fails) ==
    /\ Request("jog_stop")
    /\ fails => MaySdoFail
    /\ LET x == Hold(SetWord(ax, {a}, JogStopWord(a)), {a})
       IN  Exchange(IF fails THEN SetRxMode(x, a, JogReturnMode(a))
                             ELSE SetModeOf(x, {a}, JogReturnMode(a)))
    /\ jogPrevious' = [jogPrevious EXCEPT ![a] = "none"]
    /\ unsure' = IF fails THEN unsure \union {a} ELSE unsure \ {a}
    /\ UNCHANGED <<drive, traj, sequence, homing, bus, stopped, quiet, sinceLow>>

\* Mutant: a failed change of mode stays in the outgoing PDO.
ModesSetNotTakenBack(x, S, m, F) ==
    [a \in Axes |-> IF a \notin S THEN x[a]
                    ELSE IF a \in F THEN [x[a] EXCEPT !.rxMode = m]
                    ELSE [x[a] EXCEPT !.mode = m, !.rxMode = m]]

\* set_mode tries every axis of S; where the change fails (F) it is taken back.
ModesSet(x, S, m, F) ==
    [a \in Axes |-> IF a \notin S THEN x[a]
                    ELSE IF a \in F THEN [x[a] EXCEPT !.rxMode = x[a].mode]
                    ELSE [x[a] EXCEPT !.mode = m, !.rxMode = m]]

SetMode(S, m, F) ==
    /\ Request("mode")
    /\ F # {} => MaySdoFail
    /\ m \in MotionModes /\ \E a \in S : ax[a].mode # m
    /\ Exchange(ModesSet(SetTargets(Hold(ax, S)), S, m, F))
    /\ unsure' = unsure \ S
    /\ UNCHANGED <<drive, traj, sequence, homing, jogPrevious, bus, stopped,
                   quiet, sinceLow>>

-----------------------------------------------------------------------------
(* homing.py *)

\* A request that is refused, for an axis that does not exist or does not operate,
\* overwrites the record of a homing that runs.
HomeRefused ==
    /\ Request("home")
    /\ homing' = NoHoming
    /\ sinceLow' = {}
    /\ UNCHANGED <<ax, drive, traj, sequence, jogPrevious, bus, stopped, quiet,
                   unsure>>

\* Mutant: the reference of an earlier homing counts.
HomingStartedSeen(S) ==
    [active |-> TRUE, axes |-> S, seenLow |-> S,
     original |-> [a \in Axes |-> IF a \in S THEN ax[a].mode ELSE "pp"]]

\* start_homing notes the referenced bits before it sets the start bits.
HomingStarted(S) ==
    [active |-> TRUE, axes |-> S, seenLow |-> {a \in S : ~drive[a].referenced},
     original |-> [a \in Axes |-> IF a \in S THEN ax[a].mode ELSE "pp"]]

StartHoming(S) ==
    /\ Request("home")
    /\ Operating(S)
    /\ LET x == SetModeOf(ax, S, "homing")
       IN  Exchange([a \in Axes |->
                        IF a \in S THEN [x[a] EXCEPT !.word = @ \union {"start"}]
                                   ELSE x[a]])
    /\ homing' = HomingStarted(S)
    /\ sinceLow' = {a \in S : ~drive[a].referenced}
    /\ stopped' = stopped \ S
    /\ unsure' = unsure \ S
    /\ UNCHANGED <<drive, traj, sequence, jogPrevious, bus, quiet>>

\* The mode of axis b cannot be written; the axes D before it stay in homing mode.
StartHomingFails(S) ==
    /\ Request("home") /\ MaySdoFail
    /\ Operating(S)
    /\ \E D \in SUBSET S : \E b \in S \ D :
          /\ Exchange(SetRxMode(SetModeOf(ax, D, "homing"), b, "homing"))
          /\ unsure' = (unsure \ D) \union {b}
    /\ UNCHANGED <<drive, traj, sequence, homing, jogPrevious, bus, stopped,
                   quiet, sinceLow>>

\* update_homing_state: all axes are referenced, each after it was seen
\* unreferenced.
HomingSeenLow ==
    homing.seenLow \union {a \in homing.axes : ~drive[a].referenced}

HomingReady == \A a \in homing.axes : drive[a].referenced /\ a \in HomingSeenLow

-----------------------------------------------------------------------------
(* The PDO cycle and recovery *)

\* Mutant: an axis whose trajectory was cancelled is waited for.
MustCompleteOnArrival(x) ==
    traj.active /\ \A a \in traj.axes : x[a].gen = "arrived"

\* update_active: the trajectory is over when none of its generators is active,
\* or when the clock of one has reached its duration (a last sample within half a
\* cycle of the end leaves the clock short of it).  complete_trajectory then puts
\* every axis at its final position, wherever it was.
MustComplete(x) ==
    traj.active /\ \A a \in traj.axes : x[a].gen # "timed"
MayComplete(x) ==
    MustComplete(x) \/ (traj.active /\ \E a \in traj.axes : x[a].gen = "arrived")

\* One pass of run_server_loop without requests: hold_faulted_axes,
\* update_active, exchange, update_homing_state.  The monitor waits a while
\* before it believes in a completed homing, and an error bit ends any homing.
\* A finish_homing that raises here ends the server: module ServerRuntime.
Cycle(done, completes, homed) ==
    LET x == HoldFaulted(ax)
        y == IF completes THEN Hold(x, traj.axes) ELSE x
        z == Advance(y, done)
    IN  /\ bus = "up"
        /\ completes => MayComplete(x)
        /\ MustComplete(x) => completes
        /\ done \subseteq Running(y)
        /\ traj' = IF completes THEN NoTrajectory ELSE traj
        /\ \/ /\ homed = "no"
              /\ ax' = z
              /\ homing' = IF homing.active
                           THEN [homing EXCEPT !.seenLow = HomingSeenLow]
                           ELSE homing
              /\ UNCHANGED unsure
           \/ /\ homing.active
              /\ (homed = "complete" /\ HomingReady) \/ homed = "error"
              /\ ax' = FinishHoming(z, Finished)
              /\ homing' = HomingAfter(Finished)
              /\ unsure' = UnsureAfter(Finished)
        /\ sinceLow' = IF homing'.active THEN sinceLow ELSE {}
        /\ UNCHANGED <<drive, sequence, jogPrevious, bus, stopped, quiet>>

\* The exchange or the monitor raises: mark_bus_disconnected closes the master
\* and nothing else.
BusLost ==
    /\ bus = "up"
    /\ bus' = "down"
    /\ UNCHANGED <<ax, drive, traj, sequence, homing, jogPrevious, history>>

\* reconnect_runtime, from run_bus_disconnected_loop or with a global fault; the
\* records of trajectory and homing are kept.
BusReconnect ==
    /\ bus' = "up"
    /\ ax' = Restored(ax)
    /\ drive' \in [Axes -> DriveStates]
    /\ \A a \in Axes : ~drive'[a].enabled
    /\ sinceLow' = SeenLow(drive')
    /\ unsure' = {}
    /\ UNCHANGED <<traj, sequence, homing, jogPrevious, stopped, quiet>>

\* An exchange, of a cycle or of a handler, brings a new status word of axis a;
\* nothing reads a status word between two of these.
DriveChanges(a, w) ==
    LET d == [drive EXCEPT ![a] = w]
    IN  /\ bus = "up"
        /\ Follows(d)
        /\ drive' = d
        /\ sinceLow' = SeenLow(d)
        /\ UNCHANGED <<ax, traj, sequence, homing, jogPrevious, bus, stopped,
                       quiet, unsure>>

-----------------------------------------------------------------------------
Selections == (SUBSET Axes) \ {{}}

\* The requests for a mode or a control word name one axis or none.
OneOrAll == {S \in Selections : Cardinality(S) = 1 \/ S = Axes}

CycleStep == \E done \in SUBSET Axes, completes \in BOOLEAN,
                homed \in {"no", "complete", "error"} : Cycle(done, completes, homed)

\* A cycle in which every trajectory that runs takes its last sample.
LastSamples ==
    \E completes \in BOOLEAN, homed \in {"no", "complete", "error"} :
        LET x == HoldFaulted(ax)
        IN  Cycle(Running(IF completes THEN Hold(x, traj.axes) ELSE x),
                  completes, homed)

Next ==
    \/ \E S \in Selections :
          \/ Enable(S)
          \/ Disable(S)
          \/ DisableHoming(S)
          \/ Stop(S)
          \/ StopFailsFinishing(S)
          \/ FaultReset(S)
          \/ TrajectoryRepeated(S)
          \/ TrajectoryFault(S)
          \/ TrajectoryMove(S)
          \/ TrajectoryStop(S)
          \/ Move(S)
          \/ MoveFails(S)
          \/ StartHoming(S)
          \/ StartHomingFails(S)
          \/ \E M \in SUBSET S : MoveVelocity(S, M) \/ MoveVelocityFails(S, M)
    \/ \E a \in Axes :
          \/ \E d \in DriveStates : DriveChanges(a, d)
          \/ StartJog(a)
          \/ StartJogFails(a)
          \/ \E fails \in BOOLEAN : StopJog(a, fails)
    \/ \E S \in OneOrAll :
          \/ \E w \in Words : SetControlword(S, w)
          \/ \E m \in MotionModes, F \in SUBSET S : SetMode(S, m, F)
    \/ HomeRefused
    \/ \E outcome \in {"failed", "down"} \union BusBack : Restart(outcome)
    \/ RestartFailsFinishing
    \/ TrajectoryRefused
    \/ TrajectoryRefusedByFault
    \/ MoveRefusedByFault
    \/ CycleStep
    \/ BusLost
    \/ BusReconnect

Spec == Init /\ [][Next]_vars

\* The server loop never stops cycling, and each exchange advances a trajectory
\* by one cycle time, so its last sample comes.
FairSpec == Spec /\ WF_vars(LastSamples)

-----------------------------------------------------------------------------
(* Properties *)

\* The mode the server believes an axis is in (state["motion_modes"]) is the one
\* it sends to the drive (rxpdo.mode_of_operation), whatever sequence of mode
\* changes, jogs, homings, trajectories and recoveries led there; only a mode
\* change whose SDO write raised may leave the two apart.
ModesAgree == \A a \in Axes \ unsure : ax[a].mode = ax[a].rxMode

\* The records of the state dictionary have their shape (a mode that jog_stop
\* goes back to is a mode) and the modes agree.
Consistent == TypeOK /\ ModesAgree

\* An axis that was stopped or disabled follows no timed trajectory and is not
\* part of an active one until a new motion is asked of it: no other axis, late
\* cycle, completed trajectory, mode change or reconnect sets it going again.
StoppedStays ==
    \A a \in stopped : /\ ax[a].gen # "timed"
                       /\ ~(traj.active /\ a \in traj.axes)

\* After a completed axis restart no axis is enabled and no motion, trajectory
\* or homing is resumed until a client enables an axis (docs/decisions.md,
\* DEC-029): no handler admitted in between switches an axis on.
QuietAfterRestart ==
    quiet => /\ ~traj.active /\ ~homing.active
             /\ \A a \in Axes : /\ ax[a].word = {} /\ ~ax[a].moving
                                /\ ax[a].gen # "timed"
                                /\ ~drive[a].enabled

\* Nothing that was ended goes on by itself, after a stop or after a restart.
NothingResumes == StoppedStays /\ QuietAfterRestart

\* A homing is reported complete only when the drive showed the axis
\* unreferenced since that homing began, so a reference from an earlier homing
\* is never taken for a new one.
CompletionIsFresh == homing.active /\ HomingReady => homing.axes \subseteq sinceLow

\* An active trajectory ends, unless the bus is lost: whatever takes single axes
\* out of a trajectory, update_active notices.  (A homing does not take its axes
\* out but keeps their generators from being sampled, so this is checked
\* without requests for a homing.)
TrajectoryEnds == traj.active ~> (~traj.active \/ bus = "down")
=============================================================================
