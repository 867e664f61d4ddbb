----------------------------- MODULE ServoDrive -----------------------------
(***************************************************************************)
(* One virtual CiA 402 servo drive (device/virtual_servo_drive) behind the *)
(* mock master, driven by the request handlers of the motion server.  The  *)
(* server and the drive meet only in exchange(): the RxPDO image is copied *)
(* into the object dictionary, the drive runs one cycle, the TxPDO image   *)
(* is read back.  A handler is one action, with all the exchanges it makes *)
(* (nothing else runs meanwhile); between handlers the server loop         *)
(* exchanges on its own.                                                   *)
(*                                                                         *)
(* Positions are small integers; one velocity step is Acceleration per     *)
(* cycle and the position window is zero.  The target-reached bit, which   *)
(* the drive only reports, is left out.                                    *)
(***************************************************************************)
EXTENDS Integers, Sequences

CONSTANTS
  Targets,          \* positions a client may command
  Velocities,       \* velocities a client may command
  LimitPairs,       \* software position limits a client may write
  MaxPosition,      \* bound: positions are -MaxPosition..MaxPosition
  MaxVelocity, Acceleration,
  HomingCycles,     \* cycles of a homing run
  HandshakeCycles,  \* PP_HANDSHAKE_MAX_CYCLES
  MaxRequests       \* bound: requests served

ASSUME SizesAssumption ==
  /\ MaxPosition \in Nat /\ MaxVelocity \in Nat \ {0} /\ Acceleration \in Nat \ {0}
  /\ HomingCycles \in Nat \ {0} /\ HandshakeCycles \in Nat \ {0}
  /\ MaxRequests \in Nat
  /\ Targets \subseteq (-MaxPosition)..MaxPosition /\ Velocities \subseteq Int
  /\ \A l \in LimitPairs : l.low \in Int /\ l.high \in Int /\ l.low <= l.high

VARIABLES
  rx,      \* the RxPDO image of the server: word, mode, target, velocity
  drive,   \* the object dictionary and the state of VirtualCiA402Servo
  homing,  \* state["homing"]
  answer,  \* what a position command or a fault reset has just answered
  served   \* requests served so far

vars == <<rx, drive, homing, answer, served>>

Modes == {"pp", "pv", "jog", "csp", "homing"}
Positions == (-MaxPosition)..MaxPosition

\* A control word: the command bits 0..3, fault reset (7), bits 4 and 5, halt.
Word(op) == [op |-> op, reset |-> FALSE, b4 |-> FALSE, b5 |-> FALSE,
             halt |-> FALSE]
Words == [op : {0, 6, 7, 15}, reset : BOOLEAN, b4 : BOOLEAN, b5 : BOOLEAN,
          halt : BOOLEAN]
Base == Word(15)
NewSetpoint == [Base EXCEPT !.b4 = TRUE, !.b5 = TRUE]

Times(n, w) == [i \in 1..n |-> w]
-----------------------------------------------------------------------------
(* CiA402StateMachine.process                                              *)

StateAfter(s, w) ==
  CASE w.reset -> IF s = "fault" THEN "off" ELSE s
    [] ~w.reset /\ w.op = 0 -> "off"
    [] ~w.reset /\ w.op = 6 /\ s \in {"off", "on", "enabled"} -> "ready"
    [] ~w.reset /\ w.op = 7 /\ s \in {"ready", "enabled"} -> "on"
    [] ~w.reset /\ w.op = 15 /\ s = "on" -> "enabled"
    [] OTHER -> s

Enabled(d) == d.sm = "enabled"
-----------------------------------------------------------------------------
(* Helpers of VirtualCiA402Servo                                           *)

Within(p, l) == l.low <= p /\ p <= l.high
Abs(n) == IF n < 0 THEN -n ELSE n
Clip(n, b) == IF n > b THEN b ELSE IF n < -b THEN -b ELSE n

\* Bound: the axis ends at the end of the modelled range.
Placed(p) == Clip(p, MaxPosition)

MoveTowards(v, goal) ==
  IF Abs(goal - v) <= Acceleration THEN goal
  ELSE v + (IF goal > v THEN Acceleration ELSE -Acceleration)

\* One cycle at a velocity on the way to the desired one.
Travel(d, desired) ==
  LET v == MoveTowards(d.vel, desired)
  IN [d EXCEPT !.vel = v, !.pos = Placed(d.pos + v)]

Decelerated(d) == Travel(d, 0)

StoppedAtPosition(d) ==
  [d EXCEPT !.vel = 0, !.ppActive = FALSE, !.ppTarget = d.pos,
            !.target = d.pos, !.lastTarget = d.pos]

LimitActive(d) == d.warning \/ ~Within(d.pos, d.limits)
-----------------------------------------------------------------------------
(* _apply_od_commands: what has changed in the object dictionary           *)

ModeSet(d, m) ==
  IF m = d.lastMode THEN d
  ELSE [StoppedAtPosition(d) EXCEPT
          !.lastMode = m,
          !.homingActive = IF m = "homing" THEN @ ELSE FALSE]

\* Mutant: the software limits are not looked at.
TargetSetUnchecked(d, p) ==
  IF p = d.lastTarget THEN d
  ELSE IF d.mode \in {"pp", "csp"} /\ ~d.referenced
    THEN [d EXCEPT !.target = d.lastTarget]
  ELSE [d EXCEPT !.rejected = FALSE, !.target = p, !.lastTarget = p,
                 !.checked = d.limits]

TargetSet(d, p) ==
  IF p = d.lastTarget THEN d
  ELSE IF d.mode \in {"pp", "csp"} /\ ~d.referenced
    THEN [d EXCEPT !.target = d.lastTarget]
  ELSE IF ~Within(p, d.limits)
    THEN [StoppedAtPosition(d) EXCEPT !.warning = TRUE, !.rejected = TRUE]
  ELSE [d EXCEPT !.rejected = FALSE,
                 !.warning = IF Within(d.pos, d.limits) THEN FALSE ELSE @,
                 !.target = p, !.lastTarget = p,
                 !.checked = d.limits]

\* The reset command takes effect on its change to one: PDO objects go back to
\* their defaults, the target to the actual position.
DeviceReset(d) ==
  IF d.resetCommand /\ ~d.lastReset
  THEN [d EXCEPT !.word = Word(0), !.mode = "pp", !.lastMode = "pp",
                 !.target = d.pos, !.lastTarget = d.pos, !.velocity = 0,
                 !.lastReset = TRUE]
  ELSE [d EXCEPT !.lastReset = d.resetCommand]

TargetAndModeSet(d) == TargetSet(ModeSet(d, d.mode), d.target)

Commanded(d) == TargetAndModeSet(DeviceReset(d))
-----------------------------------------------------------------------------
(* process_cycle and the five modes                                        *)

Edge(d) == d.word.b4 /\ ~d.previous.b4

\* On the way to ppTarget; the target is not run over.
Approach(d) ==
  LET distance == Abs(d.ppTarget - d.pos)
      sign == IF d.ppTarget >= d.pos THEN 1 ELSE -1
      toward == sign * d.vel
      braking == toward < 0 \/ 2 * Acceleration * distance <= toward * toward
      moved == Travel(d, IF braking THEN 0 ELSE sign * MaxVelocity)
      arrives == (d.ppTarget - d.pos) * (d.ppTarget - moved.pos) <= 0
  IN IF arrives \/ (distance = 0 /\ Abs(d.vel) <= Acceleration)
     THEN [d EXCEPT !.pos = d.ppTarget, !.vel = 0, !.ppActive = FALSE]
     ELSE moved

Pursued(d) == IF d.ppActive THEN Approach(d) ELSE Decelerated(d)

ProfilePosition(d) ==
  IF d.word.halt \/ ~d.referenced \/ (Edge(d) /\ d.rejected)
    THEN Decelerated([d EXCEPT !.ppActive = FALSE, !.ack = FALSE])
  ELSE LET e == IF Edge(d) THEN [d EXCEPT !.ppTarget = d.target,
                                          !.ppActive = TRUE,
                                          !.ppChecked = d.checked]
                           ELSE d
       IN Pursued([e EXCEPT !.ack = d.word.b4])

ProfileVelocity(d) ==
  LET goal == IF d.word.halt THEN 0 ELSE Clip(d.velocity, MaxVelocity)
  IN Travel(d, goal)

Jog(d) ==
  LET wanted == IF d.word.b4 = d.word.b5 \/ d.word.halt THEN 0
                ELSE IF d.word.b4 THEN MaxVelocity ELSE -MaxVelocity
      goal == IF \/ wanted > 0 /\ d.pos >= d.limits.high
                 \/ wanted < 0 /\ d.pos <= d.limits.low
              THEN 0 ELSE wanted
  IN Travel(d, goal)

CyclicPosition(d) ==
  IF d.word.halt \/ ~d.referenced THEN Decelerated(d)
  ELSE Travel(d, Clip(d.target - d.pos, MaxVelocity))

HomingStep(d) ==
  IF ~d.homingActive THEN d
  ELSE IF d.counter > 1 THEN [d EXCEPT !.counter = @ - 1]
  ELSE [d EXCEPT !.counter = 0, !.pos = 0, !.vel = 0, !.target = 0,
                 !.homingActive = FALSE, !.referenced = TRUE,
                 !.zeroed = TRUE]

Homing(d) ==
  HomingStep(IF Edge(d)
             THEN [d EXCEPT !.homingActive = TRUE, !.counter = HomingCycles,
                            !.referenced = FALSE, !.vel = 0]
             ELSE d)

ProcessMode(d) ==
  CASE ~Enabled(d) -> d
    [] Enabled(d) /\ d.mode = "pp" -> ProfilePosition(d)
    [] Enabled(d) /\ d.mode = "pv" -> ProfileVelocity(d)
    [] Enabled(d) /\ d.mode = "jog" -> Jog(d)
    [] Enabled(d) /\ d.mode = "csp" -> CyclicPosition(d)
    [] Enabled(d) /\ d.mode = "homing" -> Homing(d)

SteppedState(d) ==
  LET e == [d EXCEPT !.sm = StateAfter(d.sm, d.word)]
  IN IF Enabled(d) /\ ~Enabled(e) THEN StoppedAtPosition(e) ELSE e

\* The status word is what the end of the cycle leaves.
Reported(d) ==
  [d EXCEPT !.previous = d.word,
            !.status = [enabled |-> Enabled(d), ack |-> d.ack,
                        referenced |-> d.referenced,
                        warning |-> LimitActive(d)]]

ProcessCycle(d) == Reported(ProcessMode(SteppedState(d)))

Outside(p, l) == IF p > l.high THEN p - l.high
                 ELSE IF p < l.low THEN l.low - p ELSE 0

\* Between d and e the drive has gone further out of the software limits and
\* not braked, in a position mode under a target accepted with these limits.
Pushes(d, e) ==
  /\ e.mode \in {"pp", "csp"}
  /\ e.limits = IF e.mode = "pp" THEN e.ppChecked ELSE e.checked
  /\ Outside(e.pos, e.limits) > Outside(d.pos, e.limits)
  /\ Abs(e.vel) >= Abs(d.vel)

\* exchange(): RxPDO into the object dictionary, one cycle of the drive; pushed
\* records for LimitsHold what the cycles of a handler have done.
Copied(d, r) == [d EXCEPT !.word = r.word, !.mode = r.mode, !.target = r.target,
                           !.velocity = r.velocity]
Cycled(d, r) == ProcessCycle(Commanded(Copied(d, r)))
Exchanged(d, r) ==
  [Cycled(d, r) EXCEPT !.pushed = @ \/ Pushes(d, Cycled(d, r))]
-----------------------------------------------------------------------------
(* What a handler does to p = [rx |-> ..., drive |-> ...]                   *)

Now == [rx |-> rx, drive |-> drive]

Exchange(p) == [rx |-> p.rx, drive |-> Exchanged(p.drive, p.rx)]
Send(p, w) == Exchange([p EXCEPT !.rx.word = w])

SendAll(p, words) ==
  LET f[n \in 0..Len(words)] == IF n = 0 THEN p ELSE Send(f[n - 1], words[n])
  IN f[Len(words)]

\* hold_axis_at_actual_position writes the target only; the velocity stays.
Held(p) == [p EXCEPT !.rx.target = p.drive.pos]

\* configure_mode_code: the mode is written by SDO and by RxPDO, and the drive
\* is given five cycles.
InMode(p, m) ==
  SendAll([rx |-> [p.rx EXCEPT !.mode = m], drive |-> [p.drive EXCEPT !.mode = m]],
          Times(5, p.rx.word))

Bit4(w, b) == [w EXCEPT !.b4 = b]

\* wait_pp_setpoint_ack: exchange until the acknowledge bit is as expected.
\* A state h = [p |-> ..., ok |-> ...] tells whether all waits so far ended well.
Waited(h, w, expected) ==
  LET f[n \in 0..HandshakeCycles] ==
        IF n = 0 THEN h.p
        ELSE IF n > 1 /\ f[n - 1].drive.status.ack = expected THEN f[n - 1]
        ELSE Send(f[n - 1], w)
      Heard(p) == [p |-> p, ok |-> h.ok /\ p.drive.status.ack = expected]
  IN Heard(f[HandshakeCycles])

\* Mutant: the second wait is not looked at.
HandshakeUnheard(p) ==
  Waited([Waited(Waited([p |-> p, ok |-> TRUE], Base, FALSE), NewSetpoint, TRUE)
            EXCEPT !.ok = TRUE], Base, FALSE)

\* pp_setpoint_handshake goes through its three waits whatever they return.
Handshake(p) ==
  Waited(Waited(Waited([p |-> p, ok |-> TRUE], Base, FALSE), NewSetpoint, TRUE),
         Base, FALSE)

\* Halt in PP and CSP, velocity zero in PV, no direction in JOG.
HeldStopped(h) ==
  CASE h.rx.mode \in {"pp", "csp"} -> [h EXCEPT !.rx.word.halt = TRUE]
    [] h.rx.mode = "pv" ->
         SendAll([h EXCEPT !.rx.velocity = 0], Times(2, Base))
    [] h.rx.mode = "jog" -> [h EXCEPT !.rx.word = Base]
    [] h.rx.mode = "homing" -> h

Stopped(p) == HeldStopped(Held(p))

Disabled(p) == SendAll(Held(p), Times(3, Word(7)))

\* finish_homing: start bit low, then the mode from before the run; a run
\* that was started in homing mode does not restore anything.
StartLow(p) == SendAll(p, Times(2, Bit4(p.rx.word, FALSE)))

Finished(p, h) ==
  IF h.original = "homing" THEN StartLow(p) ELSE InMode(StartLow(p), h.original)
-----------------------------------------------------------------------------
NoHoming == [active |-> FALSE, state |-> "inactive", seenLow |-> FALSE,
             original |-> "pp"]

RxImages == [word : Words, mode : Modes, target : Positions,
             velocity : Velocities \cup {0}]

DriveStates ==
  [sm : {"off", "ready", "on", "enabled", "fault"},
   word : Words, previous : Words, mode : Modes, lastMode : Modes,
   target : Positions, lastTarget : Positions, ppTarget : Positions,
   pos : Positions, vel : (-MaxVelocity)..MaxVelocity,
   velocity : Velocities \cup {0}, counter : 0..HomingCycles,
   limits : LimitPairs, checked : LimitPairs, ppChecked : LimitPairs,
   ppActive : BOOLEAN, ack : BOOLEAN, homingActive : BOOLEAN,
   referenced : BOOLEAN, warning : BOOLEAN, rejected : BOOLEAN,
   resetCommand : BOOLEAN, lastReset : BOOLEAN, zeroed : BOOLEAN,
   pushed : BOOLEAN,
   status : [enabled : BOOLEAN, ack : BOOLEAN, referenced : BOOLEAN,
             warning : BOOLEAN]]

(* The images and the drive have their shape.                              *)
TypeOK ==
  /\ rx \in RxImages /\ drive \in DriveStates
  /\ homing \in [active : BOOLEAN, seenLow : BOOLEAN, original : Modes,
                 state : {"inactive", "running", "complete", "stopped"}]
  /\ answer \in {"none", "moving", "failed", "reset"} /\ served \in 0..MaxRequests

PoweredOn(l) ==
  [sm |-> "off", word |-> Word(0), previous |-> Word(0), mode |-> "pp",
   lastMode |-> "pp", target |-> 0, lastTarget |-> 0, velocity |-> 0,
   limits |-> l, checked |-> l, ppChecked |-> l, pos |-> 0, vel |-> 0,
   ppActive |-> FALSE, ppTarget |-> 0, ack |-> FALSE, homingActive |-> FALSE,
   counter |-> 0, referenced |-> FALSE, warning |-> FALSE, rejected |-> FALSE,
   resetCommand |-> FALSE, lastReset |-> FALSE, zeroed |-> FALSE,
   pushed |-> FALSE,
   status |-> [enabled |-> FALSE, ack |-> FALSE, referenced |-> FALSE,
               warning |-> FALSE]]

\* initialize_servo_drives sends 6, 7 and 15.
Init ==
  /\ \E l \in LimitPairs :
     \E p \in {SendAll([rx |-> [word |-> Word(0), mode |-> "pp", target |-> 0,
                               velocity |-> 0],
                       drive |-> PoweredOn(l)],
                      <<Word(6), Word(7), Word(15)>>)} :
       rx = p.rx /\ drive = p.drive
  /\ homing = NoHoming /\ answer = "none" /\ served = 0
-----------------------------------------------------------------------------
(* The handlers                                                            *)

Becomes(p) == rx' = p.rx /\ drive' = p.drive

\* The other requests answer nothing a property is about.
Silent == answer' = "none"

IsEnabled == drive.status.enabled

\* axis/enable writes 0x000F only.
Enable ==
  /\ Becomes(SendAll(Now, Times(3, Base)))
  /\ Silent /\ UNCHANGED homing

\* What an inactive record remembers of its run is not read again.
Ended(outcome) == [NoHoming EXCEPT !.state = outcome]
EndedHoming == IF homing.active THEN Ended("stopped") ELSE homing

\* axis/disable and axis/stop finish a homing run first; axis/stop is refused
\* on a disabled axis.
Disable ==
  /\ Becomes(Disabled(IF homing.active THEN Finished(Now, homing) ELSE Now))
  /\ homing' = EndedHoming /\ Silent

Stop ==
  /\ IsEnabled
  /\ \E p \in {IF homing.active THEN Finished(Now, homing) ELSE Now} :
       Becomes(IF p.drive.status.enabled THEN Stopped(p) ELSE Held(p))
  /\ homing' = EndedHoming /\ Silent

PulseReset ==
  LET Reset(b) == [rx.word EXCEPT !.reset = b]
  IN Times(2, Reset(FALSE)) \o Times(2, Reset(TRUE)) \o Times(2, Reset(FALSE))

\* Mutant: Shutdown is left out.
FaultResetSkipsShutdown ==
  /\ Becomes(SendAll(Now, PulseReset \o Times(5, Word(7))))
  /\ answer' = "reset" /\ UNCHANGED homing

\* reset_faults: the pulse on bit 7 over the present word, then 6 and 7.
FaultReset ==
  /\ Becomes(SendAll(Now, PulseReset \o Times(5, Word(6)) \o Times(5, Word(7))))
  /\ answer' = "reset" /\ UNCHANGED homing

SetMode(m) ==
  /\ m # "homing" /\ m # rx.mode
  /\ Becomes(InMode(Held(Now), m))
  /\ Silent /\ UNCHANGED homing

\* A position command in PP; when the handshake fails the axis is held.
MoveProfile(t) ==
  /\ rx.mode = "pp" /\ IsEnabled
  /\ \E h \in {Handshake([Now EXCEPT !.rx.target = t])} :
       /\ Becomes(IF h.ok THEN h.p ELSE Held(h.p))
       /\ answer' = IF h.ok THEN "moving" ELSE "failed"
  /\ UNCHANGED homing

\* A CSP command or one sample of the generator.
MoveCyclic(t) ==
  /\ rx.mode = "csp" /\ IsEnabled
  /\ rx' = [rx EXCEPT !.target = t, !.word = Base]
  /\ Silent /\ UNCHANGED <<drive, homing>>

MoveVelocity(v) ==
  /\ rx.mode = "pv" /\ IsEnabled
  /\ Becomes(SendAll([Now EXCEPT !.rx.velocity = v], Times(2, Base)))
  /\ Silent /\ UNCHANGED homing

StartJog(positive) ==
  /\ rx.mode = "jog" /\ IsEnabled
  /\ rx' = [rx EXCEPT !.word = [Base EXCEPT !.b4 = positive, !.b5 = ~positive]]
  /\ Silent /\ UNCHANGED <<drive, homing>>

\* start_homing: homing mode, start bit low, then high; the reference bit is
\* read in between.
StartHoming ==
  /\ IsEnabled
  /\ \E low \in {StartLow(InMode([Now EXCEPT !.drive.zeroed = FALSE], "homing"))} :
       /\ Becomes(SendAll(low, Times(2, Bit4(rx.word, TRUE))))
       /\ homing' = [active |-> TRUE, state |-> "running", original |-> rx.mode,
                     seenLow |-> ~low.drive.status.referenced]
  /\ Silent

\* A parameter write: the software limits, or the device reset command, which
\* the drive sees in its next cycle.
WriteLimits(l) ==
  /\ l # drive.limits
  /\ drive' = [drive EXCEPT !.limits = l]
  /\ Silent /\ UNCHANGED <<rx, homing>>

WriteReset(b) ==
  /\ b # drive.resetCommand
  /\ drive' = [drive EXCEPT !.resetCommand = b]
  /\ Silent /\ UNCHANGED <<rx, homing>>
-----------------------------------------------------------------------------
\* Mutant: the run is complete as soon as the axis is referenced.
HomingDoneAtOnce(low, d) == d.status.referenced

\* update_homing_state: low since the start, and referenced now.
HomingDone(low, d) == low /\ d.status.referenced

\* A cycle of the server loop, with update_homing_state after it.
Cycle ==
  /\ \E p \in {Exchange(Now)} :
       LET low == homing.seenLow \/ ~p.drive.status.referenced
       IN IF ~homing.active THEN Becomes(p) /\ UNCHANGED homing
          ELSE IF HomingDone(low, p.drive)
          THEN /\ Becomes(Finished(p, homing))
               /\ homing' = Ended("complete")
          ELSE Becomes(p) /\ homing' = [homing EXCEPT !.seenLow = low]
  /\ Silent

Request ==
  /\ served < MaxRequests /\ served' = served + 1
  /\ \/ Enable \/ Disable \/ FaultReset \/ Stop \/ StartHoming
     \/ \E m \in Modes : SetMode(m)
     \/ \E t \in Targets : MoveProfile(t) \/ MoveCyclic(t)
     \/ \E v \in Velocities : MoveVelocity(v)
     \/ \E b \in BOOLEAN : StartJog(b) \/ WriteReset(b)
     \/ \E l \in LimitPairs : WriteLimits(l)

Next == Request \/ (Cycle /\ UNCHANGED served)

Spec == Init /\ [][Next]_vars
-----------------------------------------------------------------------------
(* Properties                                                              *)

(* A position command that tells its client that the axis moves has put    *)
(* the drive on the way to the commanded target, or the drive shows the    *)
(* software-limit warning.                                                 *)
MoveIsTaken ==
  answer = "moving" => drive.ppTarget = rx.target \/ drive.status.warning

(* A drive that is not in Operation Enabled stands still, however it got   *)
(* there: handler, device reset or a word written over a running motion.   *)
DisabledStandsStill == ~Enabled(drive) => drive.vel = 0 /\ ~drive.ppActive

(* In the position modes an axis without reference does not speed up.      *)
UnreferencedDoesNotStart ==
  [][ drive.mode \in {"pp", "csp"} /\ drive'.mode = drive.mode
        /\ ~drive.referenced
      => Abs(drive'.vel) <= Abs(drive.vel) ]_vars

(* In the position modes the axis moves further out of the software limits *)
(* only while it brakes, or under a target that was accepted before the    *)
(* limits were changed (a target is checked when it changes, also by a     *)
(* command that repeats it): in every cycle of every handler.              *)
LimitsHold == [][~drive'.pushed]_vars

(* The server reports a homing run complete only if the drive has set its  *)
(* position to zero since the run was requested, also on an axis that was  *)
(* referenced before and after runs that were broken off.                  *)
HomingIsCarriedOut == homing.state = "complete" => drive.zeroed

(* A fault reset leaves the drive Switched On and standing, whatever state *)
(* and motion it found (a device reset that is due included): axis/enable, *)
(* which writes 0x000F only, then reaches Operation Enabled.               *)
ResetPreparesEnable ==
  answer = "reset" => drive.sm = "on" /\ StateAfter(drive.sm, Base) = "enabled"

(* The drive is safe to command: its images have their shape, out of       *)
(* Operation Enabled it stands still, and a fault reset of the server      *)
(* brings it where axis/enable can take over.                              *)
DriveIsSafe == TypeOK /\ DisabledStandsStill /\ ResetPreparesEnable

(* In the position modes the axis moves only by what it was allowed: not   *)
(* without a reference and not further out of the software limits.         *)
MotionIsAllowed == UnreferencedDoesNotStart /\ LimitsHold
=============================================================================
