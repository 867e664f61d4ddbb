------------------------- MODULE ServoDrive_proofs -------------------------
(***************************************************************************)
(* Proofs about ServoDrive for every drive size, every set of targets and  *)
(* limits and every number of requests.                                    *)
(*                                                                         *)
(* The module follows one cycle through the drive (copy of the image,      *)
(* device reset, mode, target, state machine, mode process, status), shows *)
(* that it keeps DriveInv, and lifts this to the exchanges of a handler by *)
(* induction over its words (SetInduction, SendAllReaches, WaitedReaches). *)
(* ServoInv is the inductive invariant: the drive never has a target it    *)
(* may not pursue, mode and status are those of the last exchange, a mode  *)
(* that differs from the RxPDO image means that the drive is off, and a    *)
(* homing run that is complete was carried out.  The set-point handshake   *)
(* is an argument of its own: what the drive is asked, when it decides,    *)
(* and that it cannot change its mind before the server has seen the       *)
(* acknowledgement.                                                        *)
(***************************************************************************)
EXTENDS ServoDrive, SequenceTheorems, WellFoundedInduction, TLAPS

LEMMA Sizes ==
  /\ MaxPosition \in Nat /\ MaxVelocity \in Nat /\ MaxVelocity > 0
  /\ Acceleration \in Nat /\ Acceleration > 0
  /\ HomingCycles \in Nat /\ HomingCycles > 0
  /\ 0 \in Positions /\ 0 \in (-MaxVelocity)..MaxVelocity
  /\ Positions \subseteq Int /\ Targets \subseteq Positions
  /\ Velocities \subseteq Int
BY SizesAssumption DEF Positions

LEMMA WordTypes ==
  /\ \A op \in {0, 6, 7, 15} : Word(op) \in Words
  /\ Base \in Words /\ NewSetpoint \in Words
BY DEF Word, Words, Base, NewSetpoint

LEMMA StateAfterType ==
  ASSUME NEW s \in {"off", "ready", "on", "enabled", "fault"}, NEW w \in Words
  PROVE  /\ StateAfter(s, w) \in {"off", "ready", "on", "enabled", "fault"}
         /\ s # "fault" => StateAfter(s, w) # "fault"
BY DEF StateAfter, Words

LEMMA StoppedType ==
  ASSUME NEW d \in DriveStates
  PROVE  StoppedAtPosition(d) \in DriveStates
BY Sizes DEF StoppedAtPosition, DriveStates

LEMMA MoveTowardsFacts ==
  ASSUME NEW v \in (-MaxVelocity)..MaxVelocity, NEW g \in (-MaxVelocity)..MaxVelocity
  PROVE  /\ MoveTowards(v, g) \in (-MaxVelocity)..MaxVelocity
         /\ v <= g => v <= MoveTowards(v, g) /\ MoveTowards(v, g) <= g
         /\ v >= g => v >= MoveTowards(v, g) /\ MoveTowards(v, g) >= g
         /\ MoveTowards(v, g) = v => v = g
BY Sizes DEF MoveTowards, Abs

LEMMA PlacedType ==
  ASSUME NEW p \in Int
  PROVE  /\ Placed(p) \in Positions
         /\ p \in Positions => Placed(p) = p
BY Sizes DEF Placed, Clip, Positions

LEMMA TravelType ==
  ASSUME NEW d \in DriveStates, NEW g \in (-MaxVelocity)..MaxVelocity
  PROVE  /\ Travel(d, g) \in DriveStates
         /\ Travel(d, g) = [d EXCEPT !.vel = MoveTowards(d.vel, g),
                                     !.pos = Placed(d.pos + MoveTowards(d.vel, g))]
<1>1. d.vel \in (-MaxVelocity)..MaxVelocity /\ d.pos \in Int
  BY Sizes DEF DriveStates
<1>2. MoveTowards(d.vel, g) \in (-MaxVelocity)..MaxVelocity
  BY <1>1, MoveTowardsFacts
<1>3. Placed(d.pos + MoveTowards(d.vel, g)) \in Positions
  BY <1>1, <1>2, PlacedType, Sizes
<1> QED
  BY <1>2, <1>3 DEF Travel, DriveStates

Resets(d) == d.resetCommand /\ ~d.lastReset

LEMMA CopiedType ==
  ASSUME NEW d \in DriveStates, NEW r \in RxImages
  PROVE  Copied(d, r) \in DriveStates
BY DEF Copied, DriveStates, RxImages

LEMMA DeviceResetType ==
  ASSUME NEW d \in DriveStates
  PROVE  DeviceReset(d) \in DriveStates
<1>1. CASE Resets(d)
  BY <1>1, WordTypes DEF DeviceReset, Resets, DriveStates, Modes
<1>2. CASE ~Resets(d)
  BY <1>2 DEF DeviceReset, Resets, DriveStates
<1> QED
  BY <1>1, <1>2

LEMMA ModeSetType ==
  ASSUME NEW d \in DriveStates
  PROVE  ModeSet(d, d.mode) \in DriveStates
<1> DEFINE s == StoppedAtPosition(d)
           h == IF d.mode = "homing" THEN s.homingActive ELSE FALSE
<1>1. s \in DriveStates
  BY StoppedType
<1> HIDE DEF s
<1>2. h \in BOOLEAN /\ d.mode \in Modes
  BY <1>1 DEF DriveStates
<1> HIDE DEF h
<1>3. [s EXCEPT !.lastMode = d.mode, !.homingActive = h] \in DriveStates
  BY <1>1, <1>2 DEF DriveStates
<1>4. ModeSet(d, d.mode) = IF d.mode = d.lastMode THEN d
        ELSE [s EXCEPT !.lastMode = d.mode, !.homingActive = h]
  BY <1>1 DEF ModeSet, s, h, DriveStates
<1> QED
  BY <1>3, <1>4

LEMMA TargetSetType ==
  ASSUME NEW d \in DriveStates, NEW p \in Positions
  PROVE  TargetSet(d, p) \in DriveStates
<1>1. d.lastTarget \in Positions
      /\ d.limits \in LimitPairs /\ d.warning \in BOOLEAN
  BY DEF DriveStates
<1>2. [d EXCEPT !.target = d.lastTarget] \in DriveStates
  BY <1>1 DEF DriveStates
<1>3. [StoppedAtPosition(d) EXCEPT !.warning = TRUE, !.rejected = TRUE] \in DriveStates
  <2> DEFINE s == StoppedAtPosition(d)
  <2>1. s \in DriveStates
    BY StoppedType
  <2> HIDE DEF s
  <2>2. [s EXCEPT !.warning = TRUE, !.rejected = TRUE] \in DriveStates
    BY <2>1 DEF DriveStates
  <2> QED
    BY <2>2 DEF s
<1> DEFINE w == IF Within(d.pos, d.limits) THEN FALSE ELSE d.warning
<1>4. w \in BOOLEAN
  BY <1>1
<1> HIDE DEF w
<1>5. [d EXCEPT !.rejected = FALSE, !.warning = w,
                !.target = p, !.lastTarget = p,
                !.checked = d.limits] \in DriveStates
  BY <1>1, <1>4 DEF DriveStates
<1> QED
  BY <1>2, <1>3, <1>5 DEF TargetSet, w

LEMMA SteppedType ==
  ASSUME NEW d \in DriveStates
  PROVE  SteppedState(d) \in DriveStates
<1> DEFINE e == [d EXCEPT !.sm = StateAfter(d.sm, d.word)]
<1>1. e \in DriveStates
  BY StateAfterType DEF DriveStates
<1>2. StoppedAtPosition(e) \in DriveStates
  BY <1>1, StoppedType
<1> QED
  BY <1>1, <1>2 DEF SteppedState

LEMMA ClipType ==
  ASSUME NEW n \in Int
  PROVE  Clip(n, MaxVelocity) \in (-MaxVelocity)..MaxVelocity
BY Sizes DEF Clip

\* The approach is a step of travel or the arrival.
Goals == {0, MaxVelocity, -MaxVelocity}
Arrived(d) == [d EXCEPT !.pos = d.ppTarget, !.vel = 0, !.ppActive = FALSE]

LEMMA GoalTypes == Goals \subseteq (-MaxVelocity)..MaxVelocity
BY Sizes DEF Goals

LEMMA ApproachCases ==
  ASSUME NEW d \in DriveStates
  PROVE  Approach(d) = Arrived(d) \/ \E g \in Goals : Approach(d) = Travel(d, g)
<1> DEFINE distance == Abs(d.ppTarget - d.pos)
           sign == IF d.ppTarget >= d.pos THEN 1 ELSE -1
           toward == sign * d.vel
           braking == toward < 0 \/ 2 * Acceleration * distance <= toward * toward
           goal == IF braking THEN 0 ELSE sign * MaxVelocity
           moved == Travel(d, goal)
           arrives == (d.ppTarget - d.pos) * (d.ppTarget - moved.pos) <= 0
           all == arrives \/ (distance = 0 /\ Abs(d.vel) <= Acceleration)
<1>1. Approach(d) = IF all THEN Arrived(d) ELSE moved
  BY DEF Approach, Arrived
<1>2. goal \in Goals
  <2> HIDE DEF braking
  <2> QED
    BY Sizes DEF Goals
<1> HIDE DEF goal, all
<1> QED
  BY <1>1, <1>2

LEMMA ArrivedType ==
  ASSUME NEW d \in DriveStates
  PROVE  Arrived(d) \in DriveStates
BY Sizes DEF Arrived, DriveStates

LEMMA DeceleratedType ==
  ASSUME NEW d \in DriveStates
  PROVE  Decelerated(d) \in DriveStates
BY TravelType, Sizes DEF Decelerated

LEMMA PursuedType ==
  ASSUME NEW d \in DriveStates
  PROVE  Pursued(d) \in DriveStates
BY DeceleratedType, ApproachCases, ArrivedType, TravelType, GoalTypes DEF Pursued

\* What the modes leave alone
SameSetup(d, e) ==
  /\ e.sm = d.sm /\ e.word = d.word /\ e.previous = d.previous
  /\ e.mode = d.mode /\ e.lastMode = d.lastMode /\ e.lastTarget = d.lastTarget
  /\ e.limits = d.limits /\ e.checked = d.checked /\ e.warning = d.warning
  /\ e.rejected = d.rejected /\ e.resetCommand = d.resetCommand
  /\ e.lastReset = d.lastReset /\ e.pushed = d.pushed /\ e.velocity = d.velocity

\* ... and all but the homing run
SameReference(d, e) ==
  e.referenced = d.referenced /\ e.zeroed = d.zeroed /\ e.target = d.target

LEMMA TravelFrame ==
  ASSUME NEW d \in DriveStates, NEW g \in (-MaxVelocity)..MaxVelocity
  PROVE  /\ SameSetup(d, Travel(d, g)) /\ SameReference(d, Travel(d, g))
         /\ Travel(d, g).ack = d.ack /\ Travel(d, g).ppTarget = d.ppTarget
         /\ Travel(d, g).ppActive = d.ppActive /\ Travel(d, g).ppChecked = d.ppChecked
         /\ Travel(d, g).vel = MoveTowards(d.vel, g)
         /\ Travel(d, g).pos = Placed(d.pos + MoveTowards(d.vel, g))
<1> DEFINE v == MoveTowards(d.vel, g)
           p == Placed(d.pos + MoveTowards(d.vel, g))
           e == [d EXCEPT !.vel = v, !.pos = p]
<1>1. Travel(d, g) = e
  BY TravelType
<1> HIDE DEF v, p
<1>2. SameSetup(d, e)
  BY DEF SameSetup, DriveStates
<1>3. SameReference(d, e) /\ e.ack = d.ack /\ e.ppTarget = d.ppTarget
      /\ e.ppActive = d.ppActive /\ e.ppChecked = d.ppChecked
      /\ e.vel = v /\ e.pos = p
  BY DEF SameReference, DriveStates
<1> HIDE DEF e
<1> QED
  BY <1>1, <1>2, <1>3 DEF v, p

\* The drive as the profile position mode pursues it
PpStart(d) == IF Edge(d) THEN [d EXCEPT !.ppTarget = d.target, !.ppActive = TRUE,
                                        !.ppChecked = d.checked]
              ELSE d
PpRefuses(d) == d.word.halt \/ ~d.referenced \/ (Edge(d) /\ d.rejected)
PpHalted(d) == [d EXCEPT !.ppActive = FALSE, !.ack = FALSE]
PpGoing(d) == [PpStart(d) EXCEPT !.ack = d.word.b4]

LEMMA PpHaltedType ==
  ASSUME NEW d \in DriveStates
  PROVE  PpHalted(d) \in DriveStates
BY DEF PpHalted, DriveStates

LEMMA PpStartType ==
  ASSUME NEW d \in DriveStates
  PROVE  PpStart(d) \in DriveStates
<1>1. [d EXCEPT !.ppTarget = d.target, !.ppActive = TRUE, !.ppChecked = d.checked]
        \in DriveStates
  BY DEF DriveStates
<1> QED
  BY <1>1 DEF PpStart

LEMMA PpGoingType ==
  ASSUME NEW d \in DriveStates
  PROVE  PpGoing(d) \in DriveStates
<1> DEFINE s == PpStart(d)
<1>1. s \in DriveStates
  BY PpStartType
<1>2. d.word.b4 \in BOOLEAN
  BY DEF DriveStates, Words
<1> HIDE DEF s
<1>3. [s EXCEPT !.ack = d.word.b4] \in DriveStates
  BY <1>1, <1>2 DEF DriveStates
<1> QED
  BY <1>3 DEF PpGoing, s

LEMMA ProfilePositionIs ==
  ASSUME NEW d \in DriveStates
  PROVE  ProfilePosition(d) = IF PpRefuses(d) THEN Decelerated(PpHalted(d))
                              ELSE Pursued(PpGoing(d))
BY DEF ProfilePosition, PpRefuses, PpHalted, PpGoing, PpStart

LEMMA ProfilePositionType ==
  ASSUME NEW d \in DriveStates
  PROVE  ProfilePosition(d) \in DriveStates
BY ProfilePositionIs, PpHaltedType, PpGoingType, DeceleratedType, PursuedType

LEMMA PursuedFrame ==
  ASSUME NEW d \in DriveStates
  PROVE  /\ SameSetup(d, Pursued(d)) /\ SameReference(d, Pursued(d))
         /\ Pursued(d).ack = d.ack /\ Pursued(d).ppTarget = d.ppTarget
         /\ Pursued(d).ppChecked = d.ppChecked
         /\ Pursued(d).ppActive => d.ppActive
<1>1. CASE ~d.ppActive
  BY <1>1, TravelFrame, GoalTypes, Sizes DEF Pursued, Decelerated
<1>2. CASE d.ppActive /\ Approach(d) = Arrived(d)
  BY <1>2 DEF Pursued, Arrived, SameSetup, SameReference, DriveStates
<1>3. CASE d.ppActive /\ \E g \in Goals : Approach(d) = Travel(d, g)
  BY <1>3, TravelFrame, GoalTypes DEF Pursued
<1> QED
  BY <1>1, <1>2, <1>3, ApproachCases

LEMMA ProfilePositionFrame ==
  ASSUME NEW d \in DriveStates
  PROVE  SameSetup(d, ProfilePosition(d)) /\ SameReference(d, ProfilePosition(d))
<1>1. CASE PpRefuses(d)
  <2>1. SameSetup(d, PpHalted(d)) /\ SameReference(d, PpHalted(d))
    BY DEF PpHalted, SameSetup, SameReference, DriveStates
  <2> QED
    BY <1>1, <2>1, ProfilePositionIs, PpHaltedType, TravelFrame, Sizes
    DEF Decelerated, SameSetup, SameReference
<1>2. CASE ~PpRefuses(d)
  <2>1. SameSetup(d, PpGoing(d)) /\ SameReference(d, PpGoing(d))
    BY PpStartType DEF PpGoing, PpStart, SameSetup, SameReference, DriveStates
  <2> QED
    BY <1>2, <2>1, ProfilePositionIs, PpGoingType, PursuedFrame
    DEF SameSetup, SameReference
<1> QED
  BY <1>1, <1>2

\* The velocity wanted in the other three modes that move
VelocityGoal(d) == IF d.word.halt THEN 0 ELSE Clip(d.velocity, MaxVelocity)
CspGoal(d) == IF d.word.halt \/ ~d.referenced THEN 0
              ELSE Clip(d.target - d.pos, MaxVelocity)

LEMMA VelocityIs ==
  ASSUME NEW d \in DriveStates
  PROVE  /\ VelocityGoal(d) \in (-MaxVelocity)..MaxVelocity
         /\ ProfileVelocity(d) = Travel(d, VelocityGoal(d))
BY ClipType, Sizes DEF VelocityGoal, ProfileVelocity, DriveStates

LEMMA JogIs ==
  ASSUME NEW d \in DriveStates
  PROVE  \E g \in Goals : Jog(d) = Travel(d, g)
BY DEF Jog, Goals

LEMMA CyclicIs ==
  ASSUME NEW d \in DriveStates
  PROVE  /\ CspGoal(d) \in (-MaxVelocity)..MaxVelocity
         /\ CyclicPosition(d) = Travel(d, CspGoal(d))
<1>1. d.target - d.pos \in Int
  <2>1. d.target \in Positions /\ d.pos \in Positions
    BY DEF DriveStates
  <2>2. \A a, b \in Positions : a - b \in Int
    BY Sizes DEF Positions
  <2> QED
    BY <2>1, <2>2
<1>2. Clip(d.target - d.pos, MaxVelocity) \in (-MaxVelocity)..MaxVelocity
  BY <1>1, ClipType
<1> QED
  BY <1>2, Sizes DEF CspGoal, CyclicPosition, Decelerated

\* Homing mode starts a run on the edge of bit 4.
HomingStart(d) == IF Edge(d) THEN [d EXCEPT !.homingActive = TRUE,
                                            !.counter = HomingCycles,
                                            !.referenced = FALSE, !.vel = 0]
                  ELSE d

LEMMA HomingStartFacts ==
  ASSUME NEW d \in DriveStates
  PROVE  /\ HomingStart(d) \in DriveStates
         /\ SameSetup(d, HomingStart(d))
         /\ HomingStart(d).zeroed = d.zeroed
         /\ HomingStart(d).referenced => d.referenced
         /\ HomingStart(d).ppActive = d.ppActive
         /\ Homing(d) = HomingStep(HomingStart(d))
<1>1. HomingStart(d) \in DriveStates
  <2>1. HomingCycles \in 0..HomingCycles
    BY Sizes
  <2>2. [d EXCEPT !.homingActive = TRUE, !.counter = HomingCycles,
                  !.referenced = FALSE, !.vel = 0] \in DriveStates
    BY <2>1, Sizes DEF DriveStates
  <2> QED
    BY <2>2 DEF HomingStart
<1>2. SameSetup(d, HomingStart(d))
  BY DEF HomingStart, SameSetup, DriveStates
<1>3. /\ HomingStart(d).zeroed = d.zeroed
      /\ HomingStart(d).referenced => d.referenced
      /\ HomingStart(d).ppActive = d.ppActive
  BY DEF HomingStart, DriveStates
<1>4. Homing(d) = HomingStep(HomingStart(d))
  BY DEF Homing, HomingStart
<1> QED
  BY <1>1, <1>2, <1>3, <1>4

LEMMA HomingStepFacts ==
  ASSUME NEW d \in DriveStates
  PROVE  /\ HomingStep(d) \in DriveStates
         /\ SameSetup(d, HomingStep(d))
         /\ d.zeroed => HomingStep(d).zeroed
         /\ HomingStep(d).referenced => d.referenced \/ HomingStep(d).zeroed
         /\ HomingStep(d).ppActive = d.ppActive
<1>1. CASE ~d.homingActive
  BY <1>1 DEF HomingStep, SameSetup
<1>2. CASE d.homingActive /\ d.counter > 1
  <2>1. d.counter - 1 \in 0..HomingCycles
    BY <1>2, Sizes DEF DriveStates
  <2> DEFINE e == [d EXCEPT !.counter = d.counter - 1]
  <2>2. HomingStep(d) = e
    BY <1>2 DEF HomingStep, DriveStates
  <2>3. e \in DriveStates
    BY <2>1 DEF DriveStates
  <2>4. SameSetup(d, e) /\ e.zeroed = d.zeroed /\ e.referenced = d.referenced
        /\ e.ppActive = d.ppActive
    BY DEF SameSetup, DriveStates
  <2> HIDE DEF e
  <2> QED
    BY <2>2, <2>3, <2>4
<1>3. CASE d.homingActive /\ ~(d.counter > 1)
  <2> DEFINE e == [d EXCEPT !.counter = 0, !.pos = 0, !.vel = 0, !.target = 0,
                            !.homingActive = FALSE, !.referenced = TRUE,
                            !.zeroed = TRUE]
  <2>1. HomingStep(d) = e
    BY <1>3 DEF HomingStep
  <2>2. e \in DriveStates
    <3>1. 0 \in 0..HomingCycles
      BY Sizes
    <3> QED
      BY <3>1, Sizes DEF DriveStates
  <2>3. SameSetup(d, e) /\ e.zeroed = TRUE /\ e.ppActive = d.ppActive
    BY DEF SameSetup, DriveStates
  <2> HIDE DEF e
  <2> QED
    BY <2>1, <2>2, <2>3
<1> QED
  BY <1>1, <1>2, <1>3

LEMMA HomingFacts ==
  ASSUME NEW d \in DriveStates
  PROVE  /\ Homing(d) \in DriveStates
         /\ SameSetup(d, Homing(d))
         /\ d.zeroed => Homing(d).zeroed
         /\ Homing(d).referenced => d.referenced \/ Homing(d).zeroed
         /\ Homing(d).ppActive = d.ppActive
<1> DEFINE s == HomingStart(d)
<1>1. s \in DriveStates /\ SameSetup(d, s) /\ s.zeroed = d.zeroed
      /\ (s.referenced => d.referenced) /\ s.ppActive = d.ppActive
      /\ Homing(d) = HomingStep(s)
  BY HomingStartFacts
<1> HIDE DEF s
<1> QED
  BY <1>1, HomingStepFacts DEF SameSetup

\* What a cycle does in Operation Enabled, by mode
LEMMA ModeCases ==
  ASSUME NEW d \in DriveStates
  PROVE  \/ ~Enabled(d) /\ ProcessMode(d) = d
         \/ Enabled(d) /\ d.mode = "pp" /\ ProcessMode(d) = ProfilePosition(d)
         \/ Enabled(d) /\ d.mode = "csp" /\ ProcessMode(d) = Travel(d, CspGoal(d))
         \/ /\ Enabled(d) /\ d.mode \in {"pv", "jog"}
            /\ \E g \in (-MaxVelocity)..MaxVelocity : ProcessMode(d) = Travel(d, g)
         \/ Enabled(d) /\ d.mode = "homing" /\ ProcessMode(d) = Homing(d)
<1>1. d.mode \in Modes
  BY DEF DriveStates
<1>2. CASE d.mode = "jog" /\ Enabled(d)
  BY <1>2, JogIs, GoalTypes DEF ProcessMode
<1> QED
  BY <1>1, <1>2, VelocityIs, CyclicIs DEF ProcessMode, Modes

LEMMA ProcessModeFacts ==
  ASSUME NEW d \in DriveStates
  PROVE  /\ ProcessMode(d) \in DriveStates
         /\ SameSetup(d, ProcessMode(d))
         /\ d.zeroed => ProcessMode(d).zeroed
         /\ ProcessMode(d).referenced => d.referenced \/ ProcessMode(d).zeroed
         /\ d.mode # "homing" => SameReference(d, ProcessMode(d))
         /\ ~Enabled(d) => ProcessMode(d) = d
         /\ d.mode # "pp" => ProcessMode(d).ppActive = d.ppActive
<1>1. CASE ~Enabled(d) /\ ProcessMode(d) = d
  BY <1>1 DEF SameSetup, SameReference
<1>2. CASE Enabled(d) /\ d.mode = "pp" /\ ProcessMode(d) = ProfilePosition(d)
  BY <1>2, ProfilePositionType, ProfilePositionFrame DEF SameReference
<1>3. ASSUME NEW g \in (-MaxVelocity)..MaxVelocity, Enabled(d),
             d.mode \in {"csp", "pv", "jog"}, ProcessMode(d) = Travel(d, g)
      PROVE  /\ ProcessMode(d) \in DriveStates
             /\ SameSetup(d, ProcessMode(d)) /\ SameReference(d, ProcessMode(d))
             /\ ProcessMode(d).ppActive = d.ppActive
  BY <1>3, TravelType, TravelFrame
<1>4. CASE Enabled(d) /\ d.mode = "homing" /\ ProcessMode(d) = Homing(d)
  BY <1>4, HomingFacts
<1> QED
  BY <1>1, <1>2, <1>3, <1>4, ModeCases, CyclicIs DEF SameReference

-----------------------------------------------------------------------------
(* The steps before the mode: Copied, DeviceReset, ModeSet, TargetSet and  *)
(* SteppedState                                                            *)

\* What none of them touches
SameRun(d, e) ==
  /\ e.limits = d.limits /\ e.resetCommand = d.resetCommand
  /\ e.referenced = d.referenced /\ e.zeroed = d.zeroed /\ e.pushed = d.pushed
  /\ e.pos = d.pos /\ e.ppChecked = d.ppChecked /\ e.ack = d.ack
  /\ e.previous = d.previous
  /\ e.ppActive => d.ppActive

\* The axis goes on as it was, or it has been stopped where it is.
GoesOn(d, e) == e.vel = d.vel /\ e.ppActive = d.ppActive /\ e.ppTarget = d.ppTarget
StopsHere(d, e) == e.vel = 0 /\ ~e.ppActive /\ e.ppTarget = d.pos
                   /\ e.lastTarget = d.pos /\ e.target = d.pos

LEMMA StoppedFacts ==
  ASSUME NEW d \in DriveStates
  PROVE  /\ SameRun(d, StoppedAtPosition(d))
         /\ StopsHere(d, StoppedAtPosition(d))
         /\ StoppedAtPosition(d).sm = d.sm /\ StoppedAtPosition(d).word = d.word
         /\ StoppedAtPosition(d).mode = d.mode
         /\ StoppedAtPosition(d).lastMode = d.lastMode
         /\ StoppedAtPosition(d).lastReset = d.lastReset
         /\ StoppedAtPosition(d).warning = d.warning
         /\ StoppedAtPosition(d).rejected = d.rejected
         /\ StoppedAtPosition(d).checked = d.checked
<1>1. SameRun(d, StoppedAtPosition(d)) /\ StopsHere(d, StoppedAtPosition(d))
  BY DEF StoppedAtPosition, SameRun, StopsHere, DriveStates
<1> QED
  BY <1>1 DEF StoppedAtPosition, DriveStates

LEMMA CopiedFacts ==
  ASSUME NEW d \in DriveStates, NEW r \in RxImages
  PROVE  /\ SameRun(d, Copied(d, r)) /\ GoesOn(d, Copied(d, r))
         /\ Copied(d, r).word = r.word /\ Copied(d, r).mode = r.mode
         /\ Copied(d, r).target = r.target
         /\ Copied(d, r).sm = d.sm /\ Copied(d, r).lastMode = d.lastMode
         /\ Copied(d, r).lastTarget = d.lastTarget
         /\ Copied(d, r).lastReset = d.lastReset
         /\ Copied(d, r).warning = d.warning
         /\ Copied(d, r).rejected = d.rejected
         /\ Copied(d, r).checked = d.checked
<1>1. SameRun(d, Copied(d, r)) /\ GoesOn(d, Copied(d, r))
  BY DEF Copied, SameRun, GoesOn, DriveStates
<1> QED
  BY <1>1 DEF Copied, DriveStates

LEMMA DeviceResetFacts ==
  ASSUME NEW d \in DriveStates
  PROVE  /\ SameRun(d, DeviceReset(d)) /\ GoesOn(d, DeviceReset(d))
         /\ DeviceReset(d).lastReset = d.resetCommand
         /\ DeviceReset(d).sm = d.sm
         /\ DeviceReset(d).warning = d.warning
         /\ DeviceReset(d).rejected = d.rejected
         /\ DeviceReset(d).checked = d.checked
         /\ Resets(d) => /\ DeviceReset(d).word = Word(0)
                         /\ DeviceReset(d).mode = "pp"
                         /\ DeviceReset(d).lastMode = "pp"
                         /\ DeviceReset(d).target = d.pos
                         /\ DeviceReset(d).lastTarget = d.pos
         /\ ~Resets(d) => /\ DeviceReset(d).word = d.word
                          /\ DeviceReset(d).mode = d.mode
                          /\ DeviceReset(d).lastMode = d.lastMode
                          /\ DeviceReset(d).target = d.target
                          /\ DeviceReset(d).lastTarget = d.lastTarget
<1>1. CASE Resets(d)
  <2> DEFINE w == Word(0)
             e == [d EXCEPT !.word = w, !.mode = "pp", !.lastMode = "pp",
                 !.target = d.pos, !.lastTarget = d.pos, !.velocity = 0,
                 !.lastReset = TRUE]
  <2>1. DeviceReset(d) = e
    BY <1>1 DEF DeviceReset, Resets
  <2>2. d.resetCommand = TRUE
    BY <1>1 DEF Resets, DriveStates
  <2> HIDE DEF w
  <2>3. SameRun(d, e) /\ GoesOn(d, e)
    BY DEF SameRun, GoesOn, DriveStates
  <2>4. e.lastReset = TRUE /\ e.sm = d.sm /\ e.word = w /\ e.mode = "pp"
        /\ e.warning = d.warning /\ e.rejected = d.rejected /\ e.checked = d.checked
        /\ e.lastMode = "pp" /\ e.target = d.pos /\ e.lastTarget = d.pos
    BY DEF DriveStates
  <2> HIDE DEF e
  <2> QED
    BY <1>1, <2>1, <2>2, <2>3, <2>4 DEF w
<1>2. CASE ~Resets(d)
  <2> DEFINE e == [d EXCEPT !.lastReset = d.resetCommand]
  <2>1. DeviceReset(d) = e
    BY <1>2 DEF DeviceReset, Resets
  <2>2. SameRun(d, e) /\ GoesOn(d, e)
    BY DEF SameRun, GoesOn, DriveStates
  <2>3. e.lastReset = d.resetCommand /\ e.sm = d.sm /\ e.word = d.word
        /\ e.warning = d.warning /\ e.rejected = d.rejected /\ e.checked = d.checked
        /\ e.mode = d.mode /\ e.lastMode = d.lastMode /\ e.target = d.target
        /\ e.lastTarget = d.lastTarget
    BY DEF DriveStates
  <2> HIDE DEF e
  <2> QED
    BY <1>2, <2>1, <2>2, <2>3
<1> QED
  BY <1>1, <1>2

LEMMA ModeSetFacts ==
  ASSUME NEW d \in DriveStates, NEW e, e = ModeSet(d, d.mode)
  PROVE  /\ SameRun(d, e) /\ e.sm = d.sm /\ e.word = d.word /\ e.mode = d.mode
         /\ e.lastMode = d.mode /\ e.lastReset = d.lastReset
         /\ e.warning = d.warning /\ e.rejected = d.rejected /\ e.checked = d.checked
         /\ d.mode = d.lastMode => e = d
         /\ d.mode # d.lastMode => StopsHere(d, e)
<1>1. CASE d.mode = d.lastMode
  BY <1>1 DEF ModeSet, SameRun
<1>2. CASE d.mode # d.lastMode
  <2> DEFINE s == StoppedAtPosition(d)
             h == IF d.mode = "homing" THEN s.homingActive ELSE FALSE
             x == [s EXCEPT !.lastMode = d.mode, !.homingActive = h]
  <2>1. s \in DriveStates
    BY StoppedType
  <2>2. e = x
    BY <1>2, <2>1 DEF ModeSet, DriveStates
  <2> HIDE DEF s, h
  <2>3. SameRun(s, x) /\ x.vel = s.vel /\ x.ppActive = s.ppActive
        /\ x.ppTarget = s.ppTarget /\ x.lastTarget = s.lastTarget
        /\ x.target = s.target
    BY <2>1 DEF SameRun, DriveStates
  <2>4. x.sm = s.sm /\ x.word = s.word /\ x.mode = s.mode /\ x.lastMode = d.mode
        /\ x.lastReset = s.lastReset /\ x.warning = s.warning
        /\ x.rejected = s.rejected /\ x.checked = s.checked
    BY <2>1 DEF DriveStates
  <2> HIDE DEF x
  <2> QED
    BY <1>2, <2>2, <2>3, <2>4, StoppedFacts DEF s, SameRun, StopsHere
<1> QED
  BY <1>1, <1>2

\* A new target is taken over, refused with the axis stopped, or, without a
\* reference, not taken note of; the target is the last one afterwards.
TargetKept(d, e) ==
  /\ GoesOn(d, e) /\ e.lastTarget = d.lastTarget /\ e.checked = d.checked
  /\ e.rejected = d.rejected /\ e.warning = d.warning
TargetRefused(d, e, p) ==
  /\ StopsHere(d, e) /\ e.rejected /\ e.warning /\ e.checked = d.checked
  /\ ~Within(p, d.limits)
TargetTaken(d, e, p) ==
  /\ GoesOn(d, e) /\ e.lastTarget = p /\ e.checked = d.limits
  /\ ~e.rejected /\ Within(p, d.limits)

LEMMA TargetSetFacts ==
  ASSUME NEW d \in DriveStates, NEW p \in Positions, NEW e,
         e = TargetSet(d, p), p = d.target \/ d.target = d.lastTarget
  PROVE  /\ SameRun(d, e) /\ e.sm = d.sm /\ e.word = d.word /\ e.mode = d.mode
         /\ e.lastMode = d.lastMode /\ e.lastReset = d.lastReset
         /\ e.target = e.lastTarget
         /\ \/ /\ TargetKept(d, e)
               /\ p = d.lastTarget \/ ~d.referenced
            \/ TargetRefused(d, e, p) /\ p # d.lastTarget
            \/ TargetTaken(d, e, p)
         /\ p = d.lastTarget => e = d
<1>1. CASE p = d.lastTarget
  BY <1>1 DEF TargetSet, TargetKept, SameRun, GoesOn
<1>2. CASE /\ p # d.lastTarget
           /\ d.mode \in {"pp", "csp"} /\ ~d.referenced
  <2> DEFINE x == [d EXCEPT !.target = d.lastTarget]
  <2>1. e = x
    BY <1>2 DEF TargetSet
  <2>2. SameRun(d, x) /\ TargetKept(d, x)
    BY DEF SameRun, TargetKept, GoesOn, DriveStates
  <2>3. x.sm = d.sm /\ x.word = d.word /\ x.mode = d.mode
        /\ x.lastMode = d.lastMode /\ x.lastReset = d.lastReset
        /\ x.target = x.lastTarget
    BY DEF DriveStates
  <2> HIDE DEF x
  <2> QED
    BY <1>2, <2>1, <2>2, <2>3
<1>3. CASE /\ p # d.lastTarget
           /\ ~(d.mode \in {"pp", "csp"} /\ ~d.referenced)
           /\ ~Within(p, d.limits)
  <2> DEFINE s == StoppedAtPosition(d)
             x == [s EXCEPT !.warning = TRUE, !.rejected = TRUE]
  <2>1. s \in DriveStates
    BY StoppedType
  <2>2. e = x
    BY <1>3 DEF TargetSet
  <2> HIDE DEF s
  <2>3. SameRun(s, x) /\ x.vel = s.vel /\ x.ppActive = s.ppActive
        /\ x.ppTarget = s.ppTarget /\ x.lastTarget = s.lastTarget
        /\ x.target = s.target
    BY <2>1 DEF SameRun, DriveStates
  <2>4. x.sm = s.sm /\ x.word = s.word /\ x.mode = s.mode
        /\ x.lastMode = s.lastMode /\ x.lastReset = s.lastReset
        /\ x.warning = TRUE /\ x.rejected = TRUE /\ x.checked = s.checked
    BY <2>1 DEF DriveStates
  <2> HIDE DEF x
  <2> QED
    BY <1>3, <2>2, <2>3, <2>4, StoppedFacts
    DEF s, SameRun, StopsHere, TargetRefused
<1>4. CASE /\ p # d.lastTarget
           /\ ~(d.mode \in {"pp", "csp"} /\ ~d.referenced)
           /\ Within(p, d.limits)
  <2> DEFINE w == IF Within(d.pos, d.limits) THEN FALSE ELSE d.warning
             x == [d EXCEPT !.rejected = FALSE, !.warning = w, !.target = p,
                            !.lastTarget = p, !.checked = d.limits]
  <2>1. e = x
    BY <1>4 DEF TargetSet, DriveStates
  <2> HIDE DEF w
  <2>2. SameRun(d, x) /\ GoesOn(d, x)
    BY DEF SameRun, GoesOn, DriveStates
  <2>3. x.sm = d.sm /\ x.word = d.word /\ x.mode = d.mode
        /\ x.lastMode = d.lastMode /\ x.lastReset = d.lastReset
        /\ x.target = p /\ x.lastTarget = p /\ x.checked = d.limits
        /\ x.rejected = FALSE
    BY DEF DriveStates
  <2> HIDE DEF x
  <2> QED
    BY <1>4, <2>1, <2>2, <2>3 DEF TargetTaken
<1> QED
  BY <1>1, <1>2, <1>3, <1>4

LEMMA SteppedFacts ==
  ASSUME NEW d \in DriveStates, NEW e, e = SteppedState(d)
  PROVE  /\ SameRun(d, e) /\ e.sm = StateAfter(d.sm, d.word)
         /\ e.word = d.word /\ e.mode = d.mode
         /\ e.lastMode = d.lastMode /\ e.lastReset = d.lastReset
         /\ e.warning = d.warning /\ e.rejected = d.rejected /\ e.checked = d.checked
         /\ Enabled(d) /\ ~Enabled(e) => StopsHere(d, e)
         /\ ~Enabled(d) \/ Enabled(e) => GoesOn(d, e) /\ e.target = d.target
                                         /\ e.lastTarget = d.lastTarget
<1> DEFINE n == StateAfter(d.sm, d.word)
           x == [d EXCEPT !.sm = n]
<1>0. x \in DriveStates
  BY StateAfterType DEF DriveStates
<1>1. e = IF d.sm = "enabled" /\ n # "enabled" THEN StoppedAtPosition(x) ELSE x
  BY DEF SteppedState, Enabled, DriveStates
<1> HIDE DEF n
<1>2. SameRun(d, x) /\ GoesOn(d, x)
  BY DEF SameRun, GoesOn, DriveStates
<1>3. x.sm = n /\ x.word = d.word /\ x.mode = d.mode /\ x.target = d.target
      /\ x.lastTarget = d.lastTarget
      /\ x.lastMode = d.lastMode /\ x.lastReset = d.lastReset
      /\ x.warning = d.warning /\ x.rejected = d.rejected /\ x.checked = d.checked
  BY DEF DriveStates
<1> HIDE DEF x
<1>4. CASE d.sm = "enabled" /\ n # "enabled"
  BY <1>0, <1>1, <1>2, <1>3, <1>4, StoppedFacts
  DEF n, Enabled, SameRun, StopsHere
<1>5. CASE ~(d.sm = "enabled" /\ n # "enabled")
  BY <1>1, <1>2, <1>3, <1>5 DEF n, Enabled
<1> QED
  BY <1>4, <1>5

-----------------------------------------------------------------------------
(* The drive when its mode is processed: k = BeforeMode(d, r)                *)

BeforeMode(d, r) == SteppedState(Commanded(Copied(d, r)))

\* The word and the mode that take effect
EffectiveWord(d, r) == IF Resets(d) THEN Word(0) ELSE r.word
EffectiveMode(d, r) == IF Resets(d) THEN "pp" ELSE r.mode

\* The drive after DeviceReset, ModeSet and TargetSet
ResetStage(d, r) == DeviceReset(Copied(d, r))
ModeStage(d, r) == ModeSet(ResetStage(d, r), ResetStage(d, r).mode)
TargetStage(d, r) == TargetSet(ModeStage(d, r), ResetStage(d, r).target)

LEMMA StageTypes ==
  ASSUME NEW d \in DriveStates, NEW r \in RxImages
  PROVE  /\ ResetStage(d, r) \in DriveStates /\ ModeStage(d, r) \in DriveStates
         /\ TargetStage(d, r) \in DriveStates /\ BeforeMode(d, r) \in DriveStates
         /\ ResetStage(d, r).target \in Positions
         /\ BeforeMode(d, r) = SteppedState(TargetStage(d, r))
<1>1. ResetStage(d, r) \in DriveStates
  BY CopiedType, DeviceResetType DEF ResetStage
<1>2. ResetStage(d, r).target \in Positions
  BY <1>1 DEF DriveStates
<1>3. ModeStage(d, r) \in DriveStates
  BY <1>1, ModeSetType DEF ModeStage
<1>4. TargetStage(d, r) \in DriveStates
  BY <1>2, <1>3, TargetSetType DEF TargetStage
<1>5. BeforeMode(d, r) = SteppedState(TargetStage(d, r))
  BY DEF BeforeMode, Commanded, TargetAndModeSet, ResetStage, ModeStage, TargetStage
<1> QED
  BY <1>1, <1>2, <1>3, <1>4, <1>5, SteppedType

LEMMA ResetStageFacts ==
  ASSUME NEW d \in DriveStates, NEW r \in RxImages, NEW a, a = ResetStage(d, r)
  PROVE  /\ SameRun(d, a) /\ GoesOn(d, a) /\ a.lastReset = d.resetCommand
         /\ a.word = EffectiveWord(d, r) /\ a.mode = EffectiveMode(d, r)
         /\ a.sm = d.sm /\ a.rejected = d.rejected /\ a.warning = d.warning
         /\ a.checked = d.checked
         /\ Resets(d) => a.target = d.pos /\ a.lastTarget = d.pos /\ a.lastMode = "pp"
         /\ ~Resets(d) => a.target = r.target /\ a.lastTarget = d.lastTarget
                          /\ a.lastMode = d.lastMode
<1> DEFINE c == Copied(d, r)
<1>1. c \in DriveStates
  BY CopiedType
<1>2. Resets(c) = Resets(d) /\ c.pos = d.pos
  BY CopiedFacts DEF Resets, SameRun
<1>3. /\ SameRun(d, c) /\ GoesOn(d, c) /\ c.word = r.word /\ c.mode = r.mode
      /\ c.target = r.target /\ c.sm = d.sm /\ c.lastMode = d.lastMode
      /\ c.lastTarget = d.lastTarget /\ c.warning = d.warning
      /\ c.rejected = d.rejected /\ c.checked = d.checked
  BY CopiedFacts
<1>4. a = DeviceReset(c)
  BY DEF ResetStage
<1> HIDE DEF c
<1>5. /\ SameRun(c, a) /\ GoesOn(c, a) /\ a.lastReset = c.resetCommand
      /\ a.sm = c.sm /\ a.warning = c.warning /\ a.rejected = c.rejected
      /\ a.checked = c.checked
      /\ Resets(c) => a.word = Word(0) /\ a.mode = "pp" /\ a.lastMode = "pp"
                      /\ a.target = c.pos /\ a.lastTarget = c.pos
      /\ ~Resets(c) => a.word = c.word /\ a.mode = c.mode
                       /\ a.lastMode = c.lastMode /\ a.target = c.target
                       /\ a.lastTarget = c.lastTarget
  BY <1>1, <1>4, DeviceResetFacts
<1> QED
  BY <1>2, <1>3, <1>5 DEF SameRun, GoesOn, EffectiveWord, EffectiveMode

LEMMA ModeStageFacts ==
  ASSUME NEW d \in DriveStates, NEW r \in RxImages, NEW a, a = ResetStage(d, r),
         NEW m, m = ModeStage(d, r)
  PROVE  /\ SameRun(a, m) /\ m.sm = a.sm /\ m.word = a.word /\ m.mode = a.mode
         /\ m.lastMode = a.mode /\ m.lastReset = a.lastReset
         /\ m.warning = a.warning /\ m.rejected = a.rejected /\ m.checked = a.checked
         /\ a.mode = a.lastMode => m = a
         /\ a.mode # a.lastMode => StopsHere(a, m)
         /\ a.target = m.target \/ m.target = m.lastTarget
<1>1. a \in DriveStates
  BY StageTypes
<1>2. m = ModeSet(a, a.mode)
  BY DEF ModeStage
<1> QED
  BY <1>1, <1>2, ModeSetFacts DEF StopsHere

LEMMA TargetStageFacts ==
  ASSUME NEW d \in DriveStates, NEW r \in RxImages, NEW a, a = ResetStage(d, r),
         NEW m, m = ModeStage(d, r), NEW t, t = TargetStage(d, r)
  PROVE  /\ SameRun(m, t) /\ t.sm = m.sm /\ t.word = m.word /\ t.mode = m.mode
         /\ t.lastMode = m.lastMode /\ t.lastReset = m.lastReset
         /\ t.target = t.lastTarget
         /\ \/ /\ TargetKept(m, t)
               /\ a.target = m.lastTarget \/ ~m.referenced
            \/ TargetRefused(m, t, a.target) /\ a.target # m.lastTarget
            \/ TargetTaken(m, t, a.target)
         /\ a.target = m.lastTarget => t = m
<1>1. m \in DriveStates /\ a.target \in Positions
  BY StageTypes
<1>2. t = TargetSet(m, a.target)
  BY DEF TargetStage
<1>3. a.target = m.target \/ m.target = m.lastTarget
  BY ModeStageFacts
<1> QED
  BY <1>1, <1>2, <1>3, TargetSetFacts

LEMMA BeforeModeFacts ==
  ASSUME NEW d \in DriveStates, NEW r \in RxImages, NEW k, k = BeforeMode(d, r)
  PROVE  /\ SameRun(d, k) /\ k.lastReset = d.resetCommand
         /\ k.word = EffectiveWord(d, r)
         /\ k.mode = EffectiveMode(d, r) /\ k.lastMode = k.mode
         /\ k.sm = StateAfter(d.sm, k.word)
         /\ k.target = k.lastTarget
<1> DEFINE a == ResetStage(d, r)
           m == ModeStage(d, r)
           t == TargetStage(d, r)
<1>1. /\ SameRun(d, a) /\ a.lastReset = d.resetCommand /\ a.sm = d.sm
      /\ a.word = EffectiveWord(d, r) /\ a.mode = EffectiveMode(d, r)
  BY ResetStageFacts
<1>2. /\ SameRun(a, m) /\ m.sm = a.sm /\ m.word = a.word /\ m.mode = a.mode
      /\ m.lastMode = a.mode /\ m.lastReset = a.lastReset
  BY ModeStageFacts
<1>3. /\ SameRun(m, t) /\ t.sm = m.sm /\ t.word = m.word /\ t.mode = m.mode
      /\ t.lastMode = m.lastMode /\ t.lastReset = m.lastReset
      /\ t.target = t.lastTarget
  BY TargetStageFacts
<1>4. /\ SameRun(t, k) /\ k.sm = StateAfter(t.sm, t.word)
      /\ k.word = t.word /\ k.mode = t.mode
      /\ k.lastMode = t.lastMode /\ k.lastReset = t.lastReset
      /\ Enabled(t) /\ ~Enabled(k) => StopsHere(t, k)
      /\ ~Enabled(t) \/ Enabled(k) => GoesOn(t, k) /\ k.target = t.target
                                      /\ k.lastTarget = t.lastTarget
  <2>1. t \in DriveStates /\ k = SteppedState(t)
    BY StageTypes
  <2> HIDE DEF t
  <2> QED
    BY <2>1, SteppedFacts
<1> HIDE DEF a, m, t
<1>5. SameRun(d, k)
  BY <1>1, <1>2, <1>3, <1>4 DEF SameRun
<1>6. k.target = k.lastTarget
  BY <1>3, <1>4 DEF StopsHere
<1> QED
  BY <1>1, <1>2, <1>3, <1>4, <1>5, <1>6

\* The axis stands with its present position for a target, or it has taken a
\* new target over, or it goes on as before.
Stands(k) == k.vel = 0 /\ ~k.ppActive
Halts(k) == Stands(k) /\ k.lastTarget = k.pos
Takes(d, k) == /\ k.checked = k.limits /\ Within(k.lastTarget, k.limits)
               /\ (GoesOn(d, k) /\ k.mode = d.lastMode) \/ Stands(k)
Continues(d, k) == /\ GoesOn(d, k) /\ k.lastTarget = d.lastTarget
                   /\ k.checked = d.checked /\ k.mode = d.lastMode

LEMMA BeforeModeOutcome ==
  ASSUME NEW d \in DriveStates, NEW r \in RxImages, NEW k, k = BeforeMode(d, r),
         ~Enabled(d) => Stands(d)
  PROVE  /\ Halts(k) \/ Takes(d, k) \/ Continues(d, k)
         /\ (d.rejected => d.warning) => (k.rejected => k.warning)
         /\ ~Enabled(k) => Stands(k)
<1> DEFINE a == ResetStage(d, r)
           m == ModeStage(d, r)
           t == TargetStage(d, r)
<1>1. /\ SameRun(d, a) /\ GoesOn(d, a) /\ a.sm = d.sm
      /\ a.rejected = d.rejected /\ a.warning = d.warning /\ a.checked = d.checked
      /\ a.mode = EffectiveMode(d, r) /\ a.word = EffectiveWord(d, r)
      /\ Resets(d) => a.target = d.pos /\ a.lastTarget = d.pos /\ a.lastMode = "pp"
      /\ ~Resets(d) => a.lastTarget = d.lastTarget /\ a.lastMode = d.lastMode
  BY ResetStageFacts
<1>2. /\ SameRun(a, m) /\ m.sm = a.sm /\ m.mode = a.mode /\ m.word = a.word
      /\ m.warning = a.warning /\ m.rejected = a.rejected /\ m.checked = a.checked
      /\ a.mode = a.lastMode => m = a
      /\ a.mode # a.lastMode => StopsHere(a, m)
  BY ModeStageFacts
<1>3. /\ SameRun(m, t) /\ t.sm = m.sm /\ t.mode = m.mode /\ t.word = m.word
      /\ \/ TargetKept(m, t)
         \/ TargetRefused(m, t, a.target)
         \/ TargetTaken(m, t, a.target)
      /\ a.target = m.lastTarget => t = m
  BY TargetStageFacts
<1>4. /\ SameRun(t, k) /\ k.sm = StateAfter(t.sm, t.word) /\ k.mode = t.mode
      /\ k.warning = t.warning /\ k.rejected = t.rejected /\ k.checked = t.checked
      /\ Enabled(t) /\ ~Enabled(k) => StopsHere(t, k)
      /\ ~Enabled(t) \/ Enabled(k) => GoesOn(t, k) /\ k.lastTarget = t.lastTarget
  <2>1. t \in DriveStates /\ k = SteppedState(t)
    BY StageTypes
  <2> HIDE DEF t
  <2> QED
    BY <2>1, SteppedFacts
<1>5. t.sm = d.sm /\ t.pos = d.pos /\ k.pos = d.pos /\ m.pos = d.pos /\ a.pos = d.pos
      /\ k.limits = d.limits /\ m.limits = d.limits
  BY <1>1, <1>2, <1>3, <1>4 DEF SameRun
<1> HIDE DEF a, m, t
<1>6. (d.rejected => d.warning) => (k.rejected => k.warning)
  BY <1>1, <1>2, <1>3, <1>4 DEF TargetKept, TargetRefused, TargetTaken
<1>7. ~Enabled(k) => Stands(k)
  <2>1. CASE Enabled(t)
    BY <1>4, <2>1 DEF StopsHere, Stands
  <2>2. CASE ~Enabled(t)
    <3>1. Stands(d)
      BY <1>5, <2>2 DEF Enabled
    <3>2. Stands(m)
      BY <1>1, <1>2, <3>1 DEF Stands, GoesOn, StopsHere
    <3>3. Stands(t)
      BY <1>3, <3>2
      DEF Stands, GoesOn, StopsHere, TargetKept, TargetRefused, TargetTaken
    <3> QED
      BY <1>4, <2>2, <3>3 DEF Stands, GoesOn
  <2> QED
    BY <2>1, <2>2
<1>8. Halts(k) \/ Takes(d, k) \/ Continues(d, k)
  <2>1. CASE Enabled(t) /\ ~Enabled(k)
    BY <1>4, <1>5, <2>1 DEF StopsHere, Halts, Stands
  <2>2. CASE ~(Enabled(t) /\ ~Enabled(k)) /\ Resets(d)
    <3>1. t = m /\ m = a
      BY <1>1, <1>2, <1>3, <2>2 DEF EffectiveMode
    <3>2. k.lastTarget = k.pos
      BY <1>1, <1>4, <1>5, <2>2, <3>1
    <3>3. k.sm # "enabled"
      <4>1. t.word = Word(0)
        BY <1>1, <2>2, <3>1 DEF EffectiveWord
      <4> QED
        BY <1>4, <4>1 DEF StateAfter, Word
    <3> QED
      BY <1>7, <3>2, <3>3 DEF Enabled, Halts
  <2>3. CASE ~(Enabled(t) /\ ~Enabled(k)) /\ ~Resets(d)
    <3>1. GoesOn(t, k) /\ k.lastTarget = t.lastTarget
      BY <1>4, <2>3
    <3>2. CASE TargetRefused(m, t, a.target)
      BY <1>5, <3>1, <3>2 DEF TargetRefused, StopsHere, GoesOn, Halts, Stands
    <3>3. \/ GoesOn(d, m) /\ m.lastTarget = d.lastTarget /\ m.mode = d.lastMode
          \/ Halts(m)
      BY <1>1, <1>2, <1>5, <2>3 DEF StopsHere, Halts, Stands, GoesOn
    <3>4. CASE TargetTaken(m, t, a.target)
      BY <1>3, <1>4, <1>5, <3>1, <3>3, <3>4 DEF TargetTaken, GoesOn, Takes, Stands, Halts
    <3>5. CASE TargetKept(m, t)
      BY <1>1, <1>2, <1>3, <1>4, <1>5, <3>1, <3>3, <3>5
      DEF TargetKept, GoesOn, Continues, Stands, Halts
    <3> QED
      BY <1>3, <3>2, <3>4, <3>5
  <2> QED
    BY <2>1, <2>2, <2>3
<1> QED
  BY <1>6, <1>7, <1>8

-----------------------------------------------------------------------------
(* What a cycle makes of position and velocity                             *)

Speeds == (-MaxVelocity)..MaxVelocity

\* Braking makes the axis slower, or it does not move.
LEMMA Braking ==
  ASSUME NEW v \in Speeds
  PROVE  /\ MoveTowards(v, 0) = 0 \/ Abs(MoveTowards(v, 0)) < Abs(v)
         /\ Abs(MoveTowards(v, 0)) <= Abs(v)
         /\ MoveTowards(0, 0) = 0
BY Sizes DEF MoveTowards, Abs, Speeds

LEMMA IntFacts ==
  /\ \A p \in Positions : p \in Int
  /\ \A v \in Speeds : v \in Int
  /\ \A p \in Positions, w \in Int : Placed(p + w) \in Positions /\ Placed(p + w) \in Int
  /\ \A v, g \in Speeds : MoveTowards(v, g) \in Speeds /\ MoveTowards(v, g) \in Int
  /\ \A l \in LimitPairs : l.low \in Int /\ l.high \in Int /\ l.low <= l.high
<1>1. \A p \in Positions : p \in Int
  BY Sizes
<1>2. \A v \in Speeds : v \in Int
  BY Sizes DEF Speeds
<1>3. ASSUME NEW p \in Positions, NEW w \in Int
      PROVE  Placed(p + w) \in Positions /\ Placed(p + w) \in Int
  <2>1. p + w \in Int
    BY <1>1
  <2> QED
    BY <1>1, <2>1, PlacedType
<1>4. \A v, g \in Speeds : MoveTowards(v, g) \in Speeds
  BY MoveTowardsFacts DEF Speeds
<1> QED
  BY <1>1, <1>2, <1>3, <1>4, SizesAssumption

LEMMA PlacedBetween ==
  ASSUME NEW p \in Positions, NEW v \in Int
  PROVE  /\ Placed(p + v) \in Int
         /\ Placed(p + v) > p => v > 0 /\ Placed(p + v) <= p + v
         /\ Placed(p + v) < p => v < 0 /\ Placed(p + v) >= p + v
         /\ v = 0 => Placed(p + v) = p
BY Sizes DEF Placed, Clip, Positions

LEMMA OutsideGrows ==
  ASSUME NEW l \in LimitPairs, NEW p \in Positions, NEW q \in Positions,
         Outside(q, l) > Outside(p, l)
  PROVE  \/ q > p /\ q > l.high
         \/ q < p /\ q < l.low
<1>1. l.low \in Int /\ l.high \in Int /\ l.low <= l.high /\ p \in Int /\ q \in Int
  BY SizesAssumption, Sizes
<1> QED
  BY <1>1 DEF Outside

\* A cycle of braking moves the axis further out only with less speed.
LEMMA BrakingHolds ==
  ASSUME NEW l \in LimitPairs, NEW p \in Positions, NEW v \in Speeds,
         Outside(Placed(p + MoveTowards(v, 0)), l) > Outside(p, l)
  PROVE  Abs(MoveTowards(v, 0)) < Abs(v)
<1> DEFINE w == MoveTowards(v, 0)
<1>1. w \in Int
  BY MoveTowardsFacts, Sizes DEF Speeds
<1>2. w = 0 \/ Abs(w) < Abs(v)
  BY Braking
<1> HIDE DEF w
<1>3. CASE w = 0
  <2>1. Placed(p + w) = p
    BY <1>3, PlacedBetween
  <2>2. Outside(p, l) \in Int
    <3>1. l.low \in Int /\ l.high \in Int /\ p \in Int
      BY SizesAssumption, Sizes
    <3> QED
      BY <3>1 DEF Outside
  <2> QED
    BY <2>1, <2>2 DEF w
<1> QED
  BY <1>2, <1>3 DEF w

\* A cycle of cyclic position mode under a target within the limits
LEMMA CyclicHolds ==
  ASSUME NEW l \in LimitPairs, NEW p \in Positions, NEW v \in Speeds,
         NEW t \in Positions, Within(t, l),
         NEW g, g = Clip(t - p, MaxVelocity),
         Outside(Placed(p + MoveTowards(v, g)), l) > Outside(p, l)
  PROVE  Abs(MoveTowards(v, g)) < Abs(v)
<1> DEFINE w == MoveTowards(v, g)
<1>1. p \in Int /\ t \in Int /\ v \in Int
  BY Sizes DEF Speeds
<1>2. g \in Speeds /\ (g <= t - p \/ g = -MaxVelocity) /\ (g >= t - p \/ g = MaxVelocity)
  <2>1. t - p \in Int
    BY <1>1
  <2> QED
    BY <2>1, Sizes DEF Clip, Speeds
<1>3. /\ w \in Speeds
      /\ v <= g => v <= w /\ w <= g
      /\ v >= g => v >= w /\ w >= g
      /\ w = v => v = g
  BY <1>2, MoveTowardsFacts DEF Speeds
<1> HIDE DEF w
<1>4. g \in Int /\ w \in Int /\ -MaxVelocity <= w /\ w <= MaxVelocity /\ MaxVelocity \in Int
  BY <1>2, <1>3, Sizes DEF Speeds
<1>5. Placed(p + w) \in Positions /\ Placed(p + w) \in Int
  BY <1>4, IntFacts
<1>6. l.low \in Int /\ l.high \in Int /\ l.low <= t /\ t <= l.high
  BY SizesAssumption DEF Within
<1>7. CASE Placed(p + w) > p /\ Placed(p + w) > l.high
  <2>1. w > 0 /\ Placed(p + w) <= p + w
    BY <1>4, <1>7, PlacedBetween
  <2>2. w > t - p
    BY <1>1, <1>4, <1>5, <1>6, <1>7, <2>1
  <2>3. g < w
    BY <1>1, <1>2, <1>4, <2>1, <2>2
  <2>4. w < v /\ 0 < w
    BY <1>1, <1>3, <1>4, <2>1, <2>3
  <2> QED
    BY <1>1, <1>4, <2>4 DEF Abs, w
<1>8. CASE Placed(p + w) < p /\ Placed(p + w) < l.low
  <2>1. w < 0 /\ Placed(p + w) >= p + w
    BY <1>4, <1>8, PlacedBetween
  <2>2. w < t - p
    BY <1>1, <1>4, <1>5, <1>6, <1>8, <2>1
  <2>3. g > w
    BY <1>1, <1>2, <1>4, <2>1, <2>2
  <2>4. w > v /\ 0 > w
    BY <1>1, <1>3, <1>4, <2>1, <2>3
  <2> QED
    BY <1>1, <1>4, <2>4 DEF Abs, w
<1> QED
  BY <1>5, <1>7, <1>8, OutsideGrows DEF w

\* A cycle of the approach that does not reach its target stays on its side.
LEMMA ProductSign ==
  ASSUME NEW a \in Int, NEW b \in Int, ~(a * b <= 0)
  PROVE  (a > 0 /\ b > 0) \/ (a < 0 /\ b < 0)
OBVIOUS

LEMMA ApproachHolds ==
  ASSUME NEW d \in DriveStates, Within(d.ppTarget, d.limits) \/ d.ppTarget = d.pos,
         Outside(Approach(d).pos, d.limits) > Outside(d.pos, d.limits)
  PROVE  Abs(Approach(d).vel) < Abs(d.vel)
<1> DEFINE distance == Abs(d.ppTarget - d.pos)
           sign == IF d.ppTarget >= d.pos THEN 1 ELSE -1
           toward == sign * d.vel
           braking == toward < 0 \/ 2 * Acceleration * distance <= toward * toward
           goal == IF braking THEN 0 ELSE sign * MaxVelocity
           moved == Travel(d, goal)
           arrives == (d.ppTarget - d.pos) * (d.ppTarget - moved.pos) <= 0
           all == arrives \/ (distance = 0 /\ Abs(d.vel) <= Acceleration)
           p == d.pos
           t == d.ppTarget
           v == d.vel
           l == d.limits
<1>1. /\ p \in Positions /\ t \in Positions /\ v \in Speeds /\ l \in LimitPairs
  BY DEF DriveStates, Speeds
<1>2. p \in Int /\ t \in Int /\ v \in Int /\ l.low \in Int /\ l.high \in Int
      /\ l.low <= l.high
  <2> HIDE DEF p, t, v, l
  <2> QED
    BY <1>1, IntFacts
<1>3. Approach(d) = IF all THEN Arrived(d) ELSE moved
  BY DEF Approach, Arrived
<1>4. goal \in Goals
  <2> HIDE DEF braking
  <2> QED
    BY Sizes DEF Goals
<1>5. CASE all
  <2>1. Approach(d).pos = t
    BY <1>3, <1>5 DEF Arrived, DriveStates
  <2>2. Outside(t, l) <= Outside(p, l)
    <3>1. CASE t = p
      BY <1>2, <3>1 DEF Outside
    <3>2. CASE Within(t, l)
      BY <1>2, <3>2 DEF Outside, Within
    <3> QED
      BY <3>1, <3>2
  <2>3. Outside(t, l) \in Int /\ Outside(p, l) \in Int
    BY <1>2 DEF Outside
  <2> HIDE DEF p, t, v, l
  <2>4. ~(Outside(t, l) > Outside(p, l))
    BY <2>2, <2>3
  <2> QED
    BY <2>1, <2>4 DEF p, l
<1>6. CASE ~all
  <2>1. Approach(d) = moved
    BY <1>3, <1>6
  <2>2. ~arrives
    BY <1>6
  <2>3. goal \in Speeds
    BY <1>4, GoalTypes DEF Speeds
  <2> DEFINE w == MoveTowards(v, goal)
             q == Placed(p + w)
  <2>4. moved.pos = q /\ moved.vel = w
    BY <2>3, TravelFrame DEF Speeds
  <2>5. w \in Speeds /\ w \in Int
    <3> HIDE DEF v, goal
    <3> QED
      BY <1>1, <2>3, IntFacts
  <2>6. q \in Positions /\ q \in Int
    <3> HIDE DEF p, w
    <3> QED
      BY <1>1, <2>5, IntFacts
  <2>7. CASE braking
    <3>1. goal = 0
      BY <2>7
    <3>2. Outside(Placed(p + MoveTowards(v, 0)), l) > Outside(p, l)
      BY <2>1, <2>4, <3>1
    <3>3. Abs(MoveTowards(v, 0)) < Abs(v)
      BY <1>1, <3>2, BrakingHolds
    <3> QED
      BY <2>1, <2>4, <3>1, <3>3
  <2>8. CASE ~braking
    <3>1. ~(toward < 0)
      BY <2>8
    <3>2. (t - p > 0 /\ t - q > 0) \/ (t - p < 0 /\ t - q < 0)
      <4> HIDE DEF q, moved
      <4>1. ~((t - p) * (t - q) <= 0)
        BY <2>2, <2>4
      <4>2. t - p \in Int /\ t - q \in Int
        BY <1>2, <2>6
      <4> QED
        BY <4>1, <4>2, ProductSign
    <3>3. (q > p /\ q > l.high) \/ (q < p /\ q < l.low)
      BY <1>1, <2>1, <2>4, <2>6, OutsideGrows
    <3>4. CASE t - p > 0 /\ t - q > 0
      <4>1. sign = 1 /\ goal = MaxVelocity
        <5>1. sign = 1
          BY <1>2, <3>4
        <5> HIDE DEF braking, sign
        <5> QED
          BY <2>8, <5>1, Sizes
      <4>2. v >= 0
        BY <1>2, <3>1, <4>1
      <4>3. w >= 0
        <5> HIDE DEF v, goal
        <5>1. /\ v <= goal => v <= w
              /\ v >= goal => v >= w /\ w >= goal
              /\ v <= goal => w <= goal
          BY <1>1, <2>3, MoveTowardsFacts DEF Speeds
        <5>2. -MaxVelocity <= v /\ v <= MaxVelocity /\ MaxVelocity \in Int
              /\ MaxVelocity > 0
          BY <1>1, Sizes DEF Speeds
        <5> HIDE DEF w
        <5> QED
          BY <1>2, <2>5, <4>1, <4>2, <5>1, <5>2
      <4>4. ~(q < p)
        BY <1>1, <1>2, <2>5, <4>3, PlacedBetween
      <4>5. q > l.high /\ q > p /\ Within(t, l)
        BY <1>2, <3>3, <3>4, <4>4
      <4> HIDE DEF q, t, l, p
      <4> QED
        BY <1>2, <2>6, <3>4, <4>5 DEF Within
    <3>5. CASE t - p < 0 /\ t - q < 0
      <4>1. sign = -1 /\ goal = -MaxVelocity
        <5>1. sign = -1
          BY <1>2, <3>5
        <5> HIDE DEF braking, sign
        <5> QED
          BY <2>8, <5>1, Sizes
      <4>2. v <= 0
        BY <1>2, <3>1, <4>1
      <4>3. w <= 0
        <5> HIDE DEF v, goal
        <5>1. /\ v <= goal => v <= w
              /\ v >= goal => v >= w /\ w >= goal
              /\ v <= goal => w <= goal
          BY <1>1, <2>3, MoveTowardsFacts DEF Speeds
        <5>2. -MaxVelocity <= v /\ v <= MaxVelocity /\ MaxVelocity \in Int
              /\ MaxVelocity > 0
          BY <1>1, Sizes DEF Speeds
        <5> HIDE DEF w
        <5> QED
          BY <1>2, <2>5, <4>1, <4>2, <5>1, <5>2
      <4>4. ~(q > p)
        BY <1>1, <1>2, <2>5, <4>3, PlacedBetween
      <4>5. q < l.low /\ q < p /\ Within(t, l)
        BY <1>2, <3>3, <3>5, <4>4
      <4> HIDE DEF q, t, l, p
      <4> QED
        BY <1>2, <2>6, <3>5, <4>5 DEF Within
    <3> QED
      BY <3>2, <3>4, <3>5
  <2> QED
    BY <2>7, <2>8
<1> QED
  BY <1>5, <1>6

-----------------------------------------------------------------------------
(* The invariant of the drive                                              *)

\* In the position modes the target was accepted under the limits it was
\* checked with, or it is where the axis stands.
TargetOk(d) ==
  d.lastMode \in {"pp", "csp"} =>
    \/ Within(d.lastTarget, d.checked)
    \/ d.lastTarget = d.pos /\ d.vel = 0 /\ (d.ppActive => d.ppTarget = d.pos)

\* The same for the target that is being approached
PpOk(d) ==
  d.ppActive => Within(d.ppTarget, d.ppChecked) \/ (d.ppTarget = d.pos /\ d.vel = 0)

MotionOk(d) ==
  /\ ~Enabled(d) => Stands(d)
  /\ d.lastMode # "pp" => ~d.ppActive
  /\ TargetOk(d) /\ PpOk(d)
  /\ d.rejected => d.warning

DriveInv(d) == d \in DriveStates /\ d.sm # "fault" /\ MotionOk(d) /\ ~d.pushed

LEMMA BeforeModeInv ==
  ASSUME NEW d \in DriveStates, NEW r \in RxImages, NEW k, k = BeforeMode(d, r),
         MotionOk(d)
  PROVE  MotionOk(k) /\ Abs(k.vel) <= Abs(d.vel)
<1>1. /\ k.limits = d.limits /\ k.pos = d.pos /\ k.ppChecked = d.ppChecked
      /\ k.lastMode = k.mode
  BY BeforeModeFacts DEF SameRun
<1>2. /\ Halts(k) \/ Takes(d, k) \/ Continues(d, k)
      /\ k.rejected => k.warning
      /\ ~Enabled(k) => Stands(k)
  BY BeforeModeOutcome DEF MotionOk
<1>3. k.lastMode # "pp" => ~k.ppActive
  BY <1>1, <1>2 DEF MotionOk, Halts, Takes, Continues, Stands, GoesOn
<1>4. TargetOk(k)
  BY <1>1, <1>2 DEF MotionOk, TargetOk, Halts, Takes, Continues, Stands, GoesOn
<1>5. PpOk(k)
  BY <1>1, <1>2 DEF MotionOk, PpOk, Halts, Takes, Continues, Stands, GoesOn
<1>6. d.vel \in Speeds
  BY DEF DriveStates, Speeds
<1>7. k.vel = 0 \/ k.vel = d.vel
  BY <1>2 DEF Halts, Takes, Continues, Stands, GoesOn
<1>8. Abs(k.vel) <= Abs(d.vel)
  <2>1. d.vel \in Int
    BY <1>6, IntFacts
  <2> QED
    BY <1>7, <2>1 DEF Abs
<1> QED
  BY <1>2, <1>3, <1>4, <1>5, <1>8 DEF MotionOk

\* A cycle of travel towards nothing, of an axis that stands
LEMMA StandingTravel ==
  ASSUME NEW d \in DriveStates, d.vel = 0
  PROVE  Travel(d, 0).vel = 0 /\ Travel(d, 0).pos = d.pos
<1>1. 0 \in (-MaxVelocity)..MaxVelocity /\ 0 \in Speeds /\ d.pos \in Positions
  BY Sizes DEF DriveStates, Speeds
<1>2. MoveTowards(0, 0) = 0
  BY <1>1, Braking
<1> QED
  BY <1>1, <1>2, TravelFrame, PlacedBetween

\* An approach of an axis that stands at its target ends there.
LEMMA StandingApproach ==
  ASSUME NEW d \in DriveStates, d.ppTarget = d.pos
  PROVE  Approach(d) = Arrived(d)
<1> DEFINE goal == IF \/ (IF d.ppTarget >= d.pos THEN 1 ELSE -1) * d.vel < 0
                      \/ 2 * Acceleration * Abs(d.ppTarget - d.pos)
                           <= ((IF d.ppTarget >= d.pos THEN 1 ELSE -1) * d.vel)
                                * ((IF d.ppTarget >= d.pos THEN 1 ELSE -1) * d.vel)
                   THEN 0 ELSE (IF d.ppTarget >= d.pos THEN 1 ELSE -1) * MaxVelocity
           q == Travel(d, goal).pos
           rest == Abs(d.ppTarget - d.pos) = 0 /\ Abs(d.vel) <= Acceleration
<1>1. Approach(d) = IF ((d.ppTarget - d.pos) * (d.ppTarget - q) <= 0) \/ rest
                    THEN Arrived(d) ELSE Travel(d, goal)
  BY DEF Approach, Arrived
<1>2. goal \in Goals
  <2> DEFINE b == \/ (IF d.ppTarget >= d.pos THEN 1 ELSE -1) * d.vel < 0
                      \/ 2 * Acceleration * Abs(d.ppTarget - d.pos)
                           <= ((IF d.ppTarget >= d.pos THEN 1 ELSE -1) * d.vel)
                                * ((IF d.ppTarget >= d.pos THEN 1 ELSE -1) * d.vel)
  <2>1. goal = IF b THEN 0 ELSE (IF d.ppTarget >= d.pos THEN 1 ELSE -1) * MaxVelocity
    OBVIOUS
  <2> HIDE DEF b, goal
  <2> QED
    BY <2>1, Sizes DEF Goals
<1> HIDE DEF goal, rest
<1>3. Travel(d, goal) \in DriveStates
  BY <1>2, GoalTypes, TravelType
<1>4. q \in Positions /\ d.pos \in Positions
  BY <1>3 DEF DriveStates
<1> HIDE DEF q
<1>5. d.pos \in Int /\ q \in Int
  BY <1>4, IntFacts
<1>6. (d.ppTarget - d.pos) * (d.ppTarget - q) <= 0
  BY <1>5
<1> QED
  BY <1>1, <1>6

\* The drive moves further out of the limits l only slower than before.
Restrained(d, e, l) ==
  Outside(e.pos, l) > Outside(d.pos, l) => Abs(e.vel) < Abs(d.vel)

LEMMA DecelerationFacts ==
  ASSUME NEW d \in DriveStates, NEW e, e = Decelerated(d)
  PROVE  /\ Restrained(d, e, d.limits)
         /\ d.vel = 0 => e.vel = 0 /\ e.pos = d.pos
         /\ Abs(e.vel) <= Abs(d.vel)
         /\ e.ppActive = d.ppActive /\ e.ppTarget = d.ppTarget
         /\ SameSetup(d, e)
<1>1. 0 \in (-MaxVelocity)..MaxVelocity /\ d.vel \in Speeds /\ d.pos \in Positions
      /\ d.limits \in LimitPairs
  BY Sizes DEF DriveStates, Speeds
<1>2. /\ e.vel = MoveTowards(d.vel, 0) /\ e.pos = Placed(d.pos + MoveTowards(d.vel, 0))
      /\ e.ppActive = d.ppActive /\ e.ppTarget = d.ppTarget
      /\ SameSetup(d, e)
  BY <1>1, TravelFrame DEF Decelerated
<1>3. Restrained(d, e, d.limits)
  BY <1>1, <1>2, BrakingHolds DEF Restrained
<1>4. d.vel = 0 => e.vel = 0 /\ e.pos = d.pos
  BY StandingTravel DEF Decelerated
<1>5. Abs(e.vel) <= Abs(d.vel)
  BY <1>1, <1>2, Braking
<1> QED
  BY <1>2, <1>3, <1>4, <1>5

LEMMA PpGoingFacts ==
  ASSUME NEW k \in DriveStates, NEW g, g = PpGoing(k)
  PROVE  /\ SameSetup(k, g) /\ g.pos = k.pos /\ g.vel = k.vel
         /\ g.ack = k.word.b4
         /\ Edge(k) => g.ppTarget = k.target /\ g.ppChecked = k.checked /\ g.ppActive
         /\ ~Edge(k) => /\ g.ppTarget = k.ppTarget /\ g.ppChecked = k.ppChecked
                        /\ g.ppActive = k.ppActive
<1> DEFINE s == PpStart(k)
<1>1. s \in DriveStates
  BY PpStartType
<1>2. SameSetup(k, s) /\ s.pos = k.pos /\ s.vel = k.vel
  BY DEF PpStart, SameSetup, DriveStates
<1>3. /\ Edge(k) => s.ppTarget = k.target /\ s.ppChecked = k.checked /\ s.ppActive
      /\ ~Edge(k) => /\ s.ppTarget = k.ppTarget /\ s.ppChecked = k.ppChecked
                     /\ s.ppActive = k.ppActive
  BY DEF PpStart, DriveStates
<1>4. g = [s EXCEPT !.ack = k.word.b4]
  BY DEF PpGoing
<1> HIDE DEF s
<1>5. SameSetup(s, g) /\ g.pos = s.pos /\ g.vel = s.vel
  BY <1>1, <1>4 DEF SameSetup, DriveStates
<1>6. g.ack = k.word.b4 /\ g.ppTarget = s.ppTarget /\ g.ppChecked = s.ppChecked
      /\ g.ppActive = s.ppActive
  BY <1>1, <1>4 DEF DriveStates
<1> QED
  BY <1>2, <1>3, <1>5, <1>6 DEF SameSetup

LEMMA PursuedFacts ==
  ASSUME NEW g \in DriveStates, NEW e, e = Pursued(g), PpOk(g)
  PROVE  /\ g.limits = g.ppChecked \/ ~g.ppActive => Restrained(g, e, g.limits)
         /\ g.vel = 0 /\ (g.ppActive => g.ppTarget = g.pos)
              => e.vel = 0 /\ e.pos = g.pos /\ ~e.ppActive
         /\ PpOk(e)
<1>0. e.ppTarget = g.ppTarget /\ e.ppChecked = g.ppChecked /\ (e.ppActive => g.ppActive)
  BY PursuedFrame
<1>1. CASE ~g.ppActive
  BY <1>0, <1>1, DecelerationFacts DEF Pursued, PpOk
<1>2. CASE g.ppActive
  <2>1. e = Approach(g)
    BY <1>2 DEF Pursued
  <2>2. g.limits = g.ppChecked => Restrained(g, e, g.limits)
    BY <1>2, <2>1, ApproachHolds DEF PpOk, Restrained
  <2>3. g.ppTarget = g.pos => e.vel = 0 /\ e.pos = g.pos /\ ~e.ppActive
    <3>1. /\ Arrived(g).vel = 0 /\ Arrived(g).pos = g.ppTarget
          /\ Arrived(g).ppActive = FALSE
      BY DEF Arrived, DriveStates
    <3> QED
      BY <2>1, <3>1, StandingApproach
  <2>4. PpOk(e)
    BY <1>0, <1>2, <2>3 DEF PpOk
  <2> QED
    BY <1>2, <2>2, <2>3, <2>4
<1> QED
  BY <1>1, <1>2

LEMMA ProfilePositionInv ==
  ASSUME NEW k \in DriveStates, MotionOk(k), k.lastMode = "pp",
         k.target = k.lastTarget, NEW e, e = ProfilePosition(k), Enabled(k)
  PROVE  /\ MotionOk(e)
         /\ k.limits = e.ppChecked => Restrained(k, e, k.limits)
<1>1. SameSetup(k, e)
  BY ProfilePositionFrame
<1>2. CASE PpRefuses(k)
  <2> DEFINE h == PpHalted(k)
  <2>1. e = Decelerated(h)
    BY <1>2, ProfilePositionIs
  <2>2. h \in DriveStates /\ h.vel = k.vel /\ h.pos = k.pos /\ h.limits = k.limits
        /\ ~h.ppActive
    <3>1. h.vel = k.vel /\ h.pos = k.pos /\ h.limits = k.limits /\ h.ppActive = FALSE
      BY DEF PpHalted, DriveStates
    <3> HIDE DEF h
    <3> QED
      BY <3>1, PpHaltedType DEF h
  <2> HIDE DEF h
  <2>3. Restrained(k, e, k.limits) /\ ~e.ppActive
        /\ (k.vel = 0 => e.vel = 0 /\ e.pos = k.pos)
    BY <2>1, <2>2, DecelerationFacts DEF Restrained
  <2> QED
    BY <1>1, <2>3 DEF MotionOk, TargetOk, PpOk, SameSetup, Enabled
<1>3. CASE ~PpRefuses(k)
  <2> DEFINE g == PpGoing(k)
  <2>1. e = Pursued(g)
    BY <1>3, ProfilePositionIs
  <2>2. g \in DriveStates
    BY PpGoingType
  <2>3. /\ SameSetup(k, g) /\ g.pos = k.pos /\ g.vel = k.vel
        /\ Edge(k) => g.ppTarget = k.target /\ g.ppChecked = k.checked /\ g.ppActive
        /\ ~Edge(k) => /\ g.ppTarget = k.ppTarget /\ g.ppChecked = k.ppChecked
                       /\ g.ppActive = k.ppActive
    BY PpGoingFacts
  <2> HIDE DEF g
  <2>4. PpOk(g)
    BY <2>3 DEF MotionOk, TargetOk, PpOk
  <2>5. /\ g.limits = g.ppChecked \/ ~g.ppActive => Restrained(g, e, g.limits)
        /\ g.vel = 0 /\ (g.ppActive => g.ppTarget = g.pos)
             => e.vel = 0 /\ e.pos = g.pos /\ ~e.ppActive
        /\ PpOk(e)
    BY <2>1, <2>2, <2>4, PursuedFacts
  <2>6. e.ppChecked = g.ppChecked
    BY <2>1, <2>2, PursuedFrame
  <2>7. k.limits = e.ppChecked => Restrained(k, e, k.limits)
    BY <2>3, <2>5, <2>6 DEF Restrained, SameSetup
  <2>8. TargetOk(e)
    BY <1>1, <2>3, <2>5 DEF MotionOk, TargetOk, SameSetup
  <2> QED
    BY <1>1, <2>5, <2>7, <2>8 DEF MotionOk, SameSetup, Enabled
<1> QED
  BY <1>2, <1>3

LEMMA CyclicInv ==
  ASSUME NEW k \in DriveStates, MotionOk(k), k.lastMode = "csp",
         k.target = k.lastTarget, NEW e, e = Travel(k, CspGoal(k)), Enabled(k)
  PROVE  /\ MotionOk(e)
         /\ k.limits = e.checked => Restrained(k, e, k.limits)
<1>1. CspGoal(k) \in (-MaxVelocity)..MaxVelocity
  BY CyclicIs
<1>2. /\ SameSetup(k, e) /\ e.ppActive = k.ppActive
      /\ e.vel = MoveTowards(k.vel, CspGoal(k))
      /\ e.pos = Placed(k.pos + MoveTowards(k.vel, CspGoal(k)))
  BY <1>1, TravelFrame
<1>3. k.pos \in Positions /\ k.target \in Positions /\ k.vel \in Speeds
      /\ k.limits \in LimitPairs /\ k.pos \in Int
  <2>1. k.pos \in Positions /\ k.target \in Positions /\ k.vel \in Speeds
        /\ k.limits \in LimitPairs
    BY DEF DriveStates, Speeds
  <2> QED
    BY <2>1, IntFacts
<1>4. k.target = k.pos => CspGoal(k) = 0
  <2>1. \A p \in Positions : Clip(p - p, MaxVelocity) = 0
    BY IntFacts, Sizes DEF Clip
  <2> QED
    BY <1>3, <2>1 DEF CspGoal
<1>5. CASE CspGoal(k) = 0
  <2>1. Restrained(k, e, k.limits)
    BY <1>2, <1>3, <1>5, BrakingHolds DEF Restrained
  <2>2. k.vel = 0 => e.vel = 0 /\ e.pos = k.pos
    BY <1>5, StandingTravel
  <2> QED
    BY <1>2, <2>1, <2>2 DEF MotionOk, TargetOk, PpOk, SameSetup, Enabled
<1>6. CASE CspGoal(k) # 0
  <2>1. CspGoal(k) = Clip(k.target - k.pos, MaxVelocity)
    BY <1>6 DEF CspGoal
  <2>2. Within(k.target, k.checked)
    BY <1>4, <1>6 DEF MotionOk, TargetOk
  <2>3. k.limits = e.checked => Restrained(k, e, k.limits)
    BY <1>2, <1>3, <2>1, <2>2, CyclicHolds DEF Restrained, SameSetup
  <2> QED
    BY <1>2, <2>2, <2>3 DEF MotionOk, TargetOk, PpOk, SameSetup, Enabled
<1> QED
  BY <1>5, <1>6

LEMMA ModeInv ==
  ASSUME NEW k \in DriveStates, MotionOk(k), k.lastMode = k.mode,
         k.target = k.lastTarget, NEW e, e = ProcessMode(k)
  PROVE  /\ MotionOk(e)
         /\ e.mode = "pp" /\ k.limits = e.ppChecked => Restrained(k, e, k.limits)
         /\ e.mode = "csp" /\ k.limits = e.checked => Restrained(k, e, k.limits)
<1>0. /\ SameSetup(k, e) /\ e \in DriveStates
      /\ k.mode # "pp" => e.ppActive = k.ppActive
  BY ProcessModeFacts
<1>1. CASE ~Enabled(k) /\ e = k
  <2>1. k.pos \in Positions /\ k.limits \in LimitPairs
    BY DEF DriveStates
  <2>2. Outside(k.pos, k.limits) \in Int
    <3>1. ASSUME NEW p \in Positions, NEW l \in LimitPairs
          PROVE  Outside(p, l) \in Int
      <4>1. p \in Int /\ l.low \in Int /\ l.high \in Int
        BY IntFacts
      <4> QED
        BY <4>1 DEF Outside
    <3> QED
      BY <2>1, <3>1
  <2> QED
    BY <1>1, <2>2 DEF Restrained
<1>2. CASE Enabled(k) /\ k.mode = "pp" /\ e = ProfilePosition(k)
  BY <1>0, <1>2, ProfilePositionInv DEF SameSetup
<1>3. CASE Enabled(k) /\ k.mode = "csp" /\ e = Travel(k, CspGoal(k))
  BY <1>0, <1>3, CyclicInv DEF SameSetup
<1>4. CASE Enabled(k) /\ k.mode \in {"pv", "jog", "homing"}
  BY <1>0, <1>4 DEF MotionOk, TargetOk, PpOk, SameSetup, Enabled
<1> QED
  BY <1>1, <1>2, <1>3, <1>4, ModeCases

-----------------------------------------------------------------------------
(* One exchange                                                            *)

\* The status word is that of the drive.
StatusOk(d) ==
  /\ d.status.enabled = Enabled(d) /\ d.status.ack = d.ack
  /\ d.status.referenced = d.referenced /\ d.status.warning = LimitActive(d)

LEMMA ReportedFacts ==
  ASSUME NEW d \in DriveStates, NEW e, e = Reported(d)
  PROVE  /\ e \in DriveStates /\ StatusOk(e) /\ e.previous = d.word
         /\ e.sm = d.sm /\ e.word = d.word /\ e.mode = d.mode
         /\ e.lastMode = d.lastMode /\ e.lastTarget = d.lastTarget
         /\ e.target = d.target /\ e.ppTarget = d.ppTarget
         /\ e.ppActive = d.ppActive /\ e.ppChecked = d.ppChecked
         /\ e.limits = d.limits /\ e.checked = d.checked /\ e.warning = d.warning
         /\ e.rejected = d.rejected /\ e.resetCommand = d.resetCommand
         /\ e.lastReset = d.lastReset /\ e.pushed = d.pushed
         /\ e.pos = d.pos /\ e.vel = d.vel /\ e.ack = d.ack
         /\ e.referenced = d.referenced /\ e.zeroed = d.zeroed
<1> DEFINE s == [enabled |-> Enabled(d), ack |-> d.ack, referenced |-> d.referenced,
                 warning |-> LimitActive(d)]
<1>1. s \in [enabled : BOOLEAN, ack : BOOLEAN, referenced : BOOLEAN, warning : BOOLEAN]
  <2>1. Enabled(d) \in BOOLEAN /\ LimitActive(d) \in BOOLEAN
    BY DEF Enabled, LimitActive
  <2>2. d.ack \in BOOLEAN /\ d.referenced \in BOOLEAN
    BY DEF DriveStates
  <2> QED
    BY <2>1, <2>2
<1>2. e = [d EXCEPT !.previous = d.word, !.status = s]
  BY DEF Reported
<1>3. s.enabled = Enabled(d) /\ s.ack = d.ack /\ s.referenced = d.referenced
      /\ s.warning = LimitActive(d)
  OBVIOUS
<1> HIDE DEF s
<1>4. e \in DriveStates
  BY <1>1, <1>2 DEF DriveStates
<1>5. /\ e.status = s /\ e.previous = d.word
      /\ e.sm = d.sm /\ e.word = d.word /\ e.mode = d.mode
      /\ e.lastMode = d.lastMode /\ e.lastTarget = d.lastTarget
      /\ e.target = d.target /\ e.ppTarget = d.ppTarget
      /\ e.ppActive = d.ppActive /\ e.ppChecked = d.ppChecked
      /\ e.limits = d.limits /\ e.checked = d.checked /\ e.warning = d.warning
  BY <1>2 DEF DriveStates
<1>6. /\ e.rejected = d.rejected /\ e.resetCommand = d.resetCommand
      /\ e.lastReset = d.lastReset /\ e.pushed = d.pushed
      /\ e.pos = d.pos /\ e.vel = d.vel /\ e.ack = d.ack
      /\ e.referenced = d.referenced /\ e.zeroed = d.zeroed
  BY <1>2 DEF DriveStates
<1>7. StatusOk(e)
  BY <1>3, <1>5, <1>6 DEF StatusOk, Enabled, LimitActive
<1> QED
  BY <1>4, <1>5, <1>6, <1>7

\* The drive after an exchange, against the drive n that its mode left
Ends(n, e) ==
  /\ StatusOk(e) /\ e.previous = n.word
  /\ e.sm = n.sm /\ e.word = n.word /\ e.mode = n.mode
  /\ e.lastMode = n.lastMode /\ e.lastTarget = n.lastTarget
  /\ e.target = n.target /\ e.ppTarget = n.ppTarget
  /\ e.ppActive = n.ppActive /\ e.ppChecked = n.ppChecked
  /\ e.limits = n.limits /\ e.checked = n.checked /\ e.warning = n.warning
  /\ e.rejected = n.rejected /\ e.resetCommand = n.resetCommand
  /\ e.lastReset = n.lastReset
  /\ e.pos = n.pos /\ e.vel = n.vel /\ e.ack = n.ack
  /\ e.referenced = n.referenced /\ e.zeroed = n.zeroed

AfterMode(d, r) == ProcessMode(BeforeMode(d, r))

LEMMA ExchangedEnds ==
  ASSUME NEW d \in DriveStates, NEW r \in RxImages, NEW e, e = Exchanged(d, r)
  PROVE  /\ e \in DriveStates /\ Ends(AfterMode(d, r), e)
         /\ e.pushed = (d.pushed \/ Pushes(d, e))
<1> DEFINE k == BeforeMode(d, r)
           n == AfterMode(d, r)
           c == Cycled(d, r)
<1>1. k \in DriveStates /\ SameRun(d, k)
  BY StageTypes, BeforeModeFacts
<1>2. n = ProcessMode(k)
  BY DEF AfterMode
<1> HIDE DEF k
<1>3. n \in DriveStates /\ SameSetup(k, n)
  BY <1>1, <1>2, ProcessModeFacts
<1> HIDE DEF n
<1>4. c = Reported(n)
  BY <1>2 DEF Cycled, ProcessCycle, k, BeforeMode
<1>5. c \in DriveStates /\ Ends(n, c) /\ c.pushed = n.pushed
  BY <1>3, <1>4, ReportedFacts DEF Ends
<1> HIDE DEF c
<1>6. c.pushed = d.pushed
  BY <1>1, <1>3, <1>5 DEF SameRun, SameSetup
<1> DEFINE b == c.pushed \/ Pushes(d, c)
<1>7. b \in BOOLEAN
  BY DEF Pushes
<1> HIDE DEF b
<1>8. e = [c EXCEPT !.pushed = b]
  BY <1>5 DEF Exchanged, c, b, DriveStates
<1>9. e \in DriveStates /\ e.pushed = b
  BY <1>5, <1>7, <1>8 DEF DriveStates
<1>10. Ends(n, e)
  <2>1. e.status = c.status /\ e.ack = c.ack /\ e.referenced = c.referenced
        /\ e.warning = c.warning /\ e.sm = c.sm /\ e.pos = c.pos /\ e.limits = c.limits
    BY <1>5, <1>8 DEF DriveStates
  <2>2. StatusOk(e)
    BY <1>5, <2>1 DEF Ends, StatusOk, Enabled, LimitActive
  <2>3. /\ e.previous = c.previous /\ e.word = c.word /\ e.mode = c.mode
        /\ e.lastMode = c.lastMode /\ e.lastTarget = c.lastTarget
        /\ e.target = c.target /\ e.ppTarget = c.ppTarget
        /\ e.ppActive = c.ppActive /\ e.ppChecked = c.ppChecked
        /\ e.checked = c.checked /\ e.rejected = c.rejected
    BY <1>5, <1>8 DEF DriveStates
  <2>4. /\ e.resetCommand = c.resetCommand /\ e.lastReset = c.lastReset
        /\ e.vel = c.vel /\ e.zeroed = c.zeroed
    BY <1>5, <1>8 DEF DriveStates
  <2> QED
    BY <1>5, <2>1, <2>2, <2>3, <2>4 DEF Ends
<1>11. Pushes(d, e) <=> Pushes(d, c)
  BY <1>5, <1>10 DEF Pushes, Ends
<1> QED
  BY <1>6, <1>9, <1>10, <1>11 DEF n, b

\* What every exchange does, whatever the state of the drive
LEMMA ExchangeFacts ==
  ASSUME NEW d \in DriveStates, NEW r \in RxImages, NEW e, e = Exchanged(d, r)
  PROVE  /\ e \in DriveStates /\ StatusOk(e)
         /\ e.word = EffectiveWord(d, r) /\ e.previous = e.word
         /\ e.mode = EffectiveMode(d, r) /\ e.lastMode = e.mode
         /\ e.sm = StateAfter(d.sm, EffectiveWord(d, r))
         /\ e.limits = d.limits /\ e.resetCommand = d.resetCommand
         /\ e.lastReset = d.resetCommand
         /\ d.zeroed => e.zeroed
         /\ e.referenced => d.referenced \/ e.zeroed
         /\ e.mode # "homing" \/ ~Enabled(e)
              => e.referenced = d.referenced /\ e.zeroed = d.zeroed
<1> DEFINE k == BeforeMode(d, r)
           n == AfterMode(d, r)
<1>1. k \in DriveStates
  BY StageTypes
<1>2. /\ SameRun(d, k) /\ k.lastReset = d.resetCommand
      /\ k.word = EffectiveWord(d, r)
      /\ k.mode = EffectiveMode(d, r) /\ k.lastMode = k.mode
      /\ k.sm = StateAfter(d.sm, k.word)
  BY BeforeModeFacts
<1>3. n = ProcessMode(k)
  BY DEF AfterMode
<1>4. e \in DriveStates /\ Ends(n, e)
  BY ExchangedEnds
<1> HIDE DEF k, n
<1>5. /\ SameSetup(k, n)
      /\ k.zeroed => n.zeroed
      /\ n.referenced => k.referenced \/ n.zeroed
      /\ k.mode # "homing" => SameReference(k, n)
      /\ ~Enabled(k) => n = k
  BY <1>1, <1>3, ProcessModeFacts
<1> QED
  BY <1>2, <1>4, <1>5 DEF SameRun, SameSetup, SameReference, Ends, Enabled

LEMMA ExchangeInv ==
  ASSUME NEW d, DriveInv(d), NEW r \in RxImages, NEW e, e = Exchanged(d, r)
  PROVE  DriveInv(e)
<1> DEFINE k == BeforeMode(d, r)
           n == AfterMode(d, r)
<1>0. d \in DriveStates /\ MotionOk(d) /\ ~d.pushed /\ d.sm # "fault"
  BY DEF DriveInv
<1>1. k \in DriveStates /\ MotionOk(k) /\ Abs(k.vel) <= Abs(d.vel)
  BY <1>0, StageTypes, BeforeModeInv
<1>2. /\ k.pos = d.pos /\ k.limits = d.limits /\ k.lastMode = k.mode
      /\ k.target = k.lastTarget /\ k.word = EffectiveWord(d, r)
      /\ k.sm = StateAfter(d.sm, k.word)
  BY <1>0, BeforeModeFacts DEF SameRun
<1>3. n = ProcessMode(k)
  BY DEF AfterMode
<1>4. e \in DriveStates /\ Ends(n, e) /\ e.pushed = (d.pushed \/ Pushes(d, e))
  BY <1>0, ExchangedEnds
<1> HIDE DEF k, n
<1>5. /\ MotionOk(n)
      /\ n.mode = "pp" /\ k.limits = n.ppChecked => Restrained(k, n, k.limits)
      /\ n.mode = "csp" /\ k.limits = n.checked => Restrained(k, n, k.limits)
  BY <1>1, <1>2, <1>3, ModeInv
<1>6. SameSetup(k, n) /\ n \in DriveStates
  BY <1>1, <1>3, ProcessModeFacts
<1>7. ~Pushes(d, e)
  <2> SUFFICES ASSUME Pushes(d, e) PROVE FALSE
    OBVIOUS
  <2>1. /\ \/ n.mode = "pp" /\ k.limits = n.ppChecked
           \/ n.mode = "csp" /\ k.limits = n.checked
        /\ Outside(n.pos, k.limits) > Outside(k.pos, k.limits)
        /\ Abs(n.vel) >= Abs(d.vel)
    BY <1>2, <1>4, <1>6 DEF Pushes, Ends, SameSetup
  <2>2. Abs(n.vel) < Abs(k.vel)
    BY <1>5, <2>1 DEF Restrained
  <2>3. Abs(n.vel) \in Int /\ Abs(k.vel) \in Int /\ Abs(d.vel) \in Int
    <3>1. n.vel \in Speeds /\ k.vel \in Speeds /\ d.vel \in Speeds
      BY <1>0, <1>1, <1>6 DEF DriveStates, Speeds
    <3>2. \A v \in Speeds : Abs(v) \in Int
      BY IntFacts DEF Abs
    <3> QED
      BY <3>1, <3>2
  <2> QED
    BY <1>1, <2>1, <2>2, <2>3
<1>8. e.sm # "fault"
  <2>1. k.word \in Words /\ d.sm \in {"off", "ready", "on", "enabled", "fault"}
    BY <1>0, <1>1 DEF DriveStates
  <2> QED
    BY <1>0, <1>2, <1>4, <1>6, <2>1, StateAfterType DEF Ends, SameSetup
<1>9. MotionOk(e)
  BY <1>4, <1>5 DEF MotionOk, Ends, Enabled, Stands, TargetOk, PpOk
<1> QED
  BY <1>0, <1>4, <1>7, <1>8, <1>9 DEF DriveInv

-----------------------------------------------------------------------------
(* The exchanges of a handler                                              *)

(* Induction over the naturals, for a set of them                          *)
LEMMA SetInduction ==
  ASSUME NEW T \in SUBSET Nat, 0 \in T, \A n \in T : n + 1 \in T
  PROVE  \A n \in Nat : n \in T
<1> SUFFICES ASSUME NEW m \in Nat, m \notin T
             PROVE  FALSE
  OBVIOUS
<1> DEFINE R == OpToRel(<, Nat)
           U == Nat \ T
<1>1. \A x, y \in Nat : <<x, y>> \in R <=> x < y
  BY DEF OpToRel
<1>2. IsWellFoundedOn(R, Nat)
  BY NatLessThanWellFounded
<1>3. U \subseteq Nat /\ U # {}
  OBVIOUS
<1> HIDE DEF R, U
<1>4. PICK x \in U : \A y \in U : ~(<<y, x>> \in R)
  BY <1>2, <1>3, WFMin
<1>5. x \in Nat /\ x \notin T
  BY DEF U
<1>6. x - 1 \in Nat /\ x - 1 < x /\ (x - 1) + 1 = x
  BY <1>5
<1>7. x - 1 \in T
  BY <1>1, <1>4, <1>5, <1>6 DEF U
<1> QED
  BY <1>5, <1>6, <1>7

\* f holds the states that the first k words lead to, from p.
IsRun(f, p, words, k) ==
  f = [n \in 0..k |-> IF n = 0 THEN p ELSE Send(f[n - 1], words[n])]

LEMMA RunExists ==
  ASSUME NEW p, NEW words, NEW k \in Nat
  PROVE  \E f : IsRun(f, p, words, k)
<1> DEFINE T == {j \in Nat : \E f : IsRun(f, p, words, j)}
<1>1. 0 \in T
  <2>1. IsRun([i \in 0..0 |-> p], p, words, 0)
    BY DEF IsRun
  <2> QED
    BY <2>1
<1>2. ASSUME NEW j \in T
      PROVE  j + 1 \in T
  <2>1. PICK f : IsRun(f, p, words, j)
    OBVIOUS
  <2> DEFINE g == [i \in 0..j + 1 |-> IF i <= j THEN f[i] ELSE Send(f[j], words[j + 1])]
  <2>2. j \in Nat /\ \A i \in 0..j : f[i] = IF i = 0 THEN p ELSE Send(f[i - 1], words[i])
    BY <2>1 DEF IsRun
  <2>3. \A i \in 0..j + 1 : g[i] = IF i = 0 THEN p ELSE Send(g[i - 1], words[i])
    <3> SUFFICES ASSUME NEW i \in 0..j + 1
                 PROVE  g[i] = IF i = 0 THEN p ELSE Send(g[i - 1], words[i])
      OBVIOUS
    <3>1. CASE i <= j
      <4>1. i # 0 => i - 1 \in 0..j + 1 /\ i - 1 <= j
        BY <2>2, <3>1
      <4> QED
        BY <2>2, <3>1, <4>1
    <3>2. CASE ~(i <= j)
      <4>1. i = j + 1 /\ i - 1 = j /\ j \in 0..j + 1 /\ i # 0
        BY <2>2, <3>2
      <4> QED
        BY <2>2, <3>2, <4>1
    <3> QED
      BY <3>1, <3>2
  <2>4. IsRun(g, p, words, j + 1)
    BY <2>3 DEF IsRun
  <2> QED
    BY <2>2, <2>4
<1>3. k \in T
  BY <1>1, <1>2, SetInduction
<1> QED
  BY <1>3

LEMMA SendAllIs ==
  ASSUME NEW p, NEW words \in Seq(Words)
  PROVE  \E f : IsRun(f, p, words, Len(words)) /\ SendAll(p, words) = f[Len(words)]
<1>0. Len(words) \in Nat
  OBVIOUS
<1>1. \E f : IsRun(f, p, words, Len(words))
  BY <1>0, RunExists
<1> DEFINE h == CHOOSE f : IsRun(f, p, words, Len(words))
<1>2. IsRun(h, p, words, Len(words))
  BY <1>1
<1>3. SendAll(p, words) = h[Len(words)]
  BY DEF SendAll, IsRun
<1> QED
  BY <1>2, <1>3

(* Q[n] is a set of states that the first n words lead to.                 *)
LEMMA SendAllLeads ==
  ASSUME NEW words \in Seq(Words), NEW Q, NEW p \in Q[0],
         \A n \in 1..Len(words) : \A q \in Q[n - 1] : Send(q, words[n]) \in Q[n]
  PROVE  SendAll(p, words) \in Q[Len(words)]
<1>1. PICK f : IsRun(f, p, words, Len(words)) /\ SendAll(p, words) = f[Len(words)]
  BY SendAllIs
<1> DEFINE N == Len(words)
<1>2. N \in Nat
  OBVIOUS
<1> HIDE DEF N
<1>3. \A n \in 0..N : f[n] = IF n = 0 THEN p ELSE Send(f[n - 1], words[n])
  BY <1>1 DEF IsRun, N
<1> DEFINE T == {n \in Nat : n <= N => f[n] \in Q[n]}
<1>4. 0 \in T
  BY <1>2, <1>3
<1>5. ASSUME NEW n \in T
      PROVE  n + 1 \in T
  <2> SUFFICES ASSUME n + 1 <= N
               PROVE  f[n + 1] \in Q[n + 1]
    OBVIOUS
  <2>1. n \in Nat /\ n <= N /\ n + 1 \in 1..N /\ n + 1 \in 0..N /\ (n + 1) - 1 = n
        /\ n + 1 # 0
    BY <1>2
  <2>2. f[n + 1] = Send(f[n], words[n + 1])
    BY <1>3, <2>1
  <2>3. f[n] \in Q[n]
    BY <2>1
  <2>4. \A q \in Q[(n + 1) - 1] : Send(q, words[n + 1]) \in Q[n + 1]
    BY <2>1 DEF N
  <2> QED
    BY <2>1, <2>2, <2>3, <2>4
<1>6. N \in T
  BY <1>2, <1>4, <1>5, SetInduction
<1> QED
  BY <1>1, <1>2, <1>6 DEF N

\* A set that every word keeps
LEMMA SendAllKeeps ==
  ASSUME NEW words \in Seq(Words), NEW Q, NEW p \in Q,
         \A n \in 1..Len(words) : \A q \in Q : Send(q, words[n]) \in Q
  PROVE  SendAll(p, words) \in Q
<1> DEFINE F == [n \in 0..Len(words) |-> Q]
<1>1. p \in F[0] /\ F[Len(words)] = Q
  OBVIOUS
<1>2. \A n \in 1..Len(words) : F[n - 1] = Q /\ F[n] = Q
  OBVIOUS
<1> HIDE DEF F
<1> QED
  BY <1>1, <1>2, SendAllLeads

\* A set that the first word leads to and every word keeps
LEMMA SendAllReaches ==
  ASSUME NEW words \in Seq(Words), Len(words) > 0, NEW p, NEW Q,
         Send(p, words[1]) \in Q,
         \A n \in 2..Len(words) : \A q \in Q : Send(q, words[n]) \in Q
  PROVE  SendAll(p, words) \in Q
<1> DEFINE F == [n \in 0..Len(words) |-> IF n = 0 THEN {p} ELSE Q]
<1>1. p \in F[0] /\ F[Len(words)] = Q
  OBVIOUS
<1>2. ASSUME NEW n \in 1..Len(words), NEW q \in F[n - 1]
      PROVE  Send(q, words[n]) \in F[n]
  <2>1. CASE n = 1
    BY <1>2, <2>1
  <2>2. CASE n # 1
    <3>1. n \in 2..Len(words) /\ n - 1 # 0 /\ n - 1 \in 0..Len(words)
          /\ n \in 0..Len(words) /\ n # 0
      BY <2>2
    <3>2. q \in Q /\ F[n] = Q
      BY <1>2, <3>1
    <3> QED
      BY <3>1, <3>2
  <2> QED
    BY <2>1, <2>2
<1> HIDE DEF F
<1> QED
  BY <1>1, <1>2, SendAllLeads

LEMMA TimesFacts ==
  ASSUME NEW n \in Nat, NEW w \in Words
  PROVE  /\ Times(n, w) \in Seq(Words) /\ Len(Times(n, w)) = n
         /\ \A i \in 1..n : Times(n, w)[i] = w
BY DEF Times

LEMMA TimesKeeps ==
  ASSUME NEW n \in Nat, NEW w \in Words, NEW Q, NEW p \in Q,
         \A q \in Q : Send(q, w) \in Q
  PROVE  SendAll(p, Times(n, w)) \in Q
BY TimesFacts, SendAllKeeps

LEMMA TimesReaches ==
  ASSUME NEW n \in Nat, n > 0, NEW w \in Words, NEW p, NEW Q,
         Send(p, w) \in Q, \A q \in Q : Send(q, w) \in Q
  PROVE  SendAll(p, Times(n, w)) \in Q
<1>1. /\ Times(n, w) \in Seq(Words) /\ Len(Times(n, w)) = n
      /\ \A i \in 1..n : Times(n, w)[i] = w
  BY TimesFacts
<1>2. Times(n, w)[1] = w /\ \A i \in 2..n : Times(n, w)[i] = w
  BY <1>1
<1> QED
  BY <1>1, <1>2, SendAllReaches

-----------------------------------------------------------------------------
(* What a handler reaches                                                  *)

Pairs == [rx : RxImages, drive : DriveStates]

\* The images and the drive between two exchanges
Good(p) == p \in Pairs /\ DriveInv(p.drive)

\* What the last exchange has left
Settled(p) ==
  /\ p.drive.status.enabled = Enabled(p.drive)
  /\ p.drive.status.referenced = p.drive.referenced
  /\ p.drive.lastMode = p.drive.mode
  /\ p.drive.mode # p.rx.mode => p.drive.sm = "off"

\* No device reset is due.
Quiet(p) == p.drive.lastReset = p.drive.resetCommand

\* The reference of q against that of the earlier p
Follows(p, q) ==
  /\ q.drive.limits = p.drive.limits
  /\ p.drive.zeroed => q.drive.zeroed
  /\ q.drive.referenced => p.drive.referenced \/ q.drive.zeroed

SameRequest(p, q) ==
  q.rx.mode = p.rx.mode /\ q.rx.target = p.rx.target /\ q.rx.velocity = p.rx.velocity

LEMMA FollowsOn ==
  ASSUME NEW p, NEW q, NEW s, Follows(p, q), Follows(q, s)
  PROVE  Follows(p, s)
BY DEF Follows

LEMMA SendIs ==
  ASSUME NEW p \in Pairs, NEW w \in Words, NEW q, q = Send(p, w)
  PROVE  /\ q.rx \in RxImages /\ q.rx.word = w /\ SameRequest(p, q)
         /\ q.drive = Exchanged(p.drive, q.rx)
         /\ p.drive \in DriveStates
         /\ q = [rx |-> q.rx, drive |-> q.drive]
<1>1. p.rx \in RxImages /\ p.drive \in DriveStates
  BY DEF Pairs
<1> DEFINE r == [p.rx EXCEPT !.word = w]
<1>2. r \in RxImages /\ r.word = w /\ r.mode = p.rx.mode /\ r.target = p.rx.target
      /\ r.velocity = p.rx.velocity
  BY <1>1 DEF RxImages
<1>3. [p EXCEPT !.rx.word = w].rx = r /\ [p EXCEPT !.rx.word = w].drive = p.drive
  BY DEF Pairs
<1>4. q = [rx |-> r, drive |-> Exchanged(p.drive, r)]
  BY <1>3 DEF Send, Exchange
<1> HIDE DEF r
<1> QED
  BY <1>1, <1>2, <1>4 DEF SameRequest

\* One exchange with a word
LEMMA SendFacts ==
  ASSUME NEW p, Good(p), NEW w \in Words, NEW q, q = Send(p, w)
  PROVE  /\ Good(q) /\ Settled(q) /\ Quiet(q) /\ Follows(p, q) /\ SameRequest(p, q)
         /\ q.rx.word = w /\ StatusOk(q.drive)
         /\ Quiet(p) => q.drive.mode = q.rx.mode /\ q.drive.word = w
         /\ Quiet(p) => q.drive.sm = StateAfter(p.drive.sm, w)
<1>1. /\ q.rx \in RxImages /\ q.rx.word = w /\ SameRequest(p, q)
      /\ q.drive = Exchanged(p.drive, q.rx) /\ p.drive \in DriveStates
      /\ q = [rx |-> q.rx, drive |-> q.drive]
  BY SendIs DEF Good
<1> DEFINE d == p.drive
           e == q.drive
           r == q.rx
<1>2. e \in DriveStates /\ DriveInv(e)
  BY <1>1, ExchangeFacts, ExchangeInv DEF Good
<1>3. /\ StatusOk(e)
      /\ e.word = EffectiveWord(d, r) /\ e.mode = EffectiveMode(d, r)
      /\ e.lastMode = e.mode /\ e.sm = StateAfter(d.sm, EffectiveWord(d, r))
      /\ e.limits = d.limits /\ e.resetCommand = d.resetCommand
      /\ e.lastReset = d.resetCommand
      /\ d.zeroed => e.zeroed
      /\ e.referenced => d.referenced \/ e.zeroed
  BY <1>1, ExchangeFacts
<1>4. Good(q)
  BY <1>1, <1>2 DEF Good, Pairs
<1> HIDE DEF d, e, r
<1>5. Resets(d) => e.sm = "off"
  BY <1>3 DEF EffectiveWord, StateAfter, Word
<1>6. Settled(q)
  BY <1>3, <1>5 DEF Settled, StatusOk, EffectiveMode, d, e, r
<1>7. Quiet(p) => ~Resets(d)
  BY DEF Quiet, Resets, d
<1> QED
  BY <1>1, <1>3, <1>4, <1>6, <1>7
     DEF Quiet, Follows, EffectiveMode, EffectiveWord, d, e, r

\* All the words of a handler
LEMMA SendAllFacts ==
  ASSUME NEW p, Good(p), NEW words \in Seq(Words), Len(words) > 0,
         NEW q, q = SendAll(p, words)
  PROVE  /\ Good(q) /\ Settled(q) /\ Quiet(q) /\ Follows(p, q) /\ SameRequest(p, q)
         /\ q.rx.word = words[Len(words)] /\ StatusOk(q.drive)
         /\ Len(words) > 1 => q.drive.mode = q.rx.mode
<1> DEFINE S(n, s) == /\ Good(s) /\ Follows(p, s) /\ SameRequest(p, s)
                      /\ n > 0 => /\ Settled(s) /\ Quiet(s) /\ StatusOk(s.drive)
                                  /\ s.rx.word = words[n]
                      /\ n > 1 => s.drive.mode = s.rx.mode
           N == Len(words)
           Q == [n \in 0..N |-> {s \in Pairs : S(n, s)}]
<1>1. N \in Nat /\ \A n \in 1..N : words[n] \in Words
  OBVIOUS
<1>2. p \in Q[0]
  <2>1. S(0, p)
    BY DEF Follows, SameRequest
  <2> QED
    BY <1>1, <2>1 DEF Good
<1>3. ASSUME NEW n \in 1..N, NEW s \in Q[n - 1]
      PROVE  Send(s, words[n]) \in Q[n]
  <2>1. n - 1 \in 0..N /\ n \in 0..N /\ (n > 1 => n - 1 > 0) /\ n > 0
    BY <1>1
  <2>2. S(n - 1, s)
    BY <1>3, <2>1
  <2> DEFINE u == Send(s, words[n])
  <2>3. /\ Good(u) /\ Settled(u) /\ Quiet(u) /\ Follows(s, u) /\ SameRequest(s, u)
        /\ u.rx.word = words[n] /\ StatusOk(u.drive)
        /\ Quiet(s) => u.drive.mode = u.rx.mode
    <3>1. words[n] \in Words /\ Good(s)
      BY <1>1, <2>2
    <3> QED
      BY <3>1, SendFacts
  <2> HIDE DEF u
  <2>4. S(n, u)
    BY <2>1, <2>2, <2>3, FollowsOn DEF SameRequest
  <2> QED
    BY <2>1, <2>3, <2>4 DEF Good, u
<1>4. SendAll(p, words) \in Q[N]
  <2> HIDE DEF Q
  <2> QED
    BY <1>2, <1>3, SendAllLeads
<1>5. S(N, q)
  BY <1>1, <1>4
<1> QED
  BY <1>1, <1>5

\* What all the handlers that exchange keep
Reached(p, q) == Good(q) /\ Settled(q) /\ Follows(p, q)

LEMMA ReachedOn ==
  ASSUME NEW p, NEW q, NEW s, Reached(p, q), Reached(q, s)
  PROVE  Reached(p, s)
BY FollowsOn DEF Reached

LEMMA TimesSent ==
  ASSUME NEW p, Good(p), NEW n \in Nat, n > 0, NEW w \in Words,
         NEW q, q = SendAll(p, Times(n, w))
  PROVE  /\ Reached(p, q) /\ Quiet(q) /\ SameRequest(p, q)
         /\ q.rx.word = w /\ StatusOk(q.drive)
         /\ n > 1 => q.drive.mode = q.rx.mode
<1>1. /\ Times(n, w) \in Seq(Words) /\ Len(Times(n, w)) = n
      /\ Times(n, w)[n] = w
  BY TimesFacts
<1> QED
  BY <1>1, SendAllFacts DEF Reached

LEMMA HeldFacts ==
  ASSUME NEW p, Good(p), NEW q, q = Held(p)
  PROVE  /\ Good(q) /\ q.drive = p.drive /\ q.rx.word = p.rx.word
         /\ q.rx.mode = p.rx.mode /\ q.rx.velocity = p.rx.velocity
         /\ Follows(p, q) /\ (Settled(p) => Settled(q))
<1>1. p \in Pairs /\ p.rx \in RxImages /\ p.drive.pos \in Positions
  BY DEF Good, Pairs, DriveStates
<1> DEFINE r == [p.rx EXCEPT !.target = p.drive.pos]
<1>2. r \in RxImages /\ r.word = p.rx.word /\ r.mode = p.rx.mode
      /\ r.velocity = p.rx.velocity
  BY <1>1 DEF RxImages
<1>3. q \in Pairs /\ q.rx = r /\ q.drive = p.drive
  BY <1>1, <1>2 DEF Held, Pairs
<1> HIDE DEF r
<1> QED
  BY <1>2, <1>3 DEF Good, Follows, Settled

LEMMA ModeWritten ==
  ASSUME NEW d, DriveInv(d), NEW m \in Modes
  PROVE  DriveInv([d EXCEPT !.mode = m])
<1> DEFINE e == [d EXCEPT !.mode = m]
<1>0. d \in DriveStates
  BY DEF DriveInv
<1>1. /\ e \in DriveStates /\ e.sm = d.sm /\ e.vel = d.vel /\ e.ppActive = d.ppActive
      /\ e.lastMode = d.lastMode /\ e.lastTarget = d.lastTarget /\ e.checked = d.checked
      /\ e.pos = d.pos /\ e.ppTarget = d.ppTarget /\ e.ppChecked = d.ppChecked
  BY <1>0 DEF DriveStates
<1>2. e.rejected = d.rejected /\ e.warning = d.warning /\ e.pushed = d.pushed
  BY <1>0 DEF DriveStates
<1> HIDE DEF e
<1>3. MotionOk(e)
  BY <1>1, <1>2 DEF DriveInv, MotionOk, Enabled, Stands, TargetOk, PpOk
<1> QED
  BY <1>1, <1>2, <1>3 DEF DriveInv, e

\* The images at the start of configure_mode_code
Switched(p, m) ==
  [rx |-> [p.rx EXCEPT !.mode = m], drive |-> [p.drive EXCEPT !.mode = m]]

LEMMA SwitchedFacts ==
  ASSUME NEW p, Good(p), NEW m \in Modes, NEW q, q = Switched(p, m)
  PROVE  /\ Good(q) /\ Follows(p, q) /\ q.rx.mode = m /\ q.rx.word = p.rx.word
         /\ q.rx.target = p.rx.target /\ q.rx.velocity = p.rx.velocity
         /\ q.rx.word \in Words
         /\ q.drive.sm = p.drive.sm /\ q.drive.vel = p.drive.vel
         /\ q.drive.referenced = p.drive.referenced
<1>1. p.rx \in RxImages /\ p.drive \in DriveStates /\ DriveInv(p.drive)
  BY DEF Good, Pairs
<1> DEFINE r == [p.rx EXCEPT !.mode = m]
           d == [p.drive EXCEPT !.mode = m]
<1>2. /\ r \in RxImages /\ r.mode = m /\ r.word = p.rx.word /\ r.word \in Words
      /\ r.target = p.rx.target /\ r.velocity = p.rx.velocity
  BY <1>1 DEF RxImages
<1>3. /\ d \in DriveStates /\ d.limits = p.drive.limits /\ d.zeroed = p.drive.zeroed
      /\ d.referenced = p.drive.referenced /\ d.sm = p.drive.sm /\ d.vel = p.drive.vel
  BY <1>1 DEF DriveStates
<1>4. DriveInv(d)
  BY <1>1, ModeWritten
<1>5. q = [rx |-> r, drive |-> d]
  BY DEF Switched
<1> HIDE DEF r, d
<1>6. q.rx = r /\ q.drive = d /\ q \in Pairs
  BY <1>2, <1>3, <1>5 DEF Pairs
<1> QED
  BY <1>2, <1>3, <1>4, <1>6 DEF Good, Follows

LEMMA InModeFacts ==
  ASSUME NEW p, Good(p), NEW m \in Modes, NEW q, q = InMode(p, m)
  PROVE  /\ Reached(p, q) /\ Quiet(q) /\ q.rx.mode = m /\ q.drive.mode = m
         /\ q.rx.word = p.rx.word
<1> DEFINE s == Switched(p, m)
<1>1. /\ Good(s) /\ Follows(p, s) /\ s.rx.mode = m /\ s.rx.word = p.rx.word
      /\ s.rx.word \in Words
  BY SwitchedFacts
<1>2. q = SendAll(s, Times(5, p.rx.word))
  BY DEF InMode, Switched
<1> HIDE DEF s
<1>3. Reached(s, q) /\ Quiet(q) /\ SameRequest(s, q) /\ q.rx.word = p.rx.word
      /\ q.drive.mode = q.rx.mode
  BY <1>1, <1>2, TimesSent
<1> QED
  BY <1>1, <1>3, FollowsOn DEF Reached, SameRequest

LEMMA Bit4Type ==
  ASSUME NEW w \in Words, NEW b \in BOOLEAN
  PROVE  Bit4(w, b) \in Words
BY DEF Bit4, Words

LEMMA StartLowFacts ==
  ASSUME NEW p, Good(p), NEW q, q = StartLow(p)
  PROVE  /\ Reached(p, q) /\ Quiet(q) /\ SameRequest(p, q)
         /\ q.drive.mode = q.rx.mode
<1> DEFINE w == Bit4(p.rx.word, FALSE)
<1>1. w \in Words
  BY Bit4Type DEF Good, Pairs, RxImages
<1>2. q = SendAll(p, Times(2, w))
  BY DEF StartLow
<1> HIDE DEF w
<1> QED
  BY <1>1, <1>2, TimesSent

LEMMA FinishedFacts ==
  ASSUME NEW p, Good(p), NEW h, h.original \in Modes, NEW q, q = Finished(p, h)
  PROVE  /\ Reached(p, q) /\ Quiet(q) /\ q.drive.mode = q.rx.mode
         /\ h.original # "homing" => q.rx.mode = h.original
         /\ h.original = "homing" => q.rx.mode = p.rx.mode
<1> DEFINE s == StartLow(p)
<1>1. Reached(p, s) /\ Quiet(s) /\ s.rx.mode = p.rx.mode /\ s.drive.mode = s.rx.mode
      /\ Good(s)
  BY StartLowFacts DEF SameRequest, Reached
<1>2. q = IF h.original = "homing" THEN s ELSE InMode(s, h.original)
  BY DEF Finished
<1> HIDE DEF s
<1>3. CASE h.original = "homing"
  BY <1>1, <1>2, <1>3
<1>4. CASE h.original # "homing"
  <2>1. q = InMode(s, h.original)
    BY <1>2, <1>4
  <2>2. Reached(s, q) /\ Quiet(q) /\ q.rx.mode = h.original
        /\ q.drive.mode = h.original
    BY <1>1, <2>1, InModeFacts
  <2> QED
    BY <1>1, <1>4, <2>2, ReachedOn
<1> QED
  BY <1>3, <1>4

LEMMA DisabledFacts ==
  ASSUME NEW p, Good(p), NEW q, q = Disabled(p)
  PROVE  Reached(p, q) /\ ~Enabled(q.drive)
<1> DEFINE s == Held(p)
<1>1. Good(s) /\ Follows(p, s)
  BY HeldFacts
<1>2. Word(7) \in Words
  BY WordTypes
<1>3. q = SendAll(s, Times(3, Word(7)))
  BY DEF Disabled
<1> HIDE DEF s
<1>4. Reached(s, q)
  BY <1>1, <1>2, <1>3, TimesSent
<1> DEFINE Q == {u \in Pairs : Good(u) /\ ~Enabled(u.drive)}
<1>5. ASSUME NEW u, Good(u)
      PROVE  Send(u, Word(7)) \in Q
  <2> DEFINE v == Send(u, Word(7))
  <2>1. /\ v.rx.word = Word(7) /\ v.rx \in RxImages
        /\ v.drive = Exchanged(u.drive, v.rx) /\ u.drive \in DriveStates
    BY <1>2, <1>5, SendIs DEF Good
  <2>2. Good(v)
    BY <1>2, <1>5, SendFacts
  <2>3. v.drive.sm = StateAfter(u.drive.sm, EffectiveWord(u.drive, v.rx))
    BY <2>1, ExchangeFacts
  <2> HIDE DEF v
  <2>4. v.drive.sm # "enabled"
    BY <2>1, <2>3 DEF EffectiveWord, Word, StateAfter
  <2> QED
    BY <2>2, <2>4 DEF Good, Enabled, v
<1>6. q \in Q
  <2>1. \A u \in Q : Send(u, Word(7)) \in Q
    BY <1>5
  <2>2. Send(s, Word(7)) \in Q
    BY <1>1, <1>5
  <2> HIDE DEF Q
  <2> QED
    BY <1>2, <1>3, <2>1, <2>2, TimesReaches
<1> QED
  BY <1>1, <1>4, <1>6, FollowsOn DEF Reached

\* The images of p with another RxPDO image
LEMMA Rewritten ==
  ASSUME NEW p, Good(p), NEW r \in RxImages, NEW q,
         q = [rx |-> r, drive |-> p.drive]
  PROVE  /\ Good(q) /\ Follows(p, q) /\ q.rx = r /\ q.drive = p.drive
         /\ Settled(p) /\ r.mode = p.rx.mode => Settled(q)
BY DEF Good, Pairs, Follows, Settled

LEMMA WordWritten ==
  ASSUME NEW p, Good(p), NEW w \in Words
  PROVE  /\ [p EXCEPT !.rx.word = w]
              = [rx |-> [p.rx EXCEPT !.word = w], drive |-> p.drive]
         /\ [p.rx EXCEPT !.word = w] \in RxImages
         /\ [p.rx EXCEPT !.word = w].mode = p.rx.mode
<1>1. p \in Pairs /\ p.rx \in RxImages
  BY DEF Good, Pairs
<1>2. [p EXCEPT !.rx.word = w] = [rx |-> [p.rx EXCEPT !.word = w], drive |-> p.drive]
  BY <1>1 DEF Pairs
<1> QED
  BY <1>1, <1>2 DEF RxImages

LEMMA HaltWritten ==
  ASSUME NEW p, Good(p)
  PROVE  /\ [p EXCEPT !.rx.word.halt = TRUE]
              = [p EXCEPT !.rx.word = [p.rx.word EXCEPT !.halt = TRUE]]
         /\ [p.rx.word EXCEPT !.halt = TRUE] \in Words
<1>1. p \in Pairs /\ p.rx \in RxImages /\ p.rx.word \in Words
  BY DEF Good, Pairs, RxImages
<1> QED
  BY <1>1 DEF Words

LEMMA VelocityWritten ==
  ASSUME NEW p, Good(p), NEW v \in Velocities \cup {0}
  PROVE  /\ [p EXCEPT !.rx.velocity = v]
              = [rx |-> [p.rx EXCEPT !.velocity = v], drive |-> p.drive]
         /\ [p.rx EXCEPT !.velocity = v] \in RxImages
         /\ [p.rx EXCEPT !.velocity = v].mode = p.rx.mode
<1>1. p \in Pairs /\ p.rx \in RxImages
  BY DEF Good, Pairs
<1>2. [p EXCEPT !.rx.velocity = v]
        = [rx |-> [p.rx EXCEPT !.velocity = v], drive |-> p.drive]
  BY <1>1 DEF Pairs
<1> QED
  BY <1>1, <1>2 DEF RxImages

LEMMA TargetWritten ==
  ASSUME NEW p, Good(p), NEW t \in Positions
  PROVE  /\ [p EXCEPT !.rx.target = t]
              = [rx |-> [p.rx EXCEPT !.target = t], drive |-> p.drive]
         /\ [p.rx EXCEPT !.target = t] \in RxImages
         /\ [p.rx EXCEPT !.target = t].mode = p.rx.mode
<1>1. p \in Pairs /\ p.rx \in RxImages
  BY DEF Good, Pairs
<1>2. [p EXCEPT !.rx.target = t] = [rx |-> [p.rx EXCEPT !.target = t], drive |-> p.drive]
  BY <1>1 DEF Pairs
<1> QED
  BY <1>1, <1>2 DEF RxImages

LEMMA VelocitySent ==
  ASSUME NEW p, Good(p), NEW v \in Velocities \cup {0}, NEW q,
         q = SendAll([p EXCEPT !.rx.velocity = v], Times(2, Base))
  PROVE  Reached(p, q) /\ q.rx.mode = p.rx.mode /\ q.drive.mode = q.rx.mode
<1> DEFINE s == [p EXCEPT !.rx.velocity = v]
           r == [p.rx EXCEPT !.velocity = v]
<1>0. Base \in Words
  BY WordTypes
<1>1. s = [rx |-> r, drive |-> p.drive] /\ r \in RxImages /\ r.mode = p.rx.mode
  BY VelocityWritten
<1> HIDE DEF s, r
<1>2. Good(s) /\ Follows(p, s) /\ s.rx.mode = p.rx.mode
  BY <1>1, Rewritten
<1>3. Reached(s, q) /\ SameRequest(s, q) /\ q.drive.mode = q.rx.mode
  BY <1>0, <1>2, TimesSent DEF s
<1> QED
  BY <1>2, <1>3, FollowsOn DEF Reached, SameRequest

LEMMA StopFacts ==
  ASSUME NEW p, Good(p), Settled(p), NEW q, q = Stopped(p)
  PROVE  /\ Reached(p, q) /\ q.rx.mode = p.rx.mode
         /\ p.rx.mode # "pv" => q.drive = p.drive
         /\ p.rx.mode = "pv" => q.drive.mode = q.rx.mode
<1> DEFINE h == Held(p)
<1>1. Good(h) /\ Settled(h) /\ Follows(p, h) /\ h.rx.mode = p.rx.mode
      /\ h.drive = p.drive
  BY HeldFacts
<1>2. q = HeldStopped(h)
  BY DEF Stopped
<1> HIDE DEF h
<1>3. h.rx.mode \in Modes
  BY <1>1 DEF Good, Pairs, RxImages
<1>4. Base \in Words /\ 0 \in Velocities \cup {0}
  BY WordTypes
<1>5. CASE h.rx.mode \in {"pp", "csp"}
  <2>1. q = [h EXCEPT !.rx.word.halt = TRUE]
    BY <1>2, <1>5 DEF HeldStopped
  <2> DEFINE w == [h.rx.word EXCEPT !.halt = TRUE]
             r == [h.rx EXCEPT !.word = w]
  <2>2. q = [h EXCEPT !.rx.word = w] /\ w \in Words
    BY <1>1, <2>1, HaltWritten
  <2> HIDE DEF w
  <2>3. q = [rx |-> r, drive |-> h.drive] /\ r \in RxImages /\ r.mode = h.rx.mode
    BY <1>1, <2>2, WordWritten
  <2> HIDE DEF r
  <2> QED
    BY <1>1, <1>5, <2>3, Rewritten, FollowsOn DEF Reached
<1>6. CASE h.rx.mode = "pv"
  <2>1. q = SendAll([h EXCEPT !.rx.velocity = 0], Times(2, Base))
    BY <1>2, <1>6 DEF HeldStopped
  <2> QED
    BY <1>1, <1>4, <1>6, <2>1, VelocitySent, FollowsOn DEF Reached
<1>7. CASE h.rx.mode = "jog"
  <2>1. q = [h EXCEPT !.rx.word = Base]
    BY <1>2, <1>7 DEF HeldStopped
  <2> DEFINE r == [h.rx EXCEPT !.word = Base]
  <2>2. q = [rx |-> r, drive |-> h.drive] /\ r \in RxImages /\ r.mode = h.rx.mode
    BY <1>1, <1>4, <2>1, WordWritten
  <2> HIDE DEF r
  <2> QED
    BY <1>1, <1>7, <2>2, Rewritten, FollowsOn DEF Reached
<1>8. CASE h.rx.mode = "homing"
  BY <1>1, <1>2, <1>8 DEF HeldStopped, Reached
<1> QED
  BY <1>3, <1>5, <1>6, <1>7, <1>8 DEF Modes

-----------------------------------------------------------------------------
(* The fault reset                                                         *)

ResetWords(w) ==
  Times(2, [w EXCEPT !.reset = FALSE]) \o Times(2, [w EXCEPT !.reset = TRUE])
    \o Times(2, [w EXCEPT !.reset = FALSE]) \o Times(5, Word(6)) \o Times(5, Word(7))

LEMMA Joined ==
  ASSUME NEW a \in Seq(Words), NEW b \in Seq(Words), NEW m \in Nat, NEW n \in Nat,
         Len(a) = m, Len(b) = n
  PROVE  a \o b \in Seq(Words) /\ Len(a \o b) = m + n
<1>1. a \o b \in Seq(Words) /\ Len(a \o b) = Len(a) + Len(b)
  BY ConcatProperties, Zenon
<1> QED
  BY <1>1, Zenon

LEMMA JoinedAt ==
  ASSUME NEW a \in Seq(Words), NEW b \in Seq(Words), NEW m \in Nat, NEW n \in Nat,
         Len(a) = m, Len(b) = n, NEW i \in 1..(m + n)
  PROVE  (a \o b)[i] = IF i <= m THEN a[i] ELSE b[i - m]
<1>1. \A j \in 1..Len(a) + Len(b) :
        (a \o b)[j] = IF j <= Len(a) THEN a[j] ELSE b[j - Len(a)]
  BY ConcatProperties, Zenon
<1> QED
  BY <1>1, Zenon

LEMMA WordOf ==
  ASSUME NEW words \in Seq(Words), NEW n \in 1..Len(words)
  PROVE  words[n] \in Words
OBVIOUS

LEMMA ResetWordsFacts ==
  ASSUME NEW w \in Words, NEW words, words = ResetWords(w)
  PROVE  /\ words \in Seq(Words) /\ Len(words) = 16
         /\ \A n \in 7..11 : words[n] = Word(6)
         /\ \A n \in 12..16 : words[n] = Word(7)
<1> DEFINE a == Times(2, [w EXCEPT !.reset = FALSE])
           b == Times(2, [w EXCEPT !.reset = TRUE])
           s == Times(5, Word(6))
           o == Times(5, Word(7))
<1>1. [w EXCEPT !.reset = FALSE] \in Words /\ [w EXCEPT !.reset = TRUE] \in Words
      /\ Word(6) \in Words /\ Word(7) \in Words
  BY WordTypes DEF Words
<1>2. /\ \A i \in 1..5 : s[i] = Word(6)
      /\ \A i \in 1..5 : o[i] = Word(7)
  BY <1>1, TimesFacts
<1>3. words = a \o b \o a \o s \o o
  BY DEF ResetWords
<1>a. a \in Seq(Words) /\ Len(a) = 2
  BY <1>1, TimesFacts
<1>b. b \in Seq(Words) /\ Len(b) = 2
  BY <1>1, TimesFacts
<1>s. s \in Seq(Words) /\ Len(s) = 5
  BY <1>1, TimesFacts
<1>o. o \in Seq(Words) /\ Len(o) = 5
  BY <1>1, TimesFacts
<1> HIDE DEF a, b, s, o
<1> DEFINE c == a \o b
           e == c \o a
           f == e \o s
<1>c. c \in Seq(Words) /\ Len(c) = 4
  <2>1. 2 \in Nat
    OBVIOUS
  <2>2. c \in Seq(Words) /\ Len(c) = 2 + 2
    BY <1>a, <1>b, <2>1, Joined, Zenon
  <2> HIDE DEF c
  <2> QED
    BY <2>2
<1> HIDE DEF c
<1>e. e \in Seq(Words) /\ Len(e) = 6
  <2>1. 2 \in Nat /\ 4 \in Nat
    OBVIOUS
  <2>2. e \in Seq(Words) /\ Len(e) = 4 + 2
    BY <1>a, <1>c, <2>1, Joined, Zenon
  <2> HIDE DEF e
  <2> QED
    BY <2>2
<1> HIDE DEF e
<1>f. f \in Seq(Words) /\ Len(f) = 11
  <2>1. 6 \in Nat /\ 5 \in Nat
    OBVIOUS
  <2>2. f \in Seq(Words) /\ Len(f) = 6 + 5
    BY <1>e, <1>s, <2>1, Joined, Zenon
  <2> HIDE DEF f
  <2> QED
    BY <2>2
<1>4. \A i \in 1..(6 + 5) : f[i] = IF i <= 6 THEN e[i] ELSE s[i - 6]
  <2>1. 6 \in Nat /\ 5 \in Nat
    OBVIOUS
  <2> QED
    BY <1>e, <1>s, <2>1, JoinedAt, Zenon
<1> HIDE DEF f
<1> DEFINE g == f \o o
<1>g. g \in Seq(Words) /\ Len(g) = 16
  <2>1. 11 \in Nat /\ 5 \in Nat
    OBVIOUS
  <2>2. g \in Seq(Words) /\ Len(g) = 11 + 5
    BY <1>f, <1>o, <2>1, Joined, Zenon
  <2> HIDE DEF g
  <2> QED
    BY <2>2
<1>5. \A i \in 1..(11 + 5) : g[i] = IF i <= 11 THEN f[i] ELSE o[i - 11]
  <2>1. 11 \in Nat /\ 5 \in Nat
    OBVIOUS
  <2> QED
    BY <1>f, <1>o, <2>1, JoinedAt, Zenon
<1>6. words = g
  BY <1>3 DEF c, e, f
<1> HIDE DEF g
<1>7. /\ \A n \in 12..16 : n \in 1..(11 + 5) /\ ~(n <= 11) /\ n - 11 \in 1..5
      /\ \A n \in 7..11 : /\ n \in 1..(11 + 5) /\ n <= 11
                          /\ n \in 1..(6 + 5) /\ ~(n <= 6) /\ n - 6 \in 1..5
  OBVIOUS
<1>8. \A n \in 7..11 : g[n] = Word(6)
  BY <1>2, <1>4, <1>5, <1>7
<1>9. \A n \in 12..16 : g[n] = Word(7)
  BY <1>2, <1>5, <1>7
<1> QED
  BY <1>6, <1>8, <1>9, <1>g

\* After the first cycle no device reset is due, so Shutdown and Switch On count.
LEMMA ResetFacts ==
  ASSUME NEW p, Good(p), NEW w \in Words, NEW q, q = SendAll(p, ResetWords(w))
  PROVE  Reached(p, q) /\ q.drive.sm = "on" /\ SameRequest(p, q)
<1> DEFINE words == ResetWords(w)
           S(n, s) == /\ Good(s)
                      /\ n > 0 => Quiet(s)
                      /\ n \in 7..11 => s.drive.sm = "ready"
                      /\ n \in 12..16 => s.drive.sm = "on"
           Q == [n \in 0..16 |-> {s \in Pairs : S(n, s)}]
<1>1. /\ words \in Seq(Words) /\ Len(words) = 16
      /\ \A n \in 7..11 : words[n] = Word(6)
      /\ \A n \in 12..16 : words[n] = Word(7)
  BY ResetWordsFacts
<1>2. q = SendAll(p, words)
  OBVIOUS
<1> HIDE DEF words
<1>3. p \in Q[0]
  BY DEF Good
<1>4. ASSUME NEW n \in 1..16, NEW s \in Q[n - 1]
      PROVE  Send(s, words[n]) \in Q[n]
  <2>1. n - 1 \in 0..16 /\ n \in 0..16 /\ words[n] \in Words
    <3>1. n - 1 \in 0..16 /\ n \in 0..16 /\ n \in 1..Len(words)
      BY <1>1
    <3> QED
      BY <1>1, <3>1, WordOf
  <2>2. S(n - 1, s)
    BY <1>4, <2>1
  <2> DEFINE u == Send(s, words[n])
  <2>3. /\ Good(u) /\ Quiet(u)
        /\ Quiet(s) => u.drive.sm = StateAfter(s.drive.sm, words[n])
    BY <2>1, <2>2, SendFacts
  <2> HIDE DEF u
  <2>4. s.drive.sm \in {"off", "ready", "on", "enabled"}
    BY <2>2 DEF Good, DriveInv, DriveStates
  <2>5. n \in 7..11 => u.drive.sm = "ready"
    <3> SUFFICES ASSUME n \in 7..11 PROVE u.drive.sm = "ready"
      OBVIOUS
    <3>1. n - 1 > 0 /\ words[n] = Word(6)
      BY <1>1
    <3>2. u.drive.sm = StateAfter(s.drive.sm, Word(6))
      BY <2>2, <2>3, <3>1
    <3> QED
      BY <2>4, <3>2 DEF StateAfter, Word
  <2>6. n \in 12..16 => u.drive.sm = "on"
    <3> SUFFICES ASSUME n \in 12..16 PROVE u.drive.sm = "on"
      OBVIOUS
    <3>1. n - 1 > 0 /\ words[n] = Word(7) /\ (n - 1 \in 7..11 \/ n - 1 \in 12..16)
      BY <1>1
    <3>2. u.drive.sm = StateAfter(s.drive.sm, Word(7)) /\ s.drive.sm \in {"ready", "on"}
      BY <2>2, <2>3, <3>1
    <3> QED
      BY <3>2 DEF StateAfter, Word
  <2>7. S(n, u)
    BY <2>3, <2>5, <2>6
  <2> QED
    BY <2>1, <2>3, <2>7 DEF Good, u
<1>5. q \in Q[16]
  <2> HIDE DEF Q
  <2> QED
    BY <1>1, <1>2, <1>3, <1>4, SendAllLeads
<1>6. q.drive.sm = "on"
  BY <1>5
<1>7. Len(words) > 0
  BY <1>1
<1>8. Good(q) /\ Settled(q) /\ Follows(p, q) /\ SameRequest(p, q)
  BY <1>1, <1>2, <1>7, SendAllFacts
<1> QED
  BY <1>6, <1>8 DEF Reached

-----------------------------------------------------------------------------
(* wait_pp_setpoint_ack                                                    *)

\* f holds the states of a wait of k cycles, from h.p.
IsWait(f, h, w, expected, k) ==
  f = [n \in 0..k |->
         IF n = 0 THEN h.p
         ELSE IF n > 1 /\ f[n - 1].drive.status.ack = expected THEN f[n - 1]
         ELSE Send(f[n - 1], w)]

LEMMA WaitExists ==
  ASSUME NEW h, NEW w, NEW expected, NEW k \in Nat
  PROVE  \E f : IsWait(f, h, w, expected, k)
<1> DEFINE T == {j \in Nat : \E f : IsWait(f, h, w, expected, j)}
<1>1. 0 \in T
  <2>1. IsWait([i \in 0..0 |-> h.p], h, w, expected, 0)
    BY DEF IsWait
  <2> QED
    BY <2>1
<1>2. ASSUME NEW j \in T
      PROVE  j + 1 \in T
  <2>1. PICK f : IsWait(f, h, w, expected, j)
    OBVIOUS
  <2> DEFINE last == IF j + 1 > 1 /\ f[j].drive.status.ack = expected THEN f[j]
                     ELSE Send(f[j], w)
             g == [i \in 0..j + 1 |-> IF i <= j THEN f[i] ELSE last]
  <2>2. j \in Nat /\ \A i \in 0..j : f[i] =
          IF i = 0 THEN h.p
          ELSE IF i > 1 /\ f[i - 1].drive.status.ack = expected THEN f[i - 1]
          ELSE Send(f[i - 1], w)
    BY <2>1 DEF IsWait
  <2>3. \A i \in 0..j + 1 : g[i] =
          IF i = 0 THEN h.p
          ELSE IF i > 1 /\ g[i - 1].drive.status.ack = expected THEN g[i - 1]
          ELSE Send(g[i - 1], w)
    <3> SUFFICES ASSUME NEW i \in 0..j + 1
                 PROVE  g[i] = IF i = 0 THEN h.p
                               ELSE IF i > 1 /\ g[i - 1].drive.status.ack = expected
                               THEN g[i - 1] ELSE Send(g[i - 1], w)
      OBVIOUS
    <3>1. CASE i <= j
      <4>1. i # 0 => i - 1 \in 0..j + 1 /\ i - 1 <= j
        BY <2>2, <3>1
      <4>2. i # 0 => g[i - 1] = f[i - 1]
        BY <4>1
      <4>3. g[i] = f[i] /\ i \in 0..j
        BY <2>2, <3>1
      <4> HIDE DEF g, last
      <4> QED
        BY <2>2, <4>2, <4>3
    <3>2. CASE ~(i <= j)
      <4>1. i = j + 1 /\ i - 1 = j /\ j \in 0..j + 1 /\ i # 0
        BY <2>2, <3>2
      <4>2. g[i] = last /\ g[i - 1] = f[j]
        BY <2>2, <3>2, <4>1
      <4> HIDE DEF g
      <4> QED
        BY <4>1, <4>2
    <3> QED
      BY <3>1, <3>2
  <2>4. IsWait(g, h, w, expected, j + 1)
    <3> HIDE DEF last
    <3> QED
      BY <2>3 DEF IsWait
  <2> QED
    BY <2>2, <2>4
<1>3. k \in T
  BY <1>1, <1>2, SetInduction
<1> QED
  BY <1>3

LEMMA WaitedIs ==
  ASSUME NEW h, NEW w, NEW expected
  PROVE  \E f : /\ IsWait(f, h, w, expected, HandshakeCycles)
                /\ Waited(h, w, expected).p = f[HandshakeCycles]
                /\ Waited(h, w, expected).ok
                     = (h.ok /\ f[HandshakeCycles].drive.status.ack = expected)
<1>0. HandshakeCycles \in Nat
  BY SizesAssumption
<1>1. \E f : IsWait(f, h, w, expected, HandshakeCycles)
  BY <1>0, WaitExists
<1> DEFINE g == CHOOSE f : IsWait(f, h, w, expected, HandshakeCycles)
<1>2. IsWait(g, h, w, expected, HandshakeCycles)
  BY <1>1
<1>3. Waited(h, w, expected)
        = [p |-> g[HandshakeCycles],
           ok |-> h.ok /\ g[HandshakeCycles].drive.status.ack = expected]
  BY DEF Waited, IsWait
<1> HIDE DEF g
<1> QED
  BY <1>2, <1>3

LEMMA WaitedOk ==
  ASSUME NEW h, NEW w, NEW expected, Waited(h, w, expected).ok
  PROVE  h.ok
<1>1. PICK f : Waited(h, w, expected).ok
                 = (h.ok /\ f[HandshakeCycles].drive.status.ack = expected)
  BY WaitedIs
<1> QED
  BY <1>1

\* A wait makes at least one exchange and ends in every set that the first
\* exchange leads to and the others keep.
LEMMA WaitedReaches ==
  ASSUME NEW h, NEW w, NEW expected, NEW Q, Send(h.p, w) \in Q,
         \A q \in Q : Send(q, w) \in Q
  PROVE  /\ Waited(h, w, expected).p \in Q
         /\ Waited(h, w, expected).ok
              = (h.ok /\ Waited(h, w, expected).p.drive.status.ack = expected)
<1>1. PICK f : /\ IsWait(f, h, w, expected, HandshakeCycles)
               /\ Waited(h, w, expected).p = f[HandshakeCycles]
               /\ Waited(h, w, expected).ok
                    = (h.ok /\ f[HandshakeCycles].drive.status.ack = expected)
  BY WaitedIs
<1> DEFINE N == HandshakeCycles
<1>2. N \in Nat /\ N > 0
  BY SizesAssumption
<1> HIDE DEF N
<1>3. \A n \in 0..N : f[n] =
        IF n = 0 THEN h.p
        ELSE IF n > 1 /\ f[n - 1].drive.status.ack = expected THEN f[n - 1]
        ELSE Send(f[n - 1], w)
  BY <1>1 DEF IsWait, N
<1> DEFINE T == {n \in Nat : 0 < n /\ n <= N => f[n] \in Q}
<1>4. 0 \in T
  OBVIOUS
<1>5. ASSUME NEW n \in T
      PROVE  n + 1 \in T
  <2> SUFFICES ASSUME n + 1 <= N
               PROVE  f[n + 1] \in Q
    OBVIOUS
  <2>1. n \in Nat /\ n <= N /\ n + 1 \in 0..N /\ n \in 0..N /\ (n + 1) - 1 = n
        /\ n + 1 # 0
    BY <1>2
  <2>2. CASE n = 0
    <3>1. f[n + 1] = Send(f[n], w) /\ f[n] = h.p
      BY <1>3, <2>1, <2>2
    <3> QED
      BY <3>1
  <2>3. CASE n # 0
    <3>1. f[n] \in Q
      BY <2>1, <2>3
    <3>2. f[n + 1] = f[n] \/ f[n + 1] = Send(f[n], w)
      BY <1>3, <2>1
    <3> QED
      BY <3>1, <3>2
  <2> QED
    BY <2>2, <2>3
<1>6. N \in T
  BY <1>2, <1>4, <1>5, SetInduction
<1> QED
  BY <1>1, <1>2, <1>6 DEF N

-----------------------------------------------------------------------------
(* The set-point handshake                                                 *)

\* A position command in PP is under way: target t, no device reset due.
Commanding(q, t) ==
  /\ Good(q) /\ Quiet(q) /\ StatusOk(q.drive) /\ Settled(q)
  /\ q.rx.mode = "pp" /\ q.rx.target = t /\ q.drive.lastMode = "pp"

\* Words 0x000F do not bring the drive to Operation Enabled from here.
Down(q) == q.drive.sm \in {"off", "ready"}

\* The drive does not take the target it is given.
Refuses(q, t) ==
  q.drive.lastTarget = t \/ ~Within(t, q.drive.limits)

Rejects(q, t) ==
  q.drive.rejected /\ q.drive.referenced /\ Refuses(q, t) /\ Enabled(q.drive)

OnTheWay(q, t) ==
  Enabled(q.drive) /\ q.drive.referenced /\ q.drive.lastTarget = t
  /\ q.drive.ppTarget = t

\* The target of an exchange in PP without device reset and mode change
LEMMA PpBeforeMode ==
  ASSUME NEW d \in DriveStates, NEW r \in RxImages, NEW k, k = BeforeMode(d, r),
         ~Resets(d), d.lastMode = "pp", r.mode = "pp",
         ~(Enabled(d) /\ ~Enabled(k))
  PROVE  /\ k \in DriveStates /\ k.word = r.word /\ k.mode = "pp"
         /\ k.sm = StateAfter(d.sm, r.word)
         /\ k.referenced = d.referenced /\ k.limits = d.limits /\ k.ack = d.ack
         /\ k.previous = d.previous /\ k.target = k.lastTarget
         /\ \/ /\ k.lastTarget = d.lastTarget /\ k.ppTarget = d.ppTarget
               /\ k.rejected = d.rejected
               /\ r.target = d.lastTarget \/ ~d.referenced
            \/ k.rejected /\ ~Within(r.target, d.limits) /\ r.target # d.lastTarget
            \/ /\ ~k.rejected /\ k.lastTarget = r.target /\ k.ppTarget = d.ppTarget
               /\ Within(r.target, d.limits)
         /\ r.target = d.lastTarget =>
              k.rejected = d.rejected /\ k.lastTarget = d.lastTarget
<1> DEFINE a == ResetStage(d, r)
           m == ModeStage(d, r)
           t == TargetStage(d, r)
<1>2. /\ SameRun(d, a) /\ GoesOn(d, a) /\ a.word = r.word /\ a.mode = "pp"
      /\ a.sm = d.sm /\ a.rejected = d.rejected
      /\ a.target = r.target /\ a.lastTarget = d.lastTarget /\ a.lastMode = "pp"
  BY ResetStageFacts DEF EffectiveWord, EffectiveMode
<1>3. m = a
  BY <1>2, ModeStageFacts
<1>4. /\ SameRun(m, t) /\ t.sm = m.sm /\ t.word = m.word /\ t.mode = m.mode
      /\ t.target = t.lastTarget
      /\ \/ /\ TargetKept(m, t)
            /\ a.target = m.lastTarget \/ ~m.referenced
         \/ TargetRefused(m, t, a.target) /\ a.target # m.lastTarget
         \/ TargetTaken(m, t, a.target)
      /\ a.target = m.lastTarget => t = m
  BY TargetStageFacts
<1>5. k = SteppedState(t) /\ k \in DriveStates /\ t \in DriveStates
  BY StageTypes
<1>6. k.sm = StateAfter(d.sm, r.word) /\ k.word = r.word /\ k.mode = "pp"
  BY BeforeModeFacts DEF EffectiveWord, EffectiveMode
<1> HIDE DEF a, m, t
<1>7. k = [t EXCEPT !.sm = StateAfter(t.sm, t.word)]
  <2> DEFINE e == [t EXCEPT !.sm = StateAfter(t.sm, t.word)]
  <2>1. e.sm = k.sm
    BY <1>2, <1>3, <1>4, <1>5, <1>6 DEF DriveStates
  <2>2. Enabled(e) <=> Enabled(k)
    BY <2>1 DEF Enabled
  <2>3. Enabled(t) <=> Enabled(d)
    BY <1>2, <1>3, <1>4 DEF Enabled
  <2> HIDE DEF e
  <2>4. ~(Enabled(t) /\ ~Enabled(e))
    BY <2>2, <2>3
  <2> QED
    BY <1>5, <2>4 DEF SteppedState, e
<1>8. /\ k.referenced = t.referenced /\ k.limits = t.limits /\ k.ack = t.ack
      /\ k.previous = t.previous /\ k.lastTarget = t.lastTarget /\ k.target = t.target
      /\ k.ppTarget = t.ppTarget /\ k.rejected = t.rejected
  BY <1>5, <1>7 DEF DriveStates
<1> QED
  BY <1>2, <1>3, <1>4, <1>5, <1>6, <1>8
     DEF SameRun, GoesOn, TargetKept, TargetRefused, TargetTaken, StopsHere

LEMMA WordFacts ==
  /\ Base.op = 15 /\ ~Base.reset /\ ~Base.b4 /\ ~Word(0).b4 /\ ~Base.halt
  /\ NewSetpoint.op = 15 /\ ~NewSetpoint.reset /\ NewSetpoint.b4 /\ ~NewSetpoint.halt
<1>1. Base.op = 15 /\ ~Base.reset /\ ~Base.b4 /\ ~Word(0).b4 /\ ~Base.halt
  BY DEF Base, Word
<1>2. NewSetpoint.op = 15 /\ ~NewSetpoint.reset /\ NewSetpoint.b4 /\ ~NewSetpoint.halt
  BY DEF NewSetpoint, Base, Word
<1> QED
  BY <1>1, <1>2

LEMMA PpOutcome ==
  ASSUME NEW k \in DriveStates, NEW n, n = ProfilePosition(k)
  PROVE  /\ SameSetup(k, n) /\ SameReference(k, n)
         /\ PpRefuses(k) => ~n.ack /\ n.ppTarget = k.ppTarget
         /\ ~PpRefuses(k) =>
              n.ack = k.word.b4 /\ n.ppTarget = IF Edge(k) THEN k.target ELSE k.ppTarget
<1>1. SameSetup(k, n) /\ SameReference(k, n)
  BY ProfilePositionFrame
<1>2. CASE PpRefuses(k)
  <2> DEFINE h == PpHalted(k)
  <2>1. n = Travel(h, 0)
    BY <1>2, ProfilePositionIs DEF Decelerated
  <2>2. h \in DriveStates /\ h.ack = FALSE /\ h.ppTarget = k.ppTarget
    <3>1. h \in DriveStates
      BY PpHaltedType
    <3>2. h.ack = FALSE /\ h.ppTarget = k.ppTarget
      BY DEF PpHalted, DriveStates
    <3> QED
      BY <3>1, <3>2
  <2> HIDE DEF h
  <2>3. 0 \in (-MaxVelocity)..MaxVelocity
    BY Sizes
  <2>4. n.ack = h.ack /\ n.ppTarget = h.ppTarget
    BY <2>1, <2>2, <2>3, TravelFrame
  <2> QED
    BY <1>1, <1>2, <2>2, <2>4
<1>3. CASE ~PpRefuses(k)
  <2> DEFINE g == PpGoing(k)
  <2>1. n = Pursued(g) /\ g \in DriveStates
    BY <1>3, ProfilePositionIs, PpGoingType
  <2>2. /\ g.ack = k.word.b4
        /\ Edge(k) => g.ppTarget = k.target
        /\ ~Edge(k) => g.ppTarget = k.ppTarget
    BY PpGoingFacts
  <2> HIDE DEF g
  <2>3. n.ack = g.ack /\ n.ppTarget = g.ppTarget
    BY <2>1, PursuedFrame
  <2> QED
    BY <1>1, <1>3, <2>2, <2>3
<1> QED
  BY <1>2, <1>3

\* One exchange of the handshake
LEMMA PpExchange ==
  ASSUME NEW d \in DriveStates, NEW r \in RxImages, NEW e, e = Exchanged(d, r),
         ~Resets(d), d.lastMode = "pp", r.mode = "pp",
         r.word \in {Base, NewSetpoint}
  PROVE  /\ e.sm = StateAfter(d.sm, r.word) /\ e.limits = d.limits
         /\ e.referenced = d.referenced /\ e.previous = r.word /\ e.word = r.word
         /\ ~Enabled(e) => e.ack = d.ack
         /\ Enabled(e) /\ ~e.referenced => ~e.ack
         /\ Enabled(e) /\ e.referenced =>
              IF r.word.b4 /\ ~d.previous.b4
              THEN e.rejected \/ e.ppTarget = e.lastTarget
              ELSE e.rejected \/ e.ppTarget = d.ppTarget
         /\ \/ /\ e.lastTarget = d.lastTarget /\ e.rejected = d.rejected
               /\ r.target = d.lastTarget \/ ~d.referenced
            \/ e.rejected /\ ~Within(r.target, d.limits) /\ r.target # d.lastTarget
            \/ ~e.rejected /\ e.lastTarget = r.target /\ Within(r.target, d.limits)
         /\ r.target = d.lastTarget =>
              e.rejected = d.rejected /\ e.lastTarget = d.lastTarget
         /\ e.rejected /\ r.target = d.lastTarget => e.ppTarget = d.ppTarget
              \/ (r.word.b4 /\ ~d.previous.b4) \/ ~Enabled(e)
<1> DEFINE k == BeforeMode(d, r)
           n == AfterMode(d, r)
<1>1. k \in DriveStates
  BY StageTypes
<1>2. n = ProcessMode(k)
  BY DEF AfterMode
<1>3. k.sm = StateAfter(d.sm, r.word)
  BY BeforeModeFacts DEF EffectiveWord
<1> HIDE DEF k, n
<1>4. r.word.op = 15 /\ ~r.word.reset /\ ~r.word.halt
  BY WordFacts
<1>5. ~(Enabled(d) /\ ~Enabled(k))
  BY <1>3, <1>4 DEF Enabled, StateAfter
<1>6. /\ k.word = r.word /\ k.mode = "pp"
      /\ k.referenced = d.referenced /\ k.limits = d.limits /\ k.ack = d.ack
      /\ k.previous = d.previous /\ k.target = k.lastTarget
      /\ \/ /\ k.lastTarget = d.lastTarget /\ k.ppTarget = d.ppTarget
            /\ k.rejected = d.rejected
            /\ r.target = d.lastTarget \/ ~d.referenced
         \/ k.rejected /\ ~Within(r.target, d.limits) /\ r.target # d.lastTarget
         \/ /\ ~k.rejected /\ k.lastTarget = r.target /\ k.ppTarget = d.ppTarget
            /\ Within(r.target, d.limits)
      /\ r.target = d.lastTarget =>
           k.rejected = d.rejected /\ k.lastTarget = d.lastTarget
  BY <1>5, PpBeforeMode DEF k
<1>7. e \in DriveStates /\ Ends(n, e)
  BY ExchangedEnds DEF n
<1>8. CASE ~Enabled(k)
  <2>1. n = k
    BY <1>1, <1>2, <1>8, ProcessModeFacts
  <2>2. ~Enabled(e)
    BY <1>7, <1>8, <2>1 DEF Ends, Enabled
  <2> QED
    BY <1>3, <1>6, <1>7, <2>1, <2>2 DEF Ends
<1>9. CASE Enabled(k)
  <2>1. n = ProfilePosition(k)
    BY <1>1, <1>2, <1>6, <1>9, ModeCases
  <2>2. /\ SameSetup(k, n) /\ SameReference(k, n)
        /\ PpRefuses(k) => ~n.ack /\ n.ppTarget = k.ppTarget
        /\ ~PpRefuses(k) =>
             n.ack = k.word.b4 /\ n.ppTarget = IF Edge(k) THEN k.target ELSE k.ppTarget
    BY <1>1, <2>1, PpOutcome
  <2>3. PpRefuses(k) <=> ~k.referenced \/ (Edge(k) /\ k.rejected)
    BY <1>4, <1>6 DEF PpRefuses
  <2>4. Edge(k) <=> r.word.b4 /\ ~d.previous.b4
    BY <1>6 DEF Edge
  <2>5. /\ e.sm = k.sm /\ e.limits = k.limits /\ e.lastTarget = k.lastTarget
        /\ e.rejected = k.rejected /\ e.referenced = k.referenced
        /\ e.previous = k.word /\ e.word = k.word
        /\ e.ack = n.ack /\ e.ppTarget = n.ppTarget
    BY <1>7, <2>2 DEF Ends, SameSetup, SameReference
  <2>6. Enabled(e)
    BY <1>9, <2>5 DEF Enabled
  <2>7. ~e.referenced => ~e.ack
    BY <2>2, <2>3, <2>5
  <2>8. e.referenced =>
              IF r.word.b4 /\ ~d.previous.b4
              THEN e.rejected \/ e.ppTarget = e.lastTarget
              ELSE e.rejected \/ e.ppTarget = d.ppTarget
    BY <1>6, <2>2, <2>3, <2>4, <2>5
  <2>9. e.rejected /\ r.target = d.lastTarget /\ ~Edge(k) => e.ppTarget = d.ppTarget
    BY <1>6, <2>2, <2>5
  <2> QED
    BY <1>3, <1>6, <2>4, <2>5, <2>6, <2>7, <2>8, <2>9
<1> QED
  BY <1>8, <1>9

\* Before the set-point bit, after it, and once the drive has acknowledged
Asked(t) == {q \in Pairs : Commanding(q, t) /\ ~q.drive.previous.b4}
Decided(q, t) ==
  \/ OnTheWay(q, t) \/ Rejects(q, t)
  \/ ~q.drive.ack /\ (Down(q) \/ ~q.drive.referenced)
Answered(t) == {q \in Pairs : Commanding(q, t) /\ q.drive.previous.b4 /\ Decided(q, t)}
Settling(t) == {q \in Pairs : Commanding(q, t) /\ (OnTheWay(q, t) \/ Rejects(q, t))}

\* What any exchange of the handshake leaves
LEMMA CommandingSent ==
  ASSUME NEW q, Good(q), q.rx.mode = "pp", q.drive.lastMode = "pp",
         NEW w \in {Base, NewSetpoint}, NEW s, s = Send(q, w)
  PROVE  /\ Commanding(s, q.rx.target) /\ s \in Pairs
         /\ s.rx \in RxImages /\ s.rx.word = w /\ s.rx.mode = "pp"
         /\ s.rx.target = q.rx.target
         /\ q.drive \in DriveStates /\ s.drive = Exchanged(q.drive, s.rx)
<1>1. w \in Words
  BY WordTypes
<1>2. /\ s.rx \in RxImages /\ s.rx.word = w /\ SameRequest(q, s)
      /\ s.drive = Exchanged(q.drive, s.rx) /\ q.drive \in DriveStates
  BY <1>1, SendIs DEF Good
<1>3. Good(s) /\ Settled(s) /\ Quiet(s) /\ StatusOk(s.drive)
  BY <1>1, SendFacts
<1>4. s.drive.lastMode = "pp"
  <2>1. s.drive.lastMode = EffectiveMode(q.drive, s.rx)
    BY <1>2, ExchangeFacts
  <2> QED
    BY <1>2, <2>1 DEF EffectiveMode, SameRequest
<1> QED
  BY <1>2, <1>3, <1>4 DEF Commanding, SameRequest, Good

LEMMA AskedSent ==
  ASSUME NEW q, Good(q), q.rx.mode = "pp", q.drive.lastMode = "pp"
  PROVE  Send(q, Base) \in Asked(q.rx.target)
<1> DEFINE s == Send(q, Base)
<1>1. /\ Commanding(s, q.rx.target) /\ s \in Pairs
      /\ s.rx \in RxImages /\ s.rx.word = Base
      /\ q.drive \in DriveStates /\ s.drive = Exchanged(q.drive, s.rx)
  BY CommandingSent
<1>2. s.drive.previous = EffectiveWord(q.drive, s.rx)
  BY <1>1, ExchangeFacts
<1> HIDE DEF s
<1>3. ~s.drive.previous.b4
  BY <1>1, <1>2, WordFacts DEF EffectiveWord
<1> QED
  BY <1>1, <1>3 DEF Asked, s

LEMMA AskedKept ==
  ASSUME NEW t, NEW q \in Asked(t)
  PROVE  Send(q, Base) \in Asked(t)
BY AskedSent DEF Asked, Commanding

\* The state machine under 0x000F
LEMMA EnablingFacts ==
  ASSUME NEW s \in {"off", "ready", "on", "enabled"}, NEW w \in {Base, NewSetpoint}
  PROVE  /\ StateAfter(s, w) \in {"off", "ready", "enabled"}
         /\ s \in {"off", "ready"} => StateAfter(s, w) = s
         /\ s = "enabled" => StateAfter(s, w) = s
<1>1. w.op = 15 /\ ~w.reset
  BY WordFacts
<1> QED
  BY <1>1 DEF StateAfter

\* The cycle in which the drive sees the edge of the set-point bit
LEMMA AnsweredSent ==
  ASSUME NEW t, NEW q \in Asked(t), ~q.drive.ack
  PROVE  Send(q, NewSetpoint) \in Answered(t)
<1> DEFINE s == Send(q, NewSetpoint)
           d == q.drive
           e == s.drive
           r == s.rx
<1>1. /\ Good(q) /\ Quiet(q) /\ q.rx.mode = "pp" /\ q.rx.target = t
      /\ d.lastMode = "pp" /\ ~d.previous.b4
  BY DEF Asked, Commanding
<1>2. /\ Commanding(s, t) /\ s \in Pairs
      /\ r \in RxImages /\ r.word = NewSetpoint /\ r.mode = "pp" /\ r.target = t
      /\ d \in DriveStates /\ e = Exchanged(d, r)
  BY <1>1, CommandingSent
<1>3. d.sm \in {"off", "ready", "on", "enabled"}
  BY <1>1 DEF Good, DriveInv, DriveStates
<1>4. ~d.ack /\ ~Resets(d)
  BY <1>1 DEF Quiet, Resets
<1> HIDE DEF s, d, e, r
<1>5. /\ e.sm = StateAfter(d.sm, NewSetpoint) /\ e.limits = d.limits
      /\ e.referenced = d.referenced /\ e.previous = NewSetpoint
      /\ ~Enabled(e) => e.ack = d.ack
      /\ Enabled(e) /\ ~e.referenced => ~e.ack
      /\ Enabled(e) /\ e.referenced => e.rejected \/ e.ppTarget = e.lastTarget
      /\ \/ /\ e.lastTarget = d.lastTarget /\ e.rejected = d.rejected
            /\ t = d.lastTarget \/ ~d.referenced
         \/ e.rejected /\ ~Within(t, d.limits) /\ t # d.lastTarget
         \/ ~e.rejected /\ e.lastTarget = t /\ Within(t, d.limits)
  BY <1>1, <1>2, <1>4, PpExchange, WordFacts
<1>6. e.sm \in {"off", "ready", "enabled"}
  BY <1>3, <1>5, EnablingFacts
<1>7. Decided(s, t)
  <2>1. CASE e.sm \in {"off", "ready"}
    BY <1>4, <1>5, <2>1 DEF Decided, Down, Enabled, e
  <2>2. CASE e.sm = "enabled" /\ ~e.referenced
    BY <1>5, <2>2 DEF Decided, Enabled, e
  <2>3. CASE e.sm = "enabled" /\ e.referenced /\ e.rejected
    <3>1. e.lastTarget = t \/ ~Within(t, e.limits)
      BY <1>5, <2>3 DEF Within
    <3> QED
      BY <2>3, <3>1 DEF Decided, Rejects, Refuses, Enabled, e
  <2>4. CASE e.sm = "enabled" /\ e.referenced /\ ~e.rejected
    BY <1>5, <2>4 DEF Decided, OnTheWay, Enabled, e
  <2> QED
    BY <1>6, <2>1, <2>2, <2>3, <2>4
<1> QED
  BY <1>2, <1>5, <1>7, WordFacts DEF Answered, s, e

\* The drive does not change its mind in the cycles without an edge.
LEMMA DecisionKept ==
  ASSUME NEW t, NEW q \in Pairs, Commanding(q, t), NEW w \in {Base, NewSetpoint},
         q.drive.previous.b4 \/ w = Base, NEW s, s = Send(q, w)
  PROVE  /\ Commanding(s, t) /\ s \in Pairs /\ s.drive.previous = w
         /\ OnTheWay(q, t) => OnTheWay(s, t)
         /\ Rejects(q, t) => Rejects(s, t)
         /\ Decided(q, t) => Decided(s, t)
<1> DEFINE d == q.drive
           e == s.drive
           r == s.rx
<1>1. /\ Good(q) /\ Quiet(q) /\ q.rx.mode = "pp" /\ q.rx.target = t
      /\ d.lastMode = "pp"
  BY DEF Commanding
<1>2. /\ Commanding(s, t) /\ s \in Pairs
      /\ r \in RxImages /\ r.word = w /\ r.mode = "pp" /\ r.target = t
      /\ d \in DriveStates /\ e = Exchanged(d, r)
  BY <1>1, CommandingSent
<1>3. d.sm \in {"off", "ready", "on", "enabled"} /\ ~Resets(d)
  BY <1>1 DEF Good, DriveInv, DriveStates, Quiet, Resets
<1>4. ~(w.b4 /\ ~d.previous.b4)
  BY WordFacts
<1> HIDE DEF d, e, r
<1>5. /\ e.sm = StateAfter(d.sm, w) /\ e.limits = d.limits
      /\ e.referenced = d.referenced /\ e.previous = w
      /\ ~Enabled(e) => e.ack = d.ack
      /\ Enabled(e) /\ ~e.referenced => ~e.ack
      /\ Enabled(e) /\ e.referenced => e.rejected \/ e.ppTarget = d.ppTarget
      /\ \/ /\ e.lastTarget = d.lastTarget /\ e.rejected = d.rejected
            /\ t = d.lastTarget \/ ~d.referenced
         \/ e.rejected /\ ~Within(t, d.limits) /\ t # d.lastTarget
         \/ ~e.rejected /\ e.lastTarget = t /\ Within(t, d.limits)
      /\ t = d.lastTarget => e.rejected = d.rejected /\ e.lastTarget = d.lastTarget
      /\ e.rejected /\ t = d.lastTarget => e.ppTarget = d.ppTarget \/ ~Enabled(e)
  BY <1>1, <1>2, <1>3, <1>4, PpExchange
<1>6. /\ d.sm \in {"off", "ready"} => e.sm = d.sm
      /\ Enabled(d) => Enabled(e)
  BY <1>3, <1>5, EnablingFacts DEF Enabled
<1>7. OnTheWay(q, t) => OnTheWay(s, t)
  BY <1>5, <1>6 DEF OnTheWay, d, e
<1>8. Rejects(q, t) => Rejects(s, t)
  BY <1>5, <1>6 DEF Rejects, Refuses, d, e
<1>9. ~d.ack /\ (Down(q) \/ ~d.referenced) => ~e.ack /\ (Down(s) \/ ~e.referenced)
  BY <1>5, <1>6 DEF Down, Enabled, d, e
<1> QED
  BY <1>2, <1>5, <1>7, <1>8, <1>9 DEF Decided, d, e

LEMMA HandshakeKeeps ==
  ASSUME NEW p, NEW Q, Send(p, Base) \in Q,
         \A q \in Q : Send(q, Base) \in Q /\ Send(q, NewSetpoint) \in Q
  PROVE  Handshake(p).p \in Q
<1> DEFINE h0 == [p |-> p, ok |-> TRUE]
           h1 == Waited(h0, Base, FALSE)
           h2 == Waited(h1, NewSetpoint, TRUE)
           h3 == Waited(h2, Base, FALSE)
<1>1. h1.p \in Q
  <2>1. h0.p = p
    OBVIOUS
  <2> HIDE DEF h0
  <2> QED
    BY <2>1, WaitedReaches
<1> HIDE DEF h1
<1>2. h2.p \in Q
  BY <1>1, WaitedReaches
<1> HIDE DEF h2
<1>3. h3.p \in Q
  BY <1>2, WaitedReaches
<1> QED
  BY <1>3 DEF Handshake, h1, h2

LEMMA HandshakeFacts ==
  ASSUME NEW p, Good(p), p.rx.mode = "pp", NEW h, h = Handshake(p)
  PROVE  Reached(p, h.p) /\ SameRequest(p, h.p)
<1> DEFINE Q == {s \in Pairs : Reached(p, s) /\ SameRequest(p, s)}
<1>0. Base \in Words /\ NewSetpoint \in Words
  BY WordTypes
<1>1. ASSUME NEW w \in Words
      PROVE  Send(p, w) \in Q
  <2> DEFINE u == Send(p, w)
  <2>1. Good(u) /\ Settled(u) /\ Follows(p, u) /\ SameRequest(p, u)
    BY SendFacts
  <2> QED
    BY <2>1 DEF Reached, Good
<1>2. ASSUME NEW s \in Q, NEW w \in Words
      PROVE  Send(s, w) \in Q
  <2> DEFINE u == Send(s, w)
  <2>0. Good(s) /\ Reached(p, s) /\ SameRequest(p, s)
    BY DEF Reached
  <2>1. Good(u) /\ Settled(u) /\ Follows(s, u) /\ SameRequest(s, u)
    BY <2>0, SendFacts
  <2> HIDE DEF u
  <2>2. Reached(p, u) /\ SameRequest(p, u)
    BY <2>0, <2>1, FollowsOn DEF Reached, SameRequest
  <2> QED
    BY <2>1, <2>2 DEF Good, u
<1>3. h.p \in Q
  <2> HIDE DEF Q
  <2> QED
    BY <1>0, <1>1, <1>2, HandshakeKeeps
<1> QED
  BY <1>3

\* The three waits end well only if the drive has taken the target, or rejected it.
LEMMA HandshakeTaken ==
  ASSUME NEW p, Good(p), p.rx.mode = "pp", p.drive.lastMode = "pp",
         NEW h, h = Handshake(p), h.ok
  PROVE  h.p.drive.ppTarget = h.p.rx.target \/ h.p.drive.status.warning
<1> DEFINE t == p.rx.target
           h0 == [p |-> p, ok |-> TRUE]
           h1 == Waited(h0, Base, FALSE)
           h2 == Waited(h1, NewSetpoint, TRUE)
           h3 == Waited(h2, Base, FALSE)
<1>1. h = h3
  BY DEF Handshake
<1>2. h1.p \in Asked(t) /\ (h1.ok => h1.p.drive.status.ack = FALSE)
  <2>1. h0.p = p
    OBVIOUS
  <2>2. Send(p, Base) \in Asked(t)
    BY AskedSent
  <2>3. \A q \in Asked(t) : Send(q, Base) \in Asked(t)
    BY AskedKept
  <2> HIDE DEF h0, t
  <2> QED
    BY <2>1, <2>2, <2>3, WaitedReaches
<1> HIDE DEF h0, h1, t
<1>3. h2.ok
  BY <1>1, WaitedOk
<1>4. h1.ok
  BY <1>3, WaitedOk
<1>5. h2.p \in Settling(t)
  <2>1. ~h1.p.drive.ack
    BY <1>2, <1>4 DEF Asked, Commanding, StatusOk
  <2>2. Send(h1.p, NewSetpoint) \in Answered(t)
    BY <1>2, <2>1, AnsweredSent
  <2>3. ASSUME NEW q \in Answered(t) PROVE Send(q, NewSetpoint) \in Answered(t)
    BY DecisionKept, WordFacts DEF Answered
  <2>4. h2.p \in Answered(t) /\ (h2.ok => h2.p.drive.status.ack = TRUE)
    BY <2>2, <2>3, WaitedReaches
  <2> HIDE DEF h2
  <2> QED
    BY <1>3, <2>4 DEF Answered, Settling, Commanding, Decided, StatusOk
<1> HIDE DEF h2
<1>6. ASSUME NEW q \in Settling(t)
      PROVE  Send(q, Base) \in Settling(t)
  <2> DEFINE s == Send(q, Base)
  <2>1. /\ Commanding(s, t) /\ s \in Pairs
        /\ OnTheWay(q, t) => OnTheWay(s, t)
        /\ Rejects(q, t) => Rejects(s, t)
    BY DecisionKept DEF Settling
  <2> HIDE DEF s
  <2> QED
    BY <2>1 DEF Settling, s
<1>7. h3.p \in Settling(t)
  BY <1>5, <1>6, WaitedReaches
<1> HIDE DEF h3
<1>8. CASE OnTheWay(h3.p, t)
  BY <1>1, <1>7, <1>8 DEF Settling, Commanding, OnTheWay
<1>9. CASE Rejects(h3.p, t)
  <2>1. h3.p.drive.rejected /\ StatusOk(h3.p.drive) /\ DriveInv(h3.p.drive)
    BY <1>7, <1>9 DEF Settling, Commanding, Rejects, Good
  <2>2. h3.p.drive.warning
    BY <2>1 DEF DriveInv, MotionOk
  <2> QED
    BY <1>1, <2>1, <2>2 DEF StatusOk, LimitActive
<1> QED
  BY <1>7, <1>8, <1>9 DEF Settling

-----------------------------------------------------------------------------
(* The inductive invariant                                                 *)

\* A homing run that has seen the reference low is zeroed once it is
\* referenced; a run that is reported complete was zeroed.
HomingOk(h, d) ==
  /\ h.active /\ h.seenLow /\ d.referenced => d.zeroed
  /\ h.state = "complete" => d.zeroed

Homings == [active : BOOLEAN, seenLow : BOOLEAN, original : Modes,
            state : {"inactive", "running", "complete", "stopped"}]

CoreInv ==
  /\ Good(Now) /\ Settled(Now) /\ HomingOk(homing, drive)
  /\ homing \in Homings /\ answer \in {"none", "moving", "failed", "reset"}
  /\ MoveIsTaken /\ ResetPreparesEnable

ServoInv == CoreInv /\ served \in 0..MaxRequests

LEMMA NowFacts ==
  ASSUME CoreInv
  PROVE  /\ Now.rx = rx /\ Now.drive = drive
         /\ rx \in RxImages /\ drive \in DriveStates /\ rx.word \in Words
         /\ rx.mode \in Modes
         /\ drive.status.enabled = Enabled(drive)
         /\ drive.lastMode = drive.mode
         /\ drive.mode # rx.mode => drive.sm = "off"
<1>1. Now.rx = rx /\ Now.drive = drive
  BY DEF Now
<1>2. rx \in RxImages /\ drive \in DriveStates
  BY <1>1 DEF CoreInv, Good, Pairs
<1> QED
  BY <1>1, <1>2 DEF CoreInv, Settled, RxImages

LEMMA Becoming ==
  ASSUME NEW p \in Pairs, Becomes(p)
  PROVE  Now' = p /\ rx' = p.rx /\ drive' = p.drive
<1>1. p = [rx |-> p.rx, drive |-> p.drive]
  BY DEF Pairs
<1> QED
  BY <1>1 DEF Now, Becomes

LEMMA HomingKept ==
  ASSUME NEW h, NEW p, NEW q, HomingOk(h, p.drive), Follows(p, q)
  PROVE  HomingOk(h, q.drive)
BY DEF HomingOk, Follows

\* A handler that answers nothing
LEMMA QuietStep ==
  ASSUME NEW p, Good(p), Settled(p), Becomes(p), Silent, homing' \in Homings,
         HomingOk(homing', p.drive)
  PROVE  CoreInv'
<1>1. p \in Pairs
  BY DEF Good
<1>2. Now' = p /\ drive' = p.drive
  BY <1>1, Becoming
<1>3. Good(Now') /\ Settled(Now') /\ HomingOk(homing', drive')
  BY <1>2
<1>4. answer' = "none"
  BY DEF Silent
<1> QED
  BY <1>3, <1>4 DEF CoreInv, MoveIsTaken, ResetPreparesEnable

\* A handler that leaves the homing run alone and answers nothing
LEMMA SilentStep ==
  ASSUME CoreInv, NEW p, Reached(Now, p), Becomes(p), Silent, UNCHANGED homing
  PROVE  CoreInv'
<1>1. HomingOk(homing, p.drive)
  BY HomingKept, NowFacts DEF CoreInv, Reached
<1> QED
  BY <1>1, QuietStep DEF Reached, CoreInv

LEMMA EndedFacts ==
  ASSUME CoreInv
  PROVE  /\ \A o \in {"complete", "stopped"} : Ended(o) \in Homings
         /\ \A o \in {"complete", "stopped"} :
              ~Ended(o).active /\ Ended(o).state = o
         /\ EndedHoming \in Homings
<1>1. ASSUME NEW o \in {"complete", "stopped"}
      PROVE  Ended(o) \in Homings /\ ~Ended(o).active /\ Ended(o).state = o
  <2>1. NoHoming \in Homings /\ ~NoHoming.active
    BY DEF NoHoming, Homings, Modes
  <2>2. Ended(o) = [NoHoming EXCEPT !.state = o]
    BY DEF Ended
  <2> QED
    BY <2>1, <2>2 DEF Homings
<1> QED
  BY <1>1 DEF EndedHoming, CoreInv

LEMMA EndedHomingOk ==
  ASSUME CoreInv, NEW q, Follows(Now, q)
  PROVE  HomingOk(EndedHoming, q.drive)
<1>1. HomingOk(homing, q.drive)
  BY HomingKept, NowFacts DEF CoreInv
<1>2. ~Ended("stopped").active /\ Ended("stopped").state = "stopped"
  BY EndedFacts
<1> QED
  BY <1>1, <1>2 DEF EndedHoming, HomingOk

\* The state in which axis/disable and axis/stop begin
Begun == IF homing.active THEN Finished(Now, homing) ELSE Now

LEMMA BegunFacts ==
  ASSUME CoreInv
  PROVE  /\ Reached(Now, Begun)
         /\ homing.active => /\ Begun.drive.mode = Begun.rx.mode
                             /\ homing.original # "homing" => Begun.rx.mode = homing.original
                             /\ homing.original = "homing" => Begun.rx.mode = rx.mode
<1>1. Good(Now) /\ Settled(Now) /\ homing.original \in Modes
  BY DEF CoreInv, Homings
<1>2. Reached(Now, Now)
  BY <1>1 DEF Reached, Follows
<1>3. CASE ~homing.active
  BY <1>2, <1>3 DEF Begun
<1>4. CASE homing.active
  <2> DEFINE q == Finished(Now, homing)
  <2>1. /\ Reached(Now, q) /\ q.drive.mode = q.rx.mode
        /\ homing.original # "homing" => q.rx.mode = homing.original
        /\ homing.original = "homing" => q.rx.mode = Now.rx.mode
    BY <1>1, FinishedFacts
  <2>2. Begun = q
    BY <1>4 DEF Begun
  <2> HIDE DEF q
  <2> QED
    BY <2>1, <2>2, NowFacts
<1> QED
  BY <1>3, <1>4

LEMMA EnableStep ==
  ASSUME CoreInv, Enable
  PROVE  CoreInv'
<1>1. Base \in Words /\ Good(Now)
  BY WordTypes DEF CoreInv
<1>2. Reached(Now, SendAll(Now, Times(3, Base)))
  BY <1>1, TimesSent
<1> QED
  BY <1>2, SilentStep DEF Enable

LEMMA DisableStep ==
  ASSUME CoreInv, Disable
  PROVE  CoreInv' /\ ~Enabled(drive')
<1> DEFINE q == Disabled(Begun)
<1>1. Reached(Now, Begun)
  BY BegunFacts
<1>2. Reached(Begun, q) /\ ~Enabled(q.drive)
  BY <1>1, DisabledFacts DEF Reached
<1>3. Becomes(q) /\ homing' = EndedHoming /\ Silent
  BY DEF Disable, Begun
<1> HIDE DEF q
<1>4. Reached(Now, q)
  BY <1>1, <1>2, ReachedOn
<1>5. HomingOk(homing', q.drive) /\ homing' \in Homings
  BY <1>3, <1>4, EndedHomingOk, EndedFacts DEF Reached
<1>6. drive' = q.drive
  BY <1>3 DEF Becomes
<1> QED
  BY <1>2, <1>3, <1>4, <1>5, <1>6, QuietStep DEF Reached

LEMMA StopStep ==
  ASSUME CoreInv, Stop
  PROVE  CoreInv'
<1>1. Reached(Now, Begun) /\ Good(Begun) /\ Settled(Begun)
  BY BegunFacts DEF Reached
<1> DEFINE q == IF Begun.drive.status.enabled THEN Stopped(Begun) ELSE Held(Begun)
<1>2. Becomes(q) /\ homing' = EndedHoming /\ Silent
  BY DEF Stop, Begun
<1>3. Reached(Begun, q)
  <2>1. Reached(Begun, Stopped(Begun))
    BY <1>1, StopFacts
  <2>2. Reached(Begun, Held(Begun))
    BY <1>1, HeldFacts DEF Reached
  <2> QED
    BY <2>1, <2>2
<1> HIDE DEF q
<1>4. Reached(Now, q)
  BY <1>1, <1>3, ReachedOn
<1>5. HomingOk(homing', q.drive) /\ homing' \in Homings
  BY <1>2, <1>4, EndedHomingOk, EndedFacts DEF Reached
<1> QED
  BY <1>2, <1>4, <1>5, QuietStep DEF Reached

LEMMA FaultResetStep ==
  ASSUME CoreInv, FaultReset
  PROVE  CoreInv' /\ ~Enabled(drive')
<1> DEFINE q == SendAll(Now, ResetWords(rx.word))
<1>1. Good(Now) /\ rx.word \in Words
  BY NowFacts DEF CoreInv
<1>2. Reached(Now, q) /\ q.drive.sm = "on"
  BY <1>1, ResetFacts
<1>3. Becomes(q) /\ answer' = "reset" /\ homing' = homing
  BY DEF FaultReset, PulseReset, ResetWords
<1> HIDE DEF q
<1>4. q \in Pairs /\ Good(q) /\ Settled(q)
  BY <1>2 DEF Reached, Good
<1>5. Now' = q /\ drive' = q.drive
  BY <1>3, <1>4, Becoming
<1>6. HomingOk(homing, q.drive)
  BY <1>2, HomingKept, NowFacts DEF CoreInv, Reached
<1>7. Good(Now') /\ Settled(Now') /\ HomingOk(homing', drive') /\ drive'.sm = "on"
  BY <1>2, <1>3, <1>4, <1>5, <1>6
<1>8. StateAfter("on", Base) = "enabled"
  BY DEF StateAfter, Base, Word
<1>9. MoveIsTaken' /\ ResetPreparesEnable'
  BY <1>3, <1>7, <1>8 DEF MoveIsTaken, ResetPreparesEnable
<1> QED
  BY <1>3, <1>7, <1>9 DEF CoreInv, Enabled

LEMMA SetModeStep ==
  ASSUME CoreInv, NEW m \in Modes, SetMode(m)
  PROVE  CoreInv' /\ drive'.mode = m
<1> DEFINE s == Held(Now)
           q == InMode(s, m)
<1>1. Good(s) /\ Follows(Now, s)
  BY HeldFacts DEF CoreInv
<1>2. Reached(s, q) /\ q.drive.mode = m
  BY <1>1, InModeFacts
<1>3. Becomes(q) /\ Silent /\ UNCHANGED homing
  BY DEF SetMode
<1> HIDE DEF s, q
<1>4. Reached(Now, q)
  BY <1>1, <1>2, FollowsOn DEF Reached
<1>5. drive'.mode = m
  BY <1>2, <1>3 DEF Becomes
<1> QED
  BY <1>3, <1>4, <1>5, SilentStep

\* axis/enable and the requests for motion need an enabled drive, whose mode is
\* that of the RxPDO image.
LEMMA EnabledMode ==
  ASSUME CoreInv, IsEnabled
  PROVE  Enabled(drive) /\ drive.mode = rx.mode /\ drive.lastMode = rx.mode
BY NowFacts DEF IsEnabled, Enabled

LEMMA MoveProfileStep ==
  ASSUME CoreInv, NEW t \in Targets, MoveProfile(t)
  PROVE  CoreInv'
<1> DEFINE p == [Now EXCEPT !.rx.target = t]
           r == [rx EXCEPT !.target = t]
           h == Handshake(p)
           q == IF h.ok THEN h.p ELSE Held(h.p)
<1>0. t \in Positions /\ Good(Now)
  BY Sizes DEF CoreInv
<1>1. rx.mode = "pp" /\ drive.lastMode = "pp"
  BY EnabledMode DEF MoveProfile
<1>2. p = [rx |-> r, drive |-> drive] /\ r \in RxImages /\ r.mode = "pp"
  BY <1>0, <1>1, TargetWritten, NowFacts
<1>3. Becomes(q) /\ answer' = (IF h.ok THEN "moving" ELSE "failed") /\ homing' = homing
  BY DEF MoveProfile
<1> HIDE DEF p, r
<1>4. Good(p) /\ Follows(Now, p) /\ p.rx.mode = "pp" /\ p.drive.lastMode = "pp"
  BY <1>0, <1>1, <1>2, Rewritten, NowFacts
<1>5. Reached(p, h.p)
  BY <1>4, HandshakeFacts
<1>6. h.ok => h.p.drive.ppTarget = h.p.rx.target \/ h.p.drive.status.warning
  BY <1>4, HandshakeTaken
<1> HIDE DEF h
<1>7. Reached(Now, h.p) /\ Good(h.p)
  BY <1>4, <1>5, FollowsOn DEF Reached
<1>8. Reached(Now, q)
  <2>1. Reached(Now, Held(h.p))
    BY <1>7, HeldFacts, FollowsOn DEF Reached
  <2> QED
    BY <1>7, <2>1
<1>9. h.ok => q = h.p
  OBVIOUS
<1> HIDE DEF q
<1>10. q \in Pairs /\ Good(q) /\ Settled(q)
  BY <1>8 DEF Reached, Good
<1>11. Now' = q /\ drive' = q.drive /\ rx' = q.rx
  BY <1>3, <1>10, Becoming
<1>12. HomingOk(homing, q.drive)
  BY <1>8, HomingKept, NowFacts DEF CoreInv, Reached
<1>13. Good(Now') /\ Settled(Now') /\ HomingOk(homing', drive')
  BY <1>3, <1>10, <1>11, <1>12
<1>14. MoveIsTaken' /\ ResetPreparesEnable'
  BY <1>3, <1>6, <1>9, <1>11 DEF MoveIsTaken, ResetPreparesEnable
<1> QED
  BY <1>3, <1>13, <1>14 DEF CoreInv

\* A handler that only writes its RxPDO image
LEMMA RxStep ==
  ASSUME CoreInv, rx' \in RxImages, rx'.mode = rx.mode, Silent,
         UNCHANGED <<drive, homing>>
  PROVE  CoreInv'
<1> DEFINE p == [rx |-> rx', drive |-> drive]
<1>1. Good(p) /\ Follows(Now, p) /\ Settled(p)
  BY Rewritten, NowFacts DEF CoreInv
<1>2. p.rx = rx' /\ p.drive = drive
  OBVIOUS
<1> HIDE DEF p
<1>3. Becomes(p) /\ Reached(Now, p)
  BY <1>1, <1>2 DEF Becomes, Reached
<1> QED
  BY <1>3, SilentStep

LEMMA MoveCyclicStep ==
  ASSUME CoreInv, NEW t \in Targets, MoveCyclic(t)
  PROVE  CoreInv'
<1>1. rx \in RxImages /\ t \in Positions /\ Base \in Words
  BY NowFacts, Sizes, WordTypes
<1>2. [rx EXCEPT !.target = t, !.word = Base] \in RxImages
      /\ [rx EXCEPT !.target = t, !.word = Base].mode = rx.mode
  BY <1>1 DEF RxImages
<1> QED
  BY <1>2, RxStep DEF MoveCyclic

LEMMA StartJogStep ==
  ASSUME CoreInv, NEW b \in BOOLEAN, StartJog(b)
  PROVE  CoreInv'
<1> DEFINE w == [Base EXCEPT !.b4 = b, !.b5 = ~b]
<1>1. rx \in RxImages /\ w \in Words
  BY NowFacts DEF Base, Word, Words
<1>2. rx' = [rx EXCEPT !.word = w]
  BY DEF StartJog
<1> HIDE DEF w
<1>3. rx' \in RxImages /\ rx'.mode = rx.mode
  BY <1>1, <1>2 DEF RxImages
<1> QED
  BY <1>3, RxStep DEF StartJog

LEMMA MoveVelocityStep ==
  ASSUME CoreInv, NEW v \in Velocities, MoveVelocity(v)
  PROVE  CoreInv'
<1>1. Reached(Now, SendAll([Now EXCEPT !.rx.velocity = v], Times(2, Base)))
  BY VelocitySent DEF CoreInv
<1> QED
  BY <1>1, SilentStep DEF MoveVelocity

\* The drive with a parameter that no part of its invariant is about
LEMMA ParameterWritten ==
  ASSUME NEW d, DriveInv(d), NEW b \in BOOLEAN, NEW l \in LimitPairs,
         NEW e, \/ e = [d EXCEPT !.zeroed = b]
                \/ e = [d EXCEPT !.resetCommand = b]
                \/ e = [d EXCEPT !.limits = l]
  PROVE  /\ DriveInv(e) /\ e.sm = d.sm /\ e.status = d.status
         /\ e.mode = d.mode /\ e.lastMode = d.lastMode /\ e.referenced = d.referenced
<1>0. d \in DriveStates
  BY DEF DriveInv
<1>1. /\ e \in DriveStates /\ e.sm = d.sm /\ e.vel = d.vel /\ e.ppActive = d.ppActive
      /\ e.lastMode = d.lastMode /\ e.lastTarget = d.lastTarget /\ e.checked = d.checked
      /\ e.pos = d.pos /\ e.ppTarget = d.ppTarget /\ e.ppChecked = d.ppChecked
  BY <1>0 DEF DriveStates
<1>2. /\ e.rejected = d.rejected /\ e.warning = d.warning /\ e.pushed = d.pushed
      /\ e.status = d.status /\ e.mode = d.mode /\ e.referenced = d.referenced
  BY <1>0 DEF DriveStates
<1>3. MotionOk(e)
  BY <1>1, <1>2 DEF DriveInv, MotionOk, Enabled, Stands, TargetOk, PpOk
<1> QED
  BY <1>1, <1>2, <1>3 DEF DriveInv

LEMMA ParameterStep ==
  ASSUME CoreInv, Silent, UNCHANGED <<rx, homing>>,
         NEW b \in BOOLEAN, NEW l \in LimitPairs,
         \/ drive' = [drive EXCEPT !.resetCommand = b]
         \/ drive' = [drive EXCEPT !.limits = l]
  PROVE  CoreInv' /\ drive'.vel = drive.vel
<1>1. DriveInv(drive) /\ drive \in DriveStates /\ rx \in RxImages
  BY NowFacts DEF CoreInv, Good
<1>2. /\ DriveInv(drive') /\ drive'.sm = drive.sm /\ drive'.status = drive.status
      /\ drive'.mode = drive.mode /\ drive'.lastMode = drive.lastMode
      /\ drive'.referenced = drive.referenced
  <2> DEFINE e == drive'
  <2>1. \/ e = [drive EXCEPT !.resetCommand = b]
        \/ e = [drive EXCEPT !.limits = l]
    OBVIOUS
  <2> HIDE DEF e
  <2>2. /\ DriveInv(e) /\ e.sm = drive.sm /\ e.status = drive.status
        /\ e.mode = drive.mode /\ e.lastMode = drive.lastMode
        /\ e.referenced = drive.referenced
    BY <1>1, <2>1, ParameterWritten
  <2> QED
    BY <2>2 DEF e
<1>3. drive'.zeroed = drive.zeroed /\ drive'.vel = drive.vel
  BY <1>1 DEF DriveStates
<1> DEFINE p == [rx |-> rx, drive |-> drive']
<1>4. p.rx = rx /\ p.drive = drive' /\ Good(p)
  BY <1>1, <1>2 DEF Good, Pairs, DriveInv
<1> HIDE DEF p
<1>5. Settled(p)
  BY <1>2, <1>4, NowFacts DEF CoreInv, Settled, Enabled
<1>6. HomingOk(homing', p.drive) /\ homing' \in Homings /\ Becomes(p)
  BY <1>2, <1>3, <1>4 DEF CoreInv, HomingOk, Becomes
<1> QED
  BY <1>3, <1>4, <1>5, <1>6, QuietStep

LEMMA ZeroedCleared ==
  ASSUME NEW p \in Pairs
  PROVE  [p EXCEPT !.drive.zeroed = FALSE]
           = [rx |-> p.rx, drive |-> [p.drive EXCEPT !.zeroed = FALSE]]
<1> DEFINE d == [p.drive EXCEPT !.zeroed = FALSE]
<1>1. [p EXCEPT !.drive.zeroed = FALSE] = [p EXCEPT !.drive = d]
  OBVIOUS
<1> HIDE DEF d
<1>2. [p EXCEPT !.drive = d] = [rx |-> p.rx, drive |-> d]
  BY DEF Pairs
<1> QED
  BY <1>1, <1>2 DEF d

LEMMA StartHomingStep ==
  ASSUME CoreInv, StartHoming
  PROVE  CoreInv' /\ drive'.mode = "homing"
<1> DEFINE c == [Now EXCEPT !.drive.zeroed = FALSE]
           i == InMode(c, "homing")
           low == StartLow(i)
           q == SendAll(low, Times(2, Bit4(rx.word, TRUE)))
<1>0. DriveInv(drive) /\ rx \in RxImages /\ rx.word \in Words /\ rx.mode \in Modes
      /\ drive.limits \in LimitPairs
  BY NowFacts DEF CoreInv, Good, DriveStates
<1>1. Good(c)
  <2> DEFINE d == [drive EXCEPT !.zeroed = FALSE]
  <2>1. c = [rx |-> rx, drive |-> d]
    <3>1. Now \in Pairs /\ Now.rx = rx /\ Now.drive = drive
      BY NowFacts DEF CoreInv, Good
    <3> QED
      BY <3>1, ZeroedCleared
  <2>2. DriveInv(d)
    BY <1>0, ParameterWritten
  <2> HIDE DEF d, c
  <2> QED
    BY <1>0, <2>1, <2>2 DEF Good, Pairs, DriveInv
<1>2. /\ Becomes(q) /\ Silent
      /\ homing' = [active |-> TRUE, state |-> "running", original |-> rx.mode,
                    seenLow |-> ~low.drive.status.referenced]
  BY DEF StartHoming
<1> HIDE DEF c
<1>3. Good(i) /\ i.rx.mode = "homing"
  BY <1>1, InModeFacts DEF Reached, Modes
<1> HIDE DEF i
<1>4. Good(low) /\ Settled(low) /\ low.rx.mode = "homing"
  BY <1>3, StartLowFacts DEF Reached, SameRequest
<1> HIDE DEF low
<1>5. Reached(low, q) /\ q.drive.mode = "homing"
  <2> DEFINE w == Bit4(rx.word, TRUE)
  <2>1. w \in Words
    BY <1>0, Bit4Type
  <2>2. q = SendAll(low, Times(2, w))
    OBVIOUS
  <2> HIDE DEF q, w
  <2>3. Reached(low, q) /\ SameRequest(low, q) /\ q.drive.mode = q.rx.mode
    BY <1>4, <2>1, <2>2, TimesSent
  <2> QED
    BY <1>4, <2>3 DEF SameRequest
<1> HIDE DEF q
<1>6. homing' \in Homings
  BY <1>0, <1>2, <1>4 DEF Homings, Settled, Good, Pairs, DriveStates
<1>7. HomingOk(homing', q.drive)
  <2>1. homing'.seenLow = ~low.drive.referenced /\ homing'.state = "running"
    BY <1>2, <1>4 DEF Settled
  <2> QED
    BY <1>5, <2>1 DEF HomingOk, Reached, Follows
<1>8. drive' = q.drive
  BY <1>2 DEF Becomes
<1> QED
  BY <1>2, <1>5, <1>6, <1>7, <1>8, QuietStep DEF Reached

LEMMA ExchangeIsSend ==
  ASSUME NEW p \in Pairs
  PROVE  Exchange(p) = Send(p, p.rx.word)
<1>1. [p EXCEPT !.rx.word = p.rx.word] = p
  BY DEF Pairs, RxImages
<1> QED
  BY <1>1 DEF Send

\* A cycle of the server loop, in its two outcomes
LEMMA CycleCases ==
  ASSUME CoreInv, Cycle, NEW p, p = Exchange(Now)
  PROVE  /\ Reached(Now, p) /\ Silent
         /\ \/ /\ Becomes(p)
               /\ homing' = homing \/ (homing.active /\ homing' =
                    [homing EXCEPT !.seenLow = homing.seenLow \/ ~p.drive.status.referenced])
            \/ /\ homing.active /\ p.drive.status.referenced /\ homing.seenLow
               /\ Becomes(Finished(p, homing)) /\ homing' = Ended("complete")
<1>1. Good(Now) /\ Now \in Pairs /\ rx.word \in Words /\ Now.rx = rx
  BY NowFacts DEF CoreInv, Good
<1>2. p = Send(Now, rx.word)
  BY <1>1, ExchangeIsSend
<1>3. Reached(Now, p)
  BY <1>1, <1>2, SendFacts DEF Reached
<1>4. CASE ~homing.active
  BY <1>3, <1>4 DEF Cycle
<1>5. CASE homing.active
  BY <1>3, <1>5 DEF Cycle, HomingDone
<1> QED
  BY <1>4, <1>5

LEMMA CycleStep ==
  ASSUME CoreInv, Cycle
  PROVE  CoreInv'
<1> DEFINE p == Exchange(Now)
<1>1. /\ Reached(Now, p) /\ Silent
      /\ \/ /\ Becomes(p)
            /\ homing' = homing \/ (homing.active /\ homing' =
                 [homing EXCEPT !.seenLow = homing.seenLow \/ ~p.drive.status.referenced])
         \/ /\ homing.active /\ p.drive.status.referenced /\ homing.seenLow
            /\ Becomes(Finished(p, homing)) /\ homing' = Ended("complete")
  BY CycleCases
<1> HIDE DEF p
<1>2. HomingOk(homing, p.drive) /\ Good(p) /\ Settled(p)
  BY <1>1, HomingKept, NowFacts DEF CoreInv, Reached
<1>3. homing \in Homings
  BY DEF CoreInv
<1>4. CASE Becomes(p) /\ homing' = homing
  BY <1>1, <1>2, <1>3, <1>4, QuietStep
<1>5. CASE /\ Becomes(p) /\ homing.active
           /\ homing' = [homing EXCEPT !.seenLow =
                           homing.seenLow \/ ~p.drive.status.referenced]
  <2> DEFINE b == homing.seenLow \/ ~p.drive.status.referenced
  <2>1. b \in BOOLEAN
    BY <1>3 DEF Homings
  <2>2. b => homing.seenLow \/ ~p.drive.referenced
    BY <1>2 DEF Settled
  <2>3. homing' = [homing EXCEPT !.seenLow = b]
    BY <1>5
  <2> HIDE DEF b
  <2>4. homing' \in Homings /\ homing'.seenLow = b /\ homing'.state = homing.state
        /\ homing'.active = homing.active
    BY <1>3, <2>1, <2>3 DEF Homings
  <2>5. HomingOk(homing', p.drive)
    BY <1>2, <1>5, <2>2, <2>4 DEF HomingOk
  <2> QED
    BY <1>1, <1>2, <1>5, <2>4, <2>5, QuietStep
<1>6. CASE /\ homing.active /\ p.drive.status.referenced /\ homing.seenLow
           /\ Becomes(Finished(p, homing)) /\ homing' = Ended("complete")
  <2> DEFINE q == Finished(p, homing)
  <2>1. homing.original \in Modes
    BY <1>3 DEF Homings
  <2>2. Reached(p, q)
    BY <1>2, <2>1, FinishedFacts
  <2>3. p.drive.zeroed
    BY <1>2, <1>6 DEF HomingOk, Settled
  <2> HIDE DEF q
  <2>4. q.drive.zeroed
    BY <2>2, <2>3 DEF Reached, Follows
  <2>5. HomingOk(homing', q.drive) /\ homing' \in Homings
    BY <1>6, <2>4, EndedFacts DEF HomingOk
  <2> QED
    BY <1>1, <1>6, <2>2, <2>5, QuietStep DEF Reached, q
<1> QED
  BY <1>1, <1>4, <1>5, <1>6

LEMMA PoweredOnInv ==
  ASSUME NEW l \in LimitPairs
  PROVE  DriveInv(PoweredOn(l)) /\ PoweredOn(l).referenced = FALSE
<1> DEFINE d == PoweredOn(l)
<1>1. Word(0) \in Words /\ 0 \in Positions /\ 0 \in (-MaxVelocity)..MaxVelocity
      /\ 0 \in 0..HomingCycles /\ "pp" \in Modes
  BY WordTypes, Sizes DEF Modes
<1>2. d \in DriveStates
  <2> DEFINE w == Word(0)
  <2> HIDE DEF w
  <2>1. w \in Words
    BY <1>1 DEF w
  <2> QED
    BY <1>1, <2>1 DEF PoweredOn, DriveStates, w
<1>3. /\ d.sm = "off" /\ d.vel = 0 /\ ~d.ppActive /\ d.lastTarget = d.pos
      /\ ~d.rejected /\ ~d.pushed /\ d.referenced = FALSE
  BY DEF PoweredOn
<1> HIDE DEF d
<1>4. MotionOk(d)
  BY <1>3 DEF MotionOk, Stands, TargetOk, PpOk
<1> QED
  BY <1>2, <1>3, <1>4 DEF DriveInv, d

LEMMA InitInv == Init => ServoInv
<1> SUFFICES ASSUME Init PROVE ServoInv
  OBVIOUS
<1>1. PICK l \in LimitPairs :
        \E p \in {SendAll([rx |-> [word |-> Word(0), mode |-> "pp", target |-> 0,
                                   velocity |-> 0],
                           drive |-> PoweredOn(l)],
                          <<Word(6), Word(7), Word(15)>>)} :
          rx = p.rx /\ drive = p.drive
  BY DEF Init
<1> DEFINE r == [word |-> Word(0), mode |-> "pp", target |-> 0, velocity |-> 0]
           s == [rx |-> r, drive |-> PoweredOn(l)]
           words == <<Word(6), Word(7), Word(15)>>
           p == SendAll(s, words)
<1>2. r \in RxImages
  BY WordTypes, Sizes DEF RxImages, Modes
<1>3. Good(s)
  <2>1. DriveInv(PoweredOn(l))
    BY PoweredOnInv
  <2> HIDE DEF r
  <2> QED
    BY <1>2, <2>1 DEF Good, Pairs, DriveInv
<1>4. words \in Seq(Words) /\ Len(words) > 0
  BY WordTypes
<1>5. rx = p.rx /\ drive = p.drive
  BY <1>1
<1> HIDE DEF s, words
<1>6. Good(p) /\ Settled(p)
  BY <1>3, <1>4, SendAllFacts
<1> HIDE DEF p
<1>7. p = [rx |-> p.rx, drive |-> p.drive]
  BY <1>6 DEF Good, Pairs
<1>8. Now = p
  BY <1>5, <1>7 DEF Now
<1>9. homing = NoHoming /\ answer = "none" /\ served = 0
  BY DEF Init
<1>10. HomingOk(homing, drive) /\ homing \in Homings
  BY <1>9 DEF NoHoming, HomingOk, Homings, Modes
<1>11. served \in 0..MaxRequests
  BY <1>9, SizesAssumption
<1> QED
  BY <1>6, <1>8, <1>9, <1>10, <1>11
     DEF ServoInv, CoreInv, MoveIsTaken, ResetPreparesEnable

LEMMA NextInv == ServoInv /\ [Next]_vars => ServoInv'
<1> SUFFICES ASSUME ServoInv, [Next]_vars PROVE ServoInv'
  OBVIOUS
<1>0. CoreInv /\ served \in 0..MaxRequests /\ MaxRequests \in Nat
  BY SizesAssumption DEF ServoInv
<1>1. CASE UNCHANGED vars
  <2>1. UNCHANGED <<rx, drive, homing, answer, served>>
    BY <1>1 DEF vars
  <2>2. Now' = Now
    BY <2>1 DEF Now
  <2> QED
    BY <1>0, <2>1, <2>2 DEF ServoInv, CoreInv, MoveIsTaken, ResetPreparesEnable
<1>2. CASE Cycle /\ UNCHANGED served
  BY <1>0, <1>2, CycleStep DEF ServoInv
<1>3. CASE Request
  <2>1. served' \in 0..MaxRequests
    BY <1>0, <1>3 DEF Request
  <2>2. LimitPairs # {} /\ drive.limits \in LimitPairs
    BY <1>0, NowFacts DEF DriveStates
  <2>3. CASE Enable \/ Disable \/ FaultReset \/ Stop \/ StartHoming
    BY <1>0, <2>1, <2>3, EnableStep, DisableStep, FaultResetStep, StopStep,
       StartHomingStep DEF ServoInv
  <2>4. CASE \E m \in Modes : SetMode(m)
    BY <1>0, <2>1, <2>4, SetModeStep DEF ServoInv
  <2>5. CASE \E t \in Targets : MoveProfile(t) \/ MoveCyclic(t)
    BY <1>0, <2>1, <2>5, MoveProfileStep, MoveCyclicStep DEF ServoInv
  <2>6. CASE \E v \in Velocities : MoveVelocity(v)
    BY <1>0, <2>1, <2>6, MoveVelocityStep DEF ServoInv
  <2>7. CASE \E b \in BOOLEAN : StartJog(b)
    BY <1>0, <2>1, <2>7, StartJogStep DEF ServoInv
  <2>8. CASE \E b \in BOOLEAN : WriteReset(b)
    BY <1>0, <2>1, <2>2, <2>8, ParameterStep DEF ServoInv, WriteReset
  <2>9. CASE \E l \in LimitPairs : WriteLimits(l)
    BY <1>0, <2>1, <2>9, ParameterStep DEF ServoInv, WriteLimits
  <2> QED
    BY <1>3, <2>3, <2>4, <2>5, <2>6, <2>7, <2>8, <2>9 DEF Request
<1> QED
  BY <1>1, <1>2, <1>3 DEF Next

(* ServoInv holds in every state: after every handler of an axis and every *)
(* cycle of the server loop.                                               *)
THEOREM ServoInvariant == Spec => []ServoInv
BY InitInv, NextInv, PTL DEF Spec

(* Whatever the requests and their order, the images have their shape, a   *)
(* drive that is not in Operation Enabled stands still (every way out of   *)
(* it stops the axis where it is), and after a fault reset of the server   *)
(* 0x000F enables the drive, also when the reset meets a device reset that *)
(* is due.                                                                 *)
THEOREM DriveSafety == Spec => []DriveIsSafe
<1>1. ServoInv => DriveIsSafe
  <2> SUFFICES ASSUME ServoInv PROVE DriveIsSafe
    OBVIOUS
  <2>1. CoreInv /\ served \in 0..MaxRequests
    BY DEF ServoInv
  <2>2. rx \in RxImages /\ drive \in DriveStates /\ DriveInv(drive)
    BY <2>1, NowFacts DEF CoreInv, Good
  <2>3. TypeOK
    BY <2>1, <2>2 DEF TypeOK, CoreInv, Homings
  <2>4. DisabledStandsStill
    BY <2>2 DEF DisabledStandsStill, DriveInv, MotionOk, Stands
  <2> QED
    BY <2>1, <2>3, <2>4 DEF DriveIsSafe, CoreInv
<1> QED
  BY <1>1, ServoInvariant, PTL

(* A homing run is reported complete only if the drive has set its         *)
(* position to zero since the run was requested: the server waits for the  *)
(* reference to go low first, so a reference of an earlier run does not    *)
(* count.                                                                  *)
THEOREM HomingCarriedOut == Spec => []HomingIsCarriedOut
<1>1. ServoInv => HomingIsCarriedOut
  BY DEF ServoInv, CoreInv, HomingOk, HomingIsCarriedOut
<1> QED
  BY <1>1, ServoInvariant, PTL

(* A profile position move that is answered as moving was taken over by    *)
(* the drive or stopped by the software limits with a warning, although    *)
(* the handshake waits a bounded number of cycles for each of its three    *)
(* answers.                                                                *)
THEOREM MoveTaken == Spec => []MoveIsTaken
<1>1. ServoInv => MoveIsTaken
  BY DEF ServoInv, CoreInv
<1> QED
  BY <1>1, ServoInvariant, PTL

-----------------------------------------------------------------------------
(* Motion without a reference                                              *)

LEMMA SpeedFacts ==
  ASSUME NEW d \in DriveStates
  PROVE  Abs(d.vel) \in Int /\ Abs(d.vel) >= 0 /\ (d.vel = 0 => Abs(d.vel) = 0)
<1>1. d.vel \in Int
  BY IntFacts DEF DriveStates, Speeds
<1> QED
  BY <1>1 DEF Abs

\* In the position modes a cycle without a reference only brakes.
LEMMA ExchangeSlows ==
  ASSUME NEW d, DriveInv(d), NEW r \in RxImages, NEW e, e = Exchanged(d, r),
         r.mode \in {"pp", "csp"}, ~d.referenced
  PROVE  Abs(e.vel) <= Abs(d.vel) /\ ~e.referenced
<1> DEFINE k == BeforeMode(d, r)
           n == AfterMode(d, r)
<1>0. d \in DriveStates /\ MotionOk(d)
  BY DEF DriveInv
<1>1. k \in DriveStates /\ Abs(k.vel) <= Abs(d.vel)
  BY <1>0, StageTypes, BeforeModeInv
<1>2. k.mode \in {"pp", "csp"} /\ k.referenced = d.referenced
  BY <1>0, BeforeModeFacts DEF SameRun, EffectiveMode
<1>3. n = ProcessMode(k)
  BY DEF AfterMode
<1>4. e \in DriveStates /\ Ends(n, e)
  BY <1>0, ExchangedEnds
<1> HIDE DEF k, n
<1>5. n \in DriveStates /\ n.referenced = k.referenced
  BY <1>1, <1>2, <1>3, ProcessModeFacts DEF SameReference
<1>6. Abs(n.vel) <= Abs(k.vel)
  <2>1. CASE ~Enabled(k) /\ n = k
    BY <1>1, <2>1, SpeedFacts
  <2>2. CASE k.mode = "pp" /\ n = ProfilePosition(k)
    <3> DEFINE h == PpHalted(k)
    <3>1. n = Decelerated(h)
      BY <1>1, <1>2, <2>2, ProfilePositionIs DEF PpRefuses
    <3>2. h \in DriveStates /\ h.vel = k.vel
      <4>1. h \in DriveStates
        BY <1>1, PpHaltedType
      <4>2. h.vel = k.vel
        BY <1>1 DEF PpHalted, DriveStates
      <4> QED
        BY <4>1, <4>2
    <3> HIDE DEF h
    <3> QED
      BY <3>1, <3>2, DecelerationFacts
  <2>3. CASE k.mode = "csp" /\ n = Travel(k, CspGoal(k))
    <3>1. n = Decelerated(k)
      BY <1>2, <2>3 DEF CspGoal, Decelerated
    <3> QED
      BY <1>1, <3>1, DecelerationFacts
  <2> QED
    BY <1>1, <1>2, <1>3, <2>1, <2>2, <2>3, ModeCases
<1>7. e.vel = n.vel /\ e.referenced = n.referenced
  BY <1>4 DEF Ends
<1> QED
  BY <1>0, <1>1, <1>2, <1>5, <1>6, <1>7, SpeedFacts

\* The states of a handler that keeps a position mode, without a reference
Slow(v) == {q \in Pairs : /\ Good(q) /\ q.rx.mode \in {"pp", "csp"}
                          /\ ~q.drive.referenced /\ Abs(q.drive.vel) <= v}

LEMMA SlowSent ==
  ASSUME NEW v \in Int, NEW q \in Slow(v), NEW w \in Words
  PROVE  Send(q, w) \in Slow(v)
<1> DEFINE s == Send(q, w)
<1>0. Good(q) /\ q.rx.mode \in {"pp", "csp"} /\ ~q.drive.referenced
      /\ Abs(q.drive.vel) <= v
  BY DEF Slow
<1>1. /\ s.rx \in RxImages /\ s.rx.mode = q.rx.mode
      /\ s.drive = Exchanged(q.drive, s.rx) /\ q.drive \in DriveStates
  BY <1>0, SendIs DEF Good, SameRequest
<1>2. Good(s) /\ s \in Pairs
  BY <1>0, SendFacts DEF Good
<1> HIDE DEF s
<1>3. Abs(s.drive.vel) <= Abs(q.drive.vel) /\ ~s.drive.referenced
  BY <1>0, <1>1, ExchangeSlows DEF Good
<1>4. Abs(s.drive.vel) <= v
  BY <1>0, <1>1, <1>2, <1>3, SpeedFacts DEF Pairs
<1> QED
  BY <1>0, <1>1, <1>2, <1>3, <1>4 DEF Slow, s

LEMMA SlowTimes ==
  ASSUME NEW v \in Int, NEW q \in Slow(v), NEW n \in Nat, NEW w \in Words
  PROVE  SendAll(q, Times(n, w)) \in Slow(v)
BY SlowSent, TimesKeeps

LEMMA SlowInMode ==
  ASSUME NEW v \in Int, NEW q, Good(q), ~q.drive.referenced, Abs(q.drive.vel) <= v,
         NEW m \in {"pp", "csp"}
  PROVE  InMode(q, m) \in Slow(v)
<1> DEFINE s == Switched(q, m)
<1>0. m \in Modes
  BY DEF Modes
<1>1. /\ Good(s) /\ s.rx.mode = m /\ s.rx.word = q.rx.word /\ s.rx.word \in Words
      /\ s.drive.vel = q.drive.vel /\ s.drive.referenced = q.drive.referenced
  BY <1>0, SwitchedFacts
<1>2. InMode(q, m) = SendAll(s, Times(5, q.rx.word))
  BY DEF InMode, Switched
<1> HIDE DEF s
<1>3. s \in Slow(v)
  BY <1>0, <1>1 DEF Slow, Good
<1> QED
  BY <1>1, <1>2, <1>3, SlowTimes

LEMMA SlowFinished ==
  ASSUME NEW v \in Int, NEW q \in Slow(v), NEW h, h.original \in {"pp", "csp", "homing"}
  PROVE  Finished(q, h) \in Slow(v)
<1>1. Bit4(q.rx.word, FALSE) \in Words
  BY Bit4Type DEF Slow, Good, Pairs, RxImages
<1>2. StartLow(q) \in Slow(v)
  BY <1>1, SlowTimes DEF StartLow
<1> QED
  BY <1>2, SlowInMode DEF Finished, Slow

LEMMA SlowRewritten ==
  ASSUME NEW v \in Int, NEW q \in Slow(v), NEW s, Good(s), s.rx.mode = q.rx.mode,
         s.drive = q.drive
  PROVE  s \in Slow(v)
BY DEF Slow, Good

LEMMA SlowStopped ==
  ASSUME NEW v \in Int, NEW q \in Slow(v), Settled(q)
  PROVE  Stopped(q) \in Slow(v)
<1>1. Good(q) /\ q.rx.mode # "pv"
  BY DEF Slow
<1>2. Reached(q, Stopped(q)) /\ Stopped(q).rx.mode = q.rx.mode
      /\ Stopped(q).drive = q.drive
  BY <1>1, StopFacts
<1> QED
  BY <1>2, SlowRewritten DEF Reached

LEMMA SlowHandshake ==
  ASSUME NEW v \in Int, NEW q \in Slow(v)
  PROVE  Handshake(q).p \in Slow(v)
<1>1. Base \in Words /\ NewSetpoint \in Words
  BY WordTypes
<1> QED
  BY <1>1, SlowSent, HandshakeKeeps

\* Off stays off under the word of axis/enable.
LEMMA OffStays ==
  ASSUME NEW q, Good(q), q.drive.sm = "off", NEW n \in Nat
  PROVE  SendAll(q, Times(n, Base)).drive.sm = "off"
<1> DEFINE Q == {s \in Pairs : Good(s) /\ s.drive.sm = "off"}
<1>0. Base \in Words
  BY WordTypes
<1>1. ASSUME NEW s \in Q PROVE Send(s, Base) \in Q
  <2> DEFINE u == Send(s, Base)
  <2>1. Good(u) /\ u \in Pairs
    BY <1>0, SendFacts DEF Good
  <2>2. /\ u.rx.word = Base /\ u.rx \in RxImages
        /\ u.drive = Exchanged(s.drive, u.rx) /\ s.drive \in DriveStates
    BY <1>0, SendIs
  <2>3. u.drive.sm = StateAfter(s.drive.sm, EffectiveWord(s.drive, u.rx))
    BY <2>2, ExchangeFacts
  <2> HIDE DEF u
  <2>4. u.drive.sm = "off"
    BY <2>2, <2>3 DEF EffectiveWord, StateAfter, Base, Word
  <2> QED
    BY <2>1, <2>4 DEF u
<1>2. q \in Q
  BY DEF Good
<1> HIDE DEF Q
<1>3. SendAll(q, Times(n, Base)) \in Q
  BY <1>0, <1>1, <1>2, TimesKeeps
<1> QED
  BY <1>3 DEF Q

\* What a step of the unreferenced axis may do
Slows == Abs(drive'.vel) <= Abs(drive.vel)

LEMMA StandingSlows ==
  ASSUME CoreInv, CoreInv', ~Enabled(drive')
  PROVE  Slows
<1>1. drive \in DriveStates
  BY NowFacts
<1>2. DriveInv(drive')
  BY DEF CoreInv, Good, Now
<1>3. drive'.vel = 0 /\ drive' \in DriveStates
  BY <1>2 DEF DriveInv, MotionOk, Stands
<1> QED
  BY <1>1, <1>3, SpeedFacts DEF Slows

LEMMA SlowSlows ==
  ASSUME NEW q \in Slow(Abs(drive.vel)), Becomes(q)
  PROVE  Slows
BY DEF Slow, Becomes, Slows

LEMMA CycleSlows ==
  ASSUME CoreInv, CoreInv', Cycle, drive.mode \in {"pp", "csp"}, ~drive.referenced
  PROVE  Slows
<1> DEFINE p == Exchange(Now)
           v == Abs(drive.vel)
<1>1. /\ Reached(Now, p)
      /\ \/ Becomes(p)
         \/ p.drive.status.referenced
  BY CycleCases
<1>2. /\ Good(Now) /\ Now \in Pairs /\ rx.word \in Words /\ Now.rx = rx
      /\ Now.drive = drive /\ drive \in DriveStates
  BY NowFacts DEF CoreInv, Good
<1>3. p = Send(Now, rx.word)
  BY <1>2, ExchangeIsSend
<1>4. v \in Int /\ v <= v
  BY <1>2, SpeedFacts
<1> HIDE DEF p, v
<1>5. CASE rx.mode \in {"pp", "csp"}
  <2>1. Now \in Slow(v)
    BY <1>2, <1>4, <1>5 DEF Slow, v
  <2>2. p \in Slow(v)
    BY <1>2, <1>3, <1>4, <2>1, SlowSent
  <2>3. ~p.drive.status.referenced
    BY <1>1, <2>2 DEF Slow, Reached, Settled
  <2> QED
    BY <1>1, <2>2, <2>3, SlowSlows DEF v
<1>6. CASE rx.mode \notin {"pp", "csp"}
  <2>1. drive.sm = "off"
    BY <1>6, NowFacts
  <2>2. p.rx \in RxImages /\ p.drive = Exchanged(drive, p.rx)
    BY <1>2, <1>3, SendIs
  <2>3. /\ p.drive.sm = StateAfter("off", EffectiveWord(drive, p.rx))
        /\ ~Enabled(p.drive) => p.drive.referenced = drive.referenced
    BY <1>2, <2>1, <2>2, ExchangeFacts
  <2>4. ~Enabled(p.drive)
    BY <2>3 DEF StateAfter, Enabled
  <2>5. ~p.drive.status.referenced
    BY <1>1, <2>3, <2>4 DEF Reached, Settled
  <2>6. drive' = p.drive
    BY <1>1, <2>5 DEF Becomes
  <2> QED
    BY <2>4, <2>6, StandingSlows
<1> QED
  BY <1>5, <1>6

LEMMA StopSlows ==
  ASSUME CoreInv, CoreInv', Stop, drive.mode \in {"pp", "csp"}, ~drive.referenced,
         drive'.mode = drive.mode
  PROVE  Slows
<1> DEFINE q == IF Begun.drive.status.enabled THEN Stopped(Begun) ELSE Held(Begun)
           v == Abs(drive.vel)
<1>1. rx.mode = drive.mode
  BY EnabledMode DEF Stop
<1>2. /\ Good(Now) /\ Now \in Pairs /\ Now.rx = rx /\ Now.drive = drive
      /\ drive \in DriveStates /\ homing.original \in Modes
  BY NowFacts DEF CoreInv, Good, Homings
<1>3. v \in Int /\ v <= v
  BY <1>2, SpeedFacts
<1>4. Becomes(q)
  BY DEF Stop, Begun
<1>5. /\ Good(Begun) /\ Settled(Begun)
      /\ homing.active => /\ Begun.drive.mode = Begun.rx.mode
                          /\ homing.original # "homing" => Begun.rx.mode = homing.original
  BY BegunFacts DEF Reached
<1> HIDE DEF v
<1>6. Now \in Slow(v)
  BY <1>1, <1>2, <1>3 DEF Slow, v
<1>7. /\ Stopped(Begun).rx.mode = Begun.rx.mode
      /\ Begun.rx.mode # "pv" => Stopped(Begun).drive = Begun.drive
      /\ Begun.rx.mode = "pv" => Stopped(Begun).drive.mode = Begun.rx.mode
      /\ Held(Begun).drive = Begun.drive
      /\ Good(Held(Begun)) /\ Held(Begun).rx.mode = Begun.rx.mode
  BY <1>5, StopFacts, HeldFacts
<1>8. CASE ~homing.active \/ homing.original \in {"pp", "csp", "homing"}
  <2>1. Begun \in Slow(v)
    BY <1>3, <1>6, <1>8, SlowFinished DEF Begun
  <2>2. q \in Slow(v)
    BY <1>3, <1>5, <1>7, <2>1, SlowStopped, SlowRewritten
  <2> HIDE DEF q
  <2> QED
    BY <1>4, <2>2, SlowSlows DEF v
<1>9. CASE homing.active /\ homing.original \in {"pv", "jog"}
  <2>1. q.drive.mode = homing.original
    BY <1>5, <1>7, <1>9
  <2> HIDE DEF q
  <2>2. drive'.mode = homing.original
    BY <1>4, <2>1 DEF Becomes
  <2> QED
    BY <1>9, <2>2
<1> QED
  BY <1>2, <1>8, <1>9 DEF Modes

LEMMA RequestSlows ==
  ASSUME CoreInv, CoreInv', Request, drive.mode \in {"pp", "csp"}, ~drive.referenced,
         drive'.mode = drive.mode
  PROVE  Slows
<1> DEFINE v == Abs(drive.vel)
<1>1. /\ Good(Now) /\ Now \in Pairs /\ Now.rx = rx /\ Now.drive = drive
      /\ drive \in DriveStates /\ rx.mode \in Modes
  BY NowFacts DEF CoreInv, Good
<1>2. v \in Int /\ v <= v
  BY <1>1, SpeedFacts
<1>3. Base \in Words
  BY WordTypes
<1> HIDE DEF v
<1>4. rx.mode \in {"pp", "csp"} => Now \in Slow(v)
  BY <1>1, <1>2 DEF Slow, v
<1>5. rx.mode \notin {"pp", "csp"} => drive.sm = "off"
  BY NowFacts
<1>6. CASE Enable
  <2> DEFINE q == SendAll(Now, Times(3, Base))
  <2>1. Becomes(q)
    BY <1>6 DEF Enable
  <2>2. CASE rx.mode \in {"pp", "csp"}
    BY <1>2, <1>3, <1>4, <2>1, <2>2, SlowTimes, SlowSlows DEF v
  <2>3. CASE rx.mode \notin {"pp", "csp"}
    <3>1. q.drive.sm = "off"
      BY <1>1, <1>5, <2>3, OffStays
    <3> HIDE DEF q
    <3>2. ~Enabled(drive')
      BY <2>1, <3>1 DEF Becomes, Enabled
    <3> QED
      BY <3>2, StandingSlows
  <2> QED
    BY <2>2, <2>3
<1>7. CASE Disable \/ FaultReset
  BY <1>7, DisableStep, FaultResetStep, StandingSlows
<1>8. CASE Stop
  BY <1>8, StopSlows
<1>9. CASE StartHoming
  BY <1>9, StartHomingStep
<1>10. ASSUME NEW m \in Modes, SetMode(m) PROVE Slows
  <2> DEFINE s == Held(Now)
             q == InMode(s, m)
  <2>1. m \in {"pp", "csp"}
    BY <1>10, SetModeStep
  <2>2. Good(s) /\ s.drive = drive
    BY <1>1, HeldFacts
  <2>3. Becomes(q)
    BY <1>10 DEF SetMode
  <2> HIDE DEF s
  <2>4. q \in Slow(v)
    BY <1>2, <2>1, <2>2, SlowInMode DEF v
  <2> QED
    BY <2>3, <2>4, SlowSlows DEF v
<1>11. ASSUME NEW t \in Targets, MoveProfile(t) PROVE Slows
  <2> DEFINE p == [Now EXCEPT !.rx.target = t]
             r == [rx EXCEPT !.target = t]
             h == Handshake(p)
             q == IF h.ok THEN h.p ELSE Held(h.p)
  <2>0. t \in Positions
    BY Sizes
  <2>1. p = [rx |-> r, drive |-> drive] /\ r \in RxImages /\ r.mode = rx.mode
    BY <1>1, <2>0, TargetWritten
  <2>2. Becomes(q) /\ rx.mode = "pp"
    BY <1>11 DEF MoveProfile
  <2> HIDE DEF p, r
  <2>3. Good(p) /\ p.rx.mode = Now.rx.mode /\ p.drive = Now.drive
    BY <1>1, <2>1, Rewritten
  <2>4. p \in Slow(v)
    BY <1>2, <1>4, <2>2, <2>3, SlowRewritten
  <2>5. h.p \in Slow(v)
    BY <1>2, <2>4, SlowHandshake
  <2> HIDE DEF h
  <2>6. Held(h.p) \in Slow(v)
    BY <1>2, <2>5, HeldFacts, SlowRewritten DEF Slow
  <2> QED
    BY <2>2, <2>5, <2>6, SlowSlows DEF v
<1>12. ASSUME NEW t \in Targets, MoveCyclic(t) PROVE Slows
  BY <1>2, <1>12 DEF MoveCyclic, Slows, v
<1>13. ASSUME NEW u \in Velocities, MoveVelocity(u) PROVE Slows
  BY <1>13, EnabledMode DEF MoveVelocity
<1>14. ASSUME NEW b \in BOOLEAN, StartJog(b) PROVE Slows
  BY <1>2, <1>14 DEF StartJog, Slows, v
<1>15. ASSUME NEW b \in BOOLEAN, WriteReset(b) PROVE Slows
  <2>1. drive'.vel = drive.vel
    BY <1>1, <1>15 DEF WriteReset, DriveStates
  <2> QED
    BY <1>2, <2>1 DEF Slows, v
<1>16. ASSUME NEW l \in LimitPairs, WriteLimits(l) PROVE Slows
  <2>1. drive'.vel = drive.vel
    BY <1>1, <1>16 DEF WriteLimits, DriveStates
  <2> QED
    BY <1>2, <2>1 DEF Slows, v
<1> QED
  BY <1>6, <1>7, <1>8, <1>9, <1>10, <1>11, <1>12, <1>13, <1>14, <1>15, <1>16
     DEF Request

(* In every cycle of every handler the axis goes further out of its        *)
(* software limits only while it brakes or under a target accepted before  *)
(* the limits were changed, and without a reference it does not speed up.  *)
THEOREM MotionAllowed == Spec => MotionIsAllowed
<1>1. ServoInv /\ [Next]_vars =>
        [ drive.mode \in {"pp", "csp"} /\ drive'.mode = drive.mode /\ ~drive.referenced
          => Abs(drive'.vel) <= Abs(drive.vel) ]_vars
  <2> SUFFICES ASSUME ServoInv, Next, drive.mode \in {"pp", "csp"},
                      drive'.mode = drive.mode, ~drive.referenced
               PROVE  Slows
    BY DEF Slows
  <2>1. CoreInv /\ CoreInv'
    BY NextInv DEF ServoInv
  <2> QED
    BY <2>1, CycleSlows, RequestSlows DEF Next
<1>2. ServoInv /\ [Next]_vars => [~drive'.pushed]_vars
  <2> SUFFICES ASSUME ServoInv, [Next]_vars PROVE ~drive'.pushed
    OBVIOUS
  <2>1. CoreInv'
    BY NextInv DEF ServoInv
  <2> QED
    BY <2>1 DEF CoreInv, Good, DriveInv, Now
<1> QED
  BY <1>1, <1>2, ServoInvariant, PTL
     DEF Spec, MotionIsAllowed, UnreferencedDoesNotStart, LimitsHold
=============================================================================
