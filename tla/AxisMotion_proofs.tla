---------------------------- MODULE AxisMotion_proofs ----------------------------
(***************************************************************************)
(* Proofs about AxisMotion for any set of axes, any requests of clients    *)
(* and any number of failing mode changes: the modes agree, what was       *)
(* stopped stays stopped, an axis restart is quiet, and a homing is        *)
(* complete only with a reference of its own.  AxisInv is inductive.       *)
(***************************************************************************)
EXTENDS AxisMotion, TLAPS

\* The references noted for the running homing were lost since it began, and
\* the drives that show none now are among them.
ReferencesAreFresh ==
    homing.active =>
        /\ homing.seenLow \intersect homing.axes \subseteq sinceLow
        /\ \A a \in homing.axes : ~drive[a].referenced => a \in sinceLow

AxisInv == TypeOK /\ ModesAgree /\ StoppedStays /\ QuietAfterRestart /\ ReferencesAreFresh

\* The generator is what the exchanges advance; everything else is the same.
SameCommand(r, q) ==
    r.mode = q.mode /\ r.rxMode = q.rxMode /\ r.word = q.word /\ r.moving = q.moving

-----------------------------------------------------------------------------
(* What the functions on the axes do to one axis *)

LEMMA HoldFacts ==
    ASSUME NEW x \in [Axes -> AxisStates], NEW S
    PROVE  /\ Hold(x, S) \in [Axes -> AxisStates]
           /\ \A a \in Axes :
                /\ SameCommand(Hold(x, S)[a], x[a])
                /\ Hold(x, S)[a].gen = IF a \in S THEN "idle" ELSE x[a].gen
BY DEF Hold, AxisStates, SameCommand

LEMMA TargetFacts ==
    ASSUME NEW x \in [Axes -> AxisStates]
    PROVE  /\ SetTargets(x) \in [Axes -> AxisStates]
           /\ SyncTrajectories(x) \in [Axes -> AxisStates]
           /\ \A a \in Axes :
                /\ SameCommand(SetTargets(x)[a], x[a]) /\ SetTargets(x)[a].gen = "idle"
                /\ SameCommand(SyncTrajectories(x)[a], x[a])
                /\ SyncTrajectories(x)[a].gen = "idle"
BY HoldFacts DEF SetTargets, SyncTrajectories

LEMMA WordFacts ==
    ASSUME NEW x \in [Axes -> AxisStates], NEW S, NEW w \in Words
    PROVE  /\ SetWord(x, S, w) \in [Axes -> AxisStates]
           /\ \A a \in Axes :
                /\ SetWord(x, S, w)[a].mode = x[a].mode
                /\ SetWord(x, S, w)[a].rxMode = x[a].rxMode
                /\ SetWord(x, S, w)[a].word = IF a \in S THEN w ELSE x[a].word
                /\ SetWord(x, S, w)[a].moving = x[a].moving
                /\ SetWord(x, S, w)[a].gen = x[a].gen
BY DEF SetWord, AxisStates

LEMMA ModeFacts ==
    ASSUME NEW x \in [Axes -> AxisStates], NEW S, NEW m \in Modes
    PROVE  /\ SetModeOf(x, S, m) \in [Axes -> AxisStates]
           /\ \A a \in Axes :
                /\ SetModeOf(x, S, m)[a].mode = IF a \in S THEN m ELSE x[a].mode
                /\ SetModeOf(x, S, m)[a].rxMode = IF a \in S THEN m ELSE x[a].rxMode
                /\ SetModeOf(x, S, m)[a].word = x[a].word
                /\ SetModeOf(x, S, m)[a].moving = x[a].moving
                /\ SetModeOf(x, S, m)[a].gen = x[a].gen
BY DEF SetModeOf, AxisStates

LEMMA RxModeFacts ==
    ASSUME NEW x \in [Axes -> AxisStates], NEW b \in Axes, NEW m \in Modes
    PROVE  /\ SetRxMode(x, b, m) \in [Axes -> AxisStates]
           /\ \A a \in Axes :
                /\ SetRxMode(x, b, m)[a].mode = x[a].mode
                /\ SetRxMode(x, b, m)[a].rxMode = IF a = b THEN m ELSE x[a].rxMode
                /\ SetRxMode(x, b, m)[a].word = x[a].word
                /\ SetRxMode(x, b, m)[a].moving = x[a].moving
                /\ SetRxMode(x, b, m)[a].gen = x[a].gen
BY DEF SetRxMode, AxisStates

LEMMA HoldFaultedFacts ==
    ASSUME NEW x \in [Axes -> AxisStates]
    PROVE  /\ HoldFaulted(x) \in [Axes -> AxisStates]
           /\ \A a \in Axes :
                /\ SameCommand(HoldFaulted(x)[a], x[a])
                /\ HoldFaulted(x)[a].gen \in {"idle", x[a].gen}
<1>1. CASE Faulted = {} BY <1>1 DEF HoldFaulted, SameCommand
<1>2. CASE Faulted # {}
  <2>1. HoldFaulted(x) = SetTargets(Hold(x, Faulted)) BY <1>2 DEF HoldFaulted
  <2> QED BY <2>1, HoldFacts, TargetFacts DEF SameCommand
<1> QED BY <1>1, <1>2

LEMMA EnsureCspFacts ==
    ASSUME NEW x \in [Axes -> AxisStates], NEW S \in SUBSET Axes
    PROVE  /\ EnsureCsp(x, S) \in [Axes -> AxisStates]
           /\ \A a \in Axes :
                /\ IF a \in S /\ x[a].mode # "csp"
                   THEN EnsureCsp(x, S)[a].mode = "csp" /\ EnsureCsp(x, S)[a].rxMode = "csp"
                   ELSE /\ EnsureCsp(x, S)[a].mode = x[a].mode
                        /\ EnsureCsp(x, S)[a].rxMode = x[a].rxMode
                /\ a \notin S => EnsureCsp(x, S)[a].word = x[a].word
                /\ EnsureCsp(x, S)[a].moving = x[a].moving
                /\ EnsureCsp(x, S)[a].gen \in {"idle", x[a].gen}
<1> DEFINE C == {a \in S : x[a].mode # "csp"}
<1>1. CASE C = {} BY <1>1 DEF EnsureCsp
<1>2. CASE C # {}
  <2> DEFINE y == Hold(x, C)
             z == SetModeOf(y, C, "csp")
             u == SetWord(z, C, {"enable"})
  <2>1. EnsureCsp(x, S) = SetTargets(u) BY <1>2 DEF EnsureCsp
  <2>2. y \in [Axes -> AxisStates] /\ \A a \in Axes : SameCommand(y[a], x[a])
    BY HoldFacts
  <2> HIDE DEF y
  <2>3. /\ z \in [Axes -> AxisStates]
        /\ \A a \in Axes : /\ z[a].mode = IF a \in C THEN "csp" ELSE y[a].mode
                           /\ z[a].rxMode = IF a \in C THEN "csp" ELSE y[a].rxMode
                           /\ z[a].word = y[a].word /\ z[a].moving = y[a].moving
    BY <2>2, ModeFacts DEF Modes, MotionModes
  <2> HIDE DEF z
  <2>4. /\ u \in [Axes -> AxisStates]
        /\ \A a \in Axes : /\ u[a].mode = z[a].mode /\ u[a].rxMode = z[a].rxMode
                           /\ a \notin C => u[a].word = z[a].word
                           /\ u[a].moving = z[a].moving
    BY <2>3, WordFacts DEF Words
  <2> HIDE DEF u
  <2>5. /\ SetTargets(u) \in [Axes -> AxisStates]
        /\ \A a \in Axes : SameCommand(SetTargets(u)[a], u[a]) /\ SetTargets(u)[a].gen = "idle"
    BY <2>4, TargetFacts
  <2> QED BY <2>1, <2>2, <2>3, <2>4, <2>5 DEF SameCommand
<1> QED BY <1>1, <1>2

LEMMA ExchangeFacts ==
    ASSUME NEW x \in [Axes -> AxisStates], Exchange(x)
    PROVE  /\ ax' \in [Axes -> AxisStates]
           /\ \A a \in Axes : /\ SameCommand(ax'[a], x[a])
                              /\ ax'[a].gen = x[a].gen \/ ax'[a].gen = "arrived"
BY DEF Exchange, Advance, AxisStates, SameCommand

LEMMA FinishFacts ==
    ASSUME TypeOK, NEW x \in [Axes -> AxisStates], NEW f \in FinishOutcomes
    PROVE  /\ FinishHoming(x, f) \in [Axes -> AxisStates]
           /\ f.restored \subseteq homing.axes /\ f.failed \in homing.axes \union {NoAxis}
           /\ f.failed \notin f.restored
           /\ f.ok => f = Finished
           /\ \A a \in Axes :
                /\ a \in f.restored => FinishHoming(x, f)[a].mode = FinishHoming(x, f)[a].rxMode
                /\ a \notin f.restored /\ a # f.failed =>
                     /\ FinishHoming(x, f)[a].mode = x[a].mode
                     /\ FinishHoming(x, f)[a].rxMode = x[a].rxMode
                /\ FinishHoming(x, f)[a].word \subseteq x[a].word
                /\ FinishHoming(x, f)[a].moving = x[a].moving
                /\ FinishHoming(x, f)[a].gen = x[a].gen
<1>1. /\ f.restored \subseteq homing.axes /\ f.failed \in homing.axes \union {NoAxis}
      /\ f.failed \notin f.restored
      /\ f.ok => f = Finished
  <2>1. homing.axes \subseteq Axes /\ Restorable \subseteq homing.axes
    BY DEF TypeOK, Restorable
  <2>2. CASE f = Finished
    BY <2>1, <2>2, NoAxisAssumption DEF Finished
  <2>3. CASE f \in FinishFailures
    <3>1. CASE bus = "down" BY <2>1, <2>3, <3>1, NoAxisAssumption DEF FinishFailures
    <3>2. CASE bus # "down"
      <4>1. /\ f \in [ok : {FALSE}, restored : SUBSET Restorable, failed : Restorable]
            /\ f.failed \notin f.restored
        BY <2>3, <3>2 DEF FinishFailures
      <4> QED BY <2>1, <4>1
    <3> QED BY <3>1, <3>2
  <2> QED BY <2>2, <2>3 DEF FinishOutcomes
<1>2. \A a \in homing.axes : homing.original[a] \in Modes BY DEF TypeOK
<1>3. ASSUME NEW a \in Axes
      PROVE  /\ FinishHoming(x, f)[a] \in AxisStates
             /\ a \in f.restored => FinishHoming(x, f)[a].mode = FinishHoming(x, f)[a].rxMode
             /\ a \notin f.restored /\ a # f.failed =>
                  /\ FinishHoming(x, f)[a].mode = x[a].mode
                  /\ FinishHoming(x, f)[a].rxMode = x[a].rxMode
             /\ FinishHoming(x, f)[a].word \subseteq x[a].word
             /\ FinishHoming(x, f)[a].moving = x[a].moving
             /\ FinishHoming(x, f)[a].gen = x[a].gen
  <2> DEFINE y == IF a \in homing.axes THEN [x[a] EXCEPT !.word = @ \ {"start"}] ELSE x[a]
  <2>1. /\ y \in AxisStates /\ y.word \subseteq x[a].word /\ y.mode = x[a].mode
        /\ y.rxMode = x[a].rxMode /\ y.moving = x[a].moving /\ y.gen = x[a].gen
    BY DEF AxisStates, Words
  <2>2. FinishHoming(x, f)[a] =
          IF a \in f.restored
          THEN [y EXCEPT !.mode = homing.original[a], !.rxMode = homing.original[a]]
          ELSE IF a = f.failed THEN [y EXCEPT !.rxMode = homing.original[a]]
          ELSE y
    BY DEF FinishHoming
  <2> HIDE DEF y
  <2>3. homing.original[a] \in Modes BY DEF TypeOK
  <2> QED BY <1>1, <2>1, <2>2, <2>3, NoAxisAssumption DEF AxisStates
<1>4. FinishHoming(x, f) = [a \in Axes |-> FinishHoming(x, f)[a]] BY DEF FinishHoming
<1> QED BY <1>1, <1>3, <1>4

LEMMA HaltedFacts ==
    ASSUME NEW x \in [Axes -> AxisStates], NEW P
    PROVE  /\ Halted(x, P) \in [Axes -> AxisStates]
           /\ \A a \in Axes :
                /\ Halted(x, P)[a].mode = x[a].mode
                /\ Halted(x, P)[a].rxMode = x[a].rxMode
                     \/ Halted(x, P)[a].rxMode = Halted(x, P)[a].mode
                /\ Halted(x, P)[a].gen = x[a].gen
<1>1. ASSUME NEW a \in Axes
      PROVE  /\ Halted(x, P)[a] \in AxisStates
             /\ Halted(x, P)[a].mode = x[a].mode
             /\ Halted(x, P)[a].rxMode = x[a].rxMode
                  \/ Halted(x, P)[a].rxMode = Halted(x, P)[a].mode
             /\ Halted(x, P)[a].gen = x[a].gen
  BY DEF Halted, AxisStates, Words, Modes, MotionModes
<1>2. Halted(x, P) = [a \in Axes |-> Halted(x, P)[a]] BY DEF Halted
<1> QED BY <1>1, <1>2

LEMMA RestoredFacts ==
    ASSUME NEW x \in [Axes -> AxisStates]
    PROVE  /\ Restored(x) \in [Axes -> AxisStates]
           /\ \A a \in Axes :
                /\ Restored(x)[a].mode = x[a].mode /\ Restored(x)[a].rxMode = x[a].mode
                /\ Restored(x)[a].word = {} /\ ~Restored(x)[a].moving
                /\ Restored(x)[a].gen = "idle"
BY DEF Restored, AxisStates, Words

LEMMA VelocityFacts ==
    ASSUME NEW x \in [Axes -> AxisStates], NEW S \in SUBSET Axes, NEW M
    PROVE  /\ InVelocityMode(x, S, M) \in [Axes -> AxisStates]
           /\ \A a \in Axes :
                /\ a \in S => /\ InVelocityMode(x, S, M)[a].mode = "pv"
                              /\ InVelocityMode(x, S, M)[a].rxMode = "pv"
                /\ a \notin S => /\ InVelocityMode(x, S, M)[a].mode = x[a].mode
                                 /\ InVelocityMode(x, S, M)[a].rxMode = x[a].rxMode
                /\ InVelocityMode(x, S, M)[a].gen \in {"idle", x[a].gen}
<1> DEFINE C == {a \in S : x[a].mode # "pv"}
           h == Hold(x, C)
           m == SetModeOf(h, S, "pv")
           y == SetWord(m, S, {"enable"})
<1>1. InVelocityMode(x, S, M) =
        [a \in Axes |-> IF a \in S THEN [y[a] EXCEPT !.moving = (a \in M)] ELSE y[a]]
  BY DEF InVelocityMode
<1>2. /\ h \in [Axes -> AxisStates]
      /\ \A a \in Axes : SameCommand(h[a], x[a]) /\ h[a].gen \in {"idle", x[a].gen}
  BY HoldFacts
<1> HIDE DEF h
<1>3. /\ m \in [Axes -> AxisStates]
      /\ \A a \in Axes : /\ m[a].mode = IF a \in S THEN "pv" ELSE h[a].mode
                         /\ m[a].rxMode = IF a \in S THEN "pv" ELSE h[a].rxMode
                         /\ m[a].gen = h[a].gen
  BY <1>2, ModeFacts DEF Modes, MotionModes
<1> HIDE DEF m
<1>4. /\ y \in [Axes -> AxisStates]
      /\ \A a \in Axes : /\ y[a].mode = m[a].mode /\ y[a].rxMode = m[a].rxMode
                         /\ y[a].gen = m[a].gen
  BY <1>3, WordFacts DEF Words
<1> HIDE DEF y
<1>5. ASSUME NEW a \in Axes, NEW b \in BOOLEAN
      PROVE  /\ [y[a] EXCEPT !.moving = b] \in AxisStates
             /\ [y[a] EXCEPT !.moving = b].mode = y[a].mode
             /\ [y[a] EXCEPT !.moving = b].rxMode = y[a].rxMode
             /\ [y[a] EXCEPT !.moving = b].gen = y[a].gen
  BY <1>4 DEF AxisStates
<1>6. ASSUME NEW a \in Axes
      PROVE  /\ InVelocityMode(x, S, M)[a] \in AxisStates
             /\ InVelocityMode(x, S, M)[a].mode = y[a].mode
             /\ InVelocityMode(x, S, M)[a].rxMode = y[a].rxMode
             /\ InVelocityMode(x, S, M)[a].gen = y[a].gen
  <2>1. InVelocityMode(x, S, M)[a] = IF a \in S THEN [y[a] EXCEPT !.moving = (a \in M)]
                                                 ELSE y[a]
    BY <1>1
  <2>2. (a \in M) \in BOOLEAN OBVIOUS
  <2> QED BY <1>4, <1>5, <2>1, <2>2
<1>7. InVelocityMode(x, S, M) = [a \in Axes |-> InVelocityMode(x, S, M)[a]] BY <1>1
<1> QED BY <1>2, <1>3, <1>4, <1>6, <1>7 DEF SameCommand

LEMMA ModesSetFacts ==
    ASSUME NEW x \in [Axes -> AxisStates], NEW S, NEW m \in Modes, NEW F
    PROVE  /\ ModesSet(x, S, m, F) \in [Axes -> AxisStates]
           /\ \A a \in Axes :
                /\ a \in S => ModesSet(x, S, m, F)[a].mode = ModesSet(x, S, m, F)[a].rxMode
                /\ a \notin S => ModesSet(x, S, m, F)[a] = x[a]
                /\ ModesSet(x, S, m, F)[a].word = x[a].word
                /\ ModesSet(x, S, m, F)[a].moving = x[a].moving
                /\ ModesSet(x, S, m, F)[a].gen = x[a].gen
BY DEF ModesSet, AxisStates

-----------------------------------------------------------------------------
(* The invariant *)

\* A step that starts no generator, gives no axis the trajectory back and
\* switches nothing on after a restart.
LEMMA Keeps ==
    ASSUME AxisInv, TypeOK', ModesAgree', ReferencesAreFresh',
           \A a \in Axes : ax'[a].gen = "timed" => ax[a].gen = "timed",
           stopped' \subseteq stopped,
           traj' = traj \/ traj' = NoTrajectory,
           quiet' => /\ quiet
                     /\ homing'.active => homing.active
                     /\ \A a \in Axes : /\ ax'[a].word = {} /\ ~ax'[a].moving
                                        /\ ~drive'[a].enabled
    PROVE  AxisInv'
<1>1. StoppedStays' BY DEF AxisInv, TypeOK, StoppedStays, NoTrajectory
<1>2. QuietAfterRestart' BY DEF AxisInv, QuietAfterRestart, NoTrajectory
<1> QED BY <1>1, <1>2 DEF AxisInv

\* After a restart no axis operates, so no request that needs one is admitted.
LEMMA OperatingIsLoud ==
    ASSUME AxisInv, NEW S \in Selections, Operating(S)
    PROVE  ~quiet /\ S \subseteq Axes
<1>1. PICK a \in S : a \in Axes BY DEF Selections
<1>2. drive[a].enabled BY DEF Operating
<1>3. ~quiet BY <1>1, <1>2 DEF AxisInv, QuietAfterRestart
<1> QED BY <1>3 DEF Selections

LEMMA TrajectoryType == NoTrajectory \in [active : BOOLEAN, axes : SUBSET Axes]
BY DEF NoTrajectory

\* What a handler leaves, as far as the modes and the generators go.
LEMMA Sent ==
    ASSUME NEW y \in [Axes -> AxisStates], Exchange(y) \/ ax' = y,
           \A a \in Axes \ unsure' : y[a].mode = y[a].rxMode,
           \A a \in Axes : y[a].gen = "timed" => ax[a].gen = "timed"
    PROVE  /\ ax' \in [Axes -> AxisStates] /\ ModesAgree'
           /\ \A a \in Axes : ax'[a].gen = "timed" => ax[a].gen = "timed"
           /\ \A a \in Axes : ax'[a].word = y[a].word /\ ax'[a].moving = y[a].moving
<1>1. /\ ax' \in [Axes -> AxisStates]
      /\ \A a \in Axes : SameCommand(ax'[a], y[a]) /\ ax'[a].gen \in {y[a].gen, "arrived"}
  BY ExchangeFacts DEF SameCommand
<1> QED BY <1>1 DEF ModesAgree, SameCommand

\* A step that only gives commands to axes that operate.
LEMMA CommandKeeps ==
    ASSUME AxisInv, NEW S \in Selections, Operating(S),
           NEW y \in [Axes -> AxisStates], Exchange(y) \/ ax' = y,
           \A a \in Axes \ unsure' : y[a].mode = y[a].rxMode,
           \A a \in Axes : y[a].gen = "timed" => ax[a].gen = "timed",
           unsure' \subseteq Axes, jogPrevious' \in [Axes -> Modes \union {"none"}],
           stopped' \subseteq stopped,
           traj' = traj \/ traj' = NoTrajectory,
           UNCHANGED <<drive, sequence, homing, bus, quiet, sinceLow>>
    PROVE  AxisInv'
<1>1. /\ ax' \in [Axes -> AxisStates] /\ ModesAgree'
      /\ \A a \in Axes : ax'[a].gen = "timed" => ax[a].gen = "timed"
  BY Sent
<1>2. TypeOK'
  <2>1. traj' \in [active : BOOLEAN, axes : SUBSET Axes]
    BY TrajectoryType DEF AxisInv, TypeOK
  <2> QED BY <1>1, <2>1 DEF AxisInv, TypeOK
<1>3. ReferencesAreFresh' BY DEF AxisInv, ReferencesAreFresh
<1>4. ~quiet' BY OperatingIsLoud
<1> QED BY <1>1, <1>2, <1>3, <1>4, Keeps

LEMMA MoveKeeps ==
    ASSUME AxisInv, NEW S \in Selections, Move(S) \/ MoveFails(S)
    PROVE  AxisInv'
<1>0. ax \in [Axes -> AxisStates] /\ S \subseteq Axes /\ Operating(S)
  BY DEF AxisInv, TypeOK, Selections, Move, MoveFails, MoveAdmitted
<1>1. PICK y \in [Axes -> AxisStates] :
        /\ Exchange(y)
        /\ \A a \in Axes : /\ y[a].mode = ax[a].mode
                           /\ y[a].rxMode \in {ax[a].rxMode, ax[a].mode}
                           /\ y[a].gen \in {ax[a].gen, "idle"}
  <2>1. CASE Move(S)
    <3> DEFINE pp == {a \in S : ax[a].mode = "pp"}
               csp == {a \in S : ax[a].mode = "csp"}
               x == [a \in Axes |-> IF a \in pp \union csp
                                    THEN [ax[a] EXCEPT !.rxMode = ax[a].mode,
                                                       !.word = {"enable"}]
                                    ELSE ax[a]]
    <3>1. /\ x \in [Axes -> AxisStates]
          /\ \A a \in Axes : /\ x[a].mode = ax[a].mode
                             /\ x[a].rxMode \in {ax[a].rxMode, ax[a].mode}
                             /\ x[a].gen = ax[a].gen
      BY <1>0 DEF AxisStates, Words
    <3>2. Exchange(IF csp = {} THEN x ELSE SetTargets(x)) BY <2>1 DEF Move
    <3> HIDE DEF x, csp
    <3> QED BY <3>1, <3>2, TargetFacts DEF SameCommand
  <2>2. CASE MoveFails(S)
    <3> DEFINE pp == {a \in S : ax[a].mode = "pp"}
               x == [a \in Axes |-> IF a \in pp
                                    THEN [ax[a] EXCEPT !.rxMode = "pp",
                                                       !.word = {"enable"}]
                                    ELSE ax[a]]
    <3>1. /\ x \in [Axes -> AxisStates]
          /\ \A a \in Axes : /\ x[a].mode = ax[a].mode
                             /\ x[a].rxMode \in {ax[a].rxMode, ax[a].mode}
      BY <1>0 DEF AxisStates, Words, Modes, MotionModes
    <3>2. Exchange(SetTargets(Hold(x, S))) BY <2>2 DEF MoveFails
    <3> HIDE DEF x
    <3> QED BY <3>1, <3>2, HoldFacts, TargetFacts DEF SameCommand
  <2> QED BY <2>1, <2>2
<1>2. /\ stopped' \subseteq stopped
      /\ UNCHANGED <<drive, traj, sequence, homing, jogPrevious, bus, quiet, unsure, sinceLow>>
  BY DEF Move, MoveFails
<1>3. unsure' \subseteq Axes /\ jogPrevious' \in [Axes -> Modes \union {"none"}]
  BY <1>2 DEF AxisInv, TypeOK
<1>4. \A a \in Axes \ unsure' : y[a].mode = y[a].rxMode
  BY <1>1, <1>2 DEF AxisInv, ModesAgree
<1> QED BY <1>0, <1>1, <1>2, <1>3, <1>4, CommandKeeps

LEMMA MoveVelocityKeeps ==
    ASSUME AxisInv, NEW S \in Selections, NEW M \in SUBSET S,
           MoveVelocity(S, M) \/ MoveVelocityFails(S, M)
    PROVE  AxisInv'
<1>0. ax \in [Axes -> AxisStates] /\ S \in SUBSET Axes /\ Operating(S)
  BY DEF AxisInv, TypeOK, Selections, MoveVelocity, MoveVelocityFails
<1>1. /\ stopped' \subseteq stopped
      /\ UNCHANGED <<drive, traj, sequence, homing, jogPrevious, bus, quiet, sinceLow>>
  BY DEF MoveVelocity, MoveVelocityFails
<1>2. jogPrevious' \in [Axes -> Modes \union {"none"}] /\ unsure \subseteq Axes
  BY <1>1 DEF AxisInv, TypeOK
<1>3. CASE MoveVelocity(S, M)
  <2> DEFINE y == InVelocityMode(ax, S, M)
  <2>1. Exchange(y) /\ unsure' = unsure \ S BY <1>3 DEF MoveVelocity
  <2>2. /\ y \in [Axes -> AxisStates]
        /\ \A a \in Axes : /\ a \in S => y[a].mode = "pv" /\ y[a].rxMode = "pv"
                           /\ a \notin S => y[a].mode = ax[a].mode /\ y[a].rxMode = ax[a].rxMode
                           /\ y[a].gen \in {"idle", ax[a].gen}
    BY <1>0, VelocityFacts
  <2> HIDE DEF y
  <2>3. \A a \in Axes \ unsure' : y[a].mode = y[a].rxMode
    BY <2>1, <2>2 DEF AxisInv, ModesAgree
  <2> QED BY <1>0, <1>1, <1>2, <2>1, <2>2, <2>3, CommandKeeps
<1>4. CASE MoveVelocityFails(S, M)
  <2>1. PICK D \in SUBSET S, b \in S :
          /\ b \notin D
          /\ Exchange(SetRxMode([Hold(InVelocityMode(ax, D, M), {b})
                                   EXCEPT ![b].moving = (b \in M)], b, "pv"))
          /\ unsure' = (unsure \ D) \union {b}
    BY <1>4 DEF MoveVelocityFails
  <2> DEFINE v == InVelocityMode(ax, D, M)
             h == Hold(v, {b})
             k == [h EXCEPT ![b].moving = (b \in M)]
             y == SetRxMode(k, b, "pv")
  <2>2. /\ v \in [Axes -> AxisStates]
        /\ \A a \in Axes : /\ a \in D => v[a].mode = "pv" /\ v[a].rxMode = "pv"
                           /\ a \notin D => v[a].mode = ax[a].mode /\ v[a].rxMode = ax[a].rxMode
                           /\ v[a].gen \in {"idle", ax[a].gen}
    BY <1>0, VelocityFacts
  <2> HIDE DEF v
  <2>3. /\ h \in [Axes -> AxisStates]
        /\ \A a \in Axes : SameCommand(h[a], v[a]) /\ h[a].gen \in {"idle", v[a].gen}
    BY <2>2, HoldFacts
  <2> HIDE DEF h
  <2>4. /\ k \in [Axes -> AxisStates]
        /\ \A a \in Axes : /\ k[a].mode = h[a].mode /\ k[a].rxMode = h[a].rxMode
                           /\ k[a].gen = h[a].gen
    <3>1. ASSUME NEW m \in BOOLEAN
          PROVE  /\ [h EXCEPT ![b].moving = m] \in [Axes -> AxisStates]
                 /\ \A a \in Axes : /\ [h EXCEPT ![b].moving = m][a].mode = h[a].mode
                                    /\ [h EXCEPT ![b].moving = m][a].rxMode = h[a].rxMode
                                    /\ [h EXCEPT ![b].moving = m][a].gen = h[a].gen
      BY <2>3 DEF AxisStates
    <3>2. (b \in M) \in BOOLEAN OBVIOUS
    <3> QED BY <3>1, <3>2
  <2> HIDE DEF k
  <2>5. /\ y \in [Axes -> AxisStates] /\ b \in Axes
        /\ \A a \in Axes : /\ y[a].mode = k[a].mode
                           /\ a # b => y[a].rxMode = k[a].rxMode
                           /\ y[a].gen = k[a].gen
    <3>1. b \in Axes /\ "pv" \in Modes BY <1>0 DEF Modes, MotionModes
    <3> QED BY <2>4, <3>1, RxModeFacts
  <2>6. Exchange(y) BY <2>1 DEF v, h, k
  <2> HIDE DEF y
  <2>7. \A a \in Axes \ unsure' : y[a].mode = y[a].rxMode
    BY <2>1, <2>2, <2>3, <2>4, <2>5 DEF AxisInv, ModesAgree, SameCommand
  <2>8. \A a \in Axes : y[a].gen = "timed" => ax[a].gen = "timed"
    BY <2>2, <2>3, <2>4, <2>5
  <2>9. unsure' \subseteq Axes BY <1>2, <2>1, <2>5
  <2> QED BY <1>0, <1>1, <1>2, <2>5, <2>6, <2>7, <2>8, <2>9, CommandKeeps
<1> QED BY <1>3, <1>4

LEMMA StartJogKeeps ==
    ASSUME AxisInv, NEW b \in Axes, StartJog(b) \/ StartJogFails(b)
    PROVE  AxisInv'
<1>0. /\ ax \in [Axes -> AxisStates] /\ {b} \in Selections /\ Operating({b})
      /\ ax[b].mode \in Modes /\ unsure \subseteq Axes
  BY DEF AxisInv, TypeOK, AxisStates, Selections, StartJog, StartJogFails
<1>1. /\ stopped' \subseteq stopped
      /\ UNCHANGED <<drive, traj, sequence, homing, bus, quiet, sinceLow>>
  BY DEF StartJog, StartJogFails
<1>2. jogPrevious' \in [Axes -> Modes \union {"none"}]
  BY <1>0 DEF AxisInv, TypeOK, StartJog, StartJogFails
<1> DEFINE h == Hold(ax, {b})
<1>3. /\ h \in [Axes -> AxisStates]
      /\ \A a \in Axes : SameCommand(h[a], ax[a]) /\ h[a].gen \in {"idle", ax[a].gen}
  BY <1>0, HoldFacts
<1> HIDE DEF h
<1>4. "jog" \in Modes /\ {"enable", "start"} \in Words BY DEF Modes, MotionModes, Words
<1>5. CASE StartJog(b)
  <2> DEFINE x == IF ax[b].mode # "jog" THEN SetModeOf(h, {b}, "jog")
                                        ELSE SetRxMode(ax, b, "jog")
             y == SetWord(x, {b}, {"enable", "start"})
  <2>1. Exchange(y) /\ unsure' = unsure \ {b} BY <1>5 DEF StartJog, h
  <2>2. /\ x \in [Axes -> AxisStates]
        /\ x[b].mode = "jog" /\ x[b].rxMode = "jog"
        /\ \A a \in Axes : /\ a # b => x[a].mode = ax[a].mode /\ x[a].rxMode = ax[a].rxMode
                           /\ x[a].gen \in {"idle", ax[a].gen}
    BY <1>0, <1>3, <1>4, ModeFacts, RxModeFacts DEF SameCommand
  <2> HIDE DEF x
  <2>3. /\ y \in [Axes -> AxisStates]
        /\ \A a \in Axes : /\ y[a].mode = x[a].mode /\ y[a].rxMode = x[a].rxMode
                           /\ y[a].gen = x[a].gen
    BY <1>4, <2>2, WordFacts
  <2> HIDE DEF y
  <2>4. \A a \in Axes \ unsure' : y[a].mode = y[a].rxMode
    BY <2>1, <2>2, <2>3 DEF AxisInv, ModesAgree
  <2> QED BY <1>0, <1>1, <1>2, <2>1, <2>2, <2>3, <2>4, CommandKeeps
<1>6. CASE StartJogFails(b)
  <2> DEFINE y == SetRxMode(h, b, "jog")
  <2>1. Exchange(y) /\ unsure' = unsure \union {b} BY <1>6 DEF StartJogFails, h
  <2>2. /\ y \in [Axes -> AxisStates]
        /\ \A a \in Axes : /\ a # b => y[a].mode = ax[a].mode /\ y[a].rxMode = ax[a].rxMode
                           /\ y[a].gen \in {"idle", ax[a].gen}
    BY <1>3, <1>4, RxModeFacts DEF SameCommand
  <2> HIDE DEF y
  <2>3. \A a \in Axes \ unsure' : y[a].mode = y[a].rxMode
    BY <2>1, <2>2 DEF AxisInv, ModesAgree
  <2> QED BY <1>0, <1>1, <1>2, <2>1, <2>2, <2>3, CommandKeeps
<1> QED BY <1>5, <1>6

LEMMA TrajectoryKeeps ==
    ASSUME AxisInv, NEW S \in Selections, TrajectoryRepeated(S) \/ TrajectoryFault(S)
    PROVE  AxisInv'
<1>0. ax \in [Axes -> AxisStates] /\ S \in SUBSET Axes /\ Operating(S)
  BY DEF AxisInv, TypeOK, Selections, TrajectoryRepeated, TrajectoryFault
<1> DEFINE y == EnsureCsp(ax, S)
<1>1. /\ ax' = y /\ unsure' = unsure \ {a \in S : ax[a].mode # "csp"}
      /\ traj' = traj \/ traj' = NoTrajectory
      /\ UNCHANGED <<drive, sequence, homing, jogPrevious, bus, stopped, quiet, sinceLow>>
  BY DEF TrajectoryRepeated, TrajectoryFault
<1>2. /\ y \in [Axes -> AxisStates]
      /\ \A a \in Axes : /\ IF a \in S /\ ax[a].mode # "csp"
                            THEN y[a].mode = "csp" /\ y[a].rxMode = "csp"
                            ELSE y[a].mode = ax[a].mode /\ y[a].rxMode = ax[a].rxMode
                         /\ y[a].gen \in {"idle", ax[a].gen}
  BY <1>0, EnsureCspFacts
<1> HIDE DEF y
<1>3. unsure' \subseteq Axes /\ jogPrevious' \in [Axes -> Modes \union {"none"}]
  BY <1>1 DEF AxisInv, TypeOK
<1>4. \A a \in Axes \ unsure' : y[a].mode = y[a].rxMode
  BY <1>1, <1>2 DEF AxisInv, ModesAgree
<1> QED BY <1>0, <1>1, <1>2, <1>3, <1>4, CommandKeeps

\* The only step that starts generators takes their axes from the stopped ones.
LEMMA TrajectoryMoveKeeps ==
    ASSUME AxisInv, NEW S \in Selections, TrajectoryMove(S)
    PROVE  AxisInv'
<1>0. ax \in [Axes -> AxisStates] /\ S \in SUBSET Axes /\ Operating(S) /\ ~quiet
  BY OperatingIsLoud DEF AxisInv, TypeOK, Selections, TrajectoryMove
<1> DEFINE x == EnsureCsp(ax, S)
<1>1. /\ x \in [Axes -> AxisStates]
      /\ \A a \in Axes : /\ a \in S => x[a].mode = "csp"
                         /\ a \notin S => x[a].mode = ax[a].mode /\ x[a].rxMode = ax[a].rxMode
                         /\ x[a].gen \in {"idle", ax[a].gen}
  BY <1>0, EnsureCspFacts
<1>2. /\ ax' = [a \in Axes |->
                  IF a \in S THEN [x[a] EXCEPT !.gen = "timed", !.rxMode = "csp",
                                               !.word = {"enable"}]
                             ELSE x[a]]
      /\ traj' = [active |-> TRUE, axes |-> S]
      /\ sequence' = sequence + 1 /\ sequence < MaxTrajectories
      /\ stopped' = stopped \ S /\ unsure' = unsure \ S
      /\ UNCHANGED <<drive, homing, jogPrevious, bus, quiet, sinceLow>>
  BY DEF TrajectoryMove
<1> HIDE DEF x
<1>3. /\ ax' \in [Axes -> AxisStates]
      /\ \A a \in S : ax'[a].mode = "csp" /\ ax'[a].rxMode = "csp"
      /\ \A a \in Axes \ S : ax'[a] = x[a]
  <2>1. ASSUME NEW a \in Axes
        PROVE  /\ ax'[a] \in AxisStates
               /\ a \in S => ax'[a].mode = "csp" /\ ax'[a].rxMode = "csp"
               /\ a \notin S => ax'[a] = x[a]
    <3>1. ax'[a] = IF a \in S THEN [x[a] EXCEPT !.gen = "timed", !.rxMode = "csp",
                                                !.word = {"enable"}]
                              ELSE x[a]
      BY <1>2
    <3>2. x[a] \in AxisStates /\ (a \in S => x[a].mode = "csp") BY <1>1
    <3>3. "csp" \in Modes /\ {"enable"} \in Words BY DEF Words, Modes, MotionModes
    <3>4. CASE a \in S BY <3>1, <3>2, <3>3, <3>4 DEF AxisStates
    <3> QED BY <3>1, <3>2, <3>4
  <2>2. ax' = [a \in Axes |-> ax'[a]] BY <1>2
  <2> QED BY <1>0, <2>1, <2>2
<1>4. TypeOK'
  <2>1. traj' \in [active : BOOLEAN, axes : SUBSET Axes] BY <1>0, <1>2
  <2>2. sequence' \in 0 .. MaxTrajectories
    <3>1. sequence \in 0 .. MaxTrajectories BY DEF AxisInv, TypeOK
    <3>2. sequence' = sequence + 1 /\ sequence < MaxTrajectories BY <1>2
    <3> QED BY <3>1, <3>2, MaxTrajectoriesAssumption
  <2> QED BY <1>2, <1>3, <2>1, <2>2 DEF AxisInv, TypeOK
<1>5. ModesAgree' BY <1>1, <1>2, <1>3 DEF AxisInv, ModesAgree
<1>6. StoppedStays'
  <2> SUFFICES ASSUME NEW a \in stopped'
               PROVE  ax'[a].gen # "timed" /\ ~(traj'.active /\ a \in traj'.axes)
    BY DEF StoppedStays
  <2>1. a \in stopped /\ a \notin S /\ a \in Axes BY <1>2 DEF AxisInv, TypeOK
  <2>2. ax'[a].gen \in {"idle", ax[a].gen} BY <1>1, <1>3, <2>1
  <2> QED BY <1>2, <2>1, <2>2 DEF AxisInv, StoppedStays
<1>7. QuietAfterRestart' BY <1>0, <1>2 DEF QuietAfterRestart
<1>8. ReferencesAreFresh' BY <1>2 DEF AxisInv, ReferencesAreFresh
<1> QED BY <1>4, <1>5, <1>6, <1>7, <1>8 DEF AxisInv

LEMMA TrajectoryStopKeeps ==
    ASSUME AxisInv, NEW S \in Selections, TrajectoryStop(S)
    PROVE  AxisInv'
<1>0. ax \in [Axes -> AxisStates] /\ S \in SUBSET Axes /\ Operating(S) /\ ~quiet
  BY OperatingIsLoud DEF AxisInv, TypeOK, Selections, TrajectoryStop
<1> DEFINE e == EnsureCsp(ax, S)
           x == SyncTrajectories(SetTargets(e))
           z == [a \in Axes |->
                   IF a \in S THEN [x[a] EXCEPT !.rxMode = "csp", !.word = {"enable"}]
                              ELSE x[a]]
<1>1. /\ ax' = SetTargets(z) /\ traj' = NoTrajectory
      /\ stopped' = stopped \union S /\ unsure' = unsure \ S
      /\ UNCHANGED <<drive, sequence, homing, jogPrevious, bus, quiet, sinceLow>>
  BY DEF TrajectoryStop
<1>2. /\ e \in [Axes -> AxisStates]
      /\ \A a \in Axes : /\ a \in S => e[a].mode = "csp"
                         /\ a \notin S => e[a].mode = ax[a].mode /\ e[a].rxMode = ax[a].rxMode
  BY <1>0, EnsureCspFacts
<1> HIDE DEF e
<1>3. x \in [Axes -> AxisStates] /\ \A a \in Axes : SameCommand(x[a], e[a])
  BY <1>2, TargetFacts DEF SameCommand
<1> HIDE DEF x
<1>4. /\ z \in [Axes -> AxisStates]
      /\ \A a \in Axes : /\ z[a].mode = x[a].mode
                         /\ z[a].rxMode = IF a \in S THEN "csp" ELSE x[a].rxMode
  BY <1>3 DEF AxisStates, Words, Modes, MotionModes
<1> HIDE DEF z
<1>5. /\ ax' \in [Axes -> AxisStates]
      /\ \A a \in Axes : SameCommand(ax'[a], z[a]) /\ ax'[a].gen = "idle"
  BY <1>1, <1>4, TargetFacts
<1>6. TypeOK' BY <1>0, <1>1, <1>5, TrajectoryType DEF AxisInv, TypeOK
<1>7. ModesAgree'
  BY <1>1, <1>2, <1>3, <1>4, <1>5 DEF AxisInv, ModesAgree, SameCommand
<1>8. StoppedStays' BY <1>1, <1>5, <1>6 DEF TypeOK, StoppedStays, NoTrajectory
<1>9. QuietAfterRestart' BY <1>0, <1>1 DEF QuietAfterRestart
<1>10. ReferencesAreFresh' BY <1>1 DEF AxisInv, ReferencesAreFresh
<1> QED BY <1>6, <1>7, <1>8, <1>9, <1>10 DEF AxisInv

LEMMA HomingType ==
    ASSUME TypeOK
    PROVE  /\ NoHoming \in [active : BOOLEAN, axes : SUBSET Axes,
                            original : [Axes -> Modes], seenLow : SUBSET Axes]
           /\ \A f \in FinishOutcomes :
                /\ HomingAfter(f) \in [active : BOOLEAN, axes : SUBSET Axes,
                                       original : [Axes -> Modes], seenLow : SUBSET Axes]
                /\ HomingAfter(f) = homing \/ ~HomingAfter(f).active
                /\ UnsureAfter(f) \subseteq Axes
<1>1. NoHoming \in [active : BOOLEAN, axes : SUBSET Axes,
                    original : [Axes -> Modes], seenLow : SUBSET Axes]
  <2>1. "pp" \in Modes BY DEF Modes, MotionModes
  <2> QED BY <2>1 DEF NoHoming
<1>2. ~NoHoming.active BY DEF NoHoming
<1> QED BY <1>1, <1>2 DEF HomingAfter, UnsureAfter, TypeOK

LEMMA StartHomingKeeps ==
    ASSUME AxisInv, NEW S \in Selections, StartHoming(S)
    PROVE  AxisInv'
<1>0. /\ ax \in [Axes -> AxisStates] /\ S \in SUBSET Axes /\ Operating(S) /\ ~quiet
      /\ "homing" \in Modes /\ "pp" \in Modes
  BY OperatingIsLoud DEF AxisInv, TypeOK, Selections, StartHoming, Modes, MotionModes
<1> DEFINE x == SetModeOf(ax, S, "homing")
           y == [a \in Axes |->
                   IF a \in S THEN [x[a] EXCEPT !.word = @ \union {"start"}] ELSE x[a]]
<1>1. /\ Exchange(y) /\ homing' = HomingStarted(S)
      /\ sinceLow' = {a \in S : ~drive[a].referenced}
      /\ stopped' = stopped \ S /\ unsure' = unsure \ S
      /\ UNCHANGED <<drive, traj, sequence, jogPrevious, bus, quiet>>
  BY DEF StartHoming
<1>2. /\ x \in [Axes -> AxisStates]
      /\ \A a \in Axes : /\ a \in S => x[a].mode = "homing" /\ x[a].rxMode = "homing"
                         /\ a \notin S => x[a].mode = ax[a].mode /\ x[a].rxMode = ax[a].rxMode
                         /\ x[a].gen = ax[a].gen
  BY <1>0, ModeFacts
<1> HIDE DEF x
<1>3. /\ y \in [Axes -> AxisStates]
      /\ \A a \in Axes : /\ y[a].mode = x[a].mode /\ y[a].rxMode = x[a].rxMode
                         /\ y[a].gen = x[a].gen
  BY <1>2 DEF AxisStates, Words
<1> HIDE DEF y
<1>4. \A a \in Axes \ unsure' : y[a].mode = y[a].rxMode
  BY <1>1, <1>2, <1>3 DEF AxisInv, ModesAgree
<1>5. /\ ax' \in [Axes -> AxisStates] /\ ModesAgree'
      /\ \A a \in Axes : ax'[a].gen = "timed" => ax[a].gen = "timed"
  BY <1>1, <1>2, <1>3, <1>4, Sent
<1>6. homing' \in [active : BOOLEAN, axes : SUBSET Axes,
                   original : [Axes -> Modes], seenLow : SUBSET Axes]
  <2>1. \A a \in Axes : ax[a].mode \in Modes BY <1>0 DEF AxisStates
  <2> QED BY <1>0, <1>1, <2>1 DEF HomingStarted
<1>7. TypeOK' BY <1>0, <1>1, <1>5, <1>6 DEF AxisInv, TypeOK
<1>8. ReferencesAreFresh' BY <1>1 DEF ReferencesAreFresh, HomingStarted
<1> QED BY <1>0, <1>1, <1>5, <1>7, <1>8, Keeps

LEMMA StartHomingFailsKeeps ==
    ASSUME AxisInv, NEW S \in Selections, StartHomingFails(S)
    PROVE  AxisInv'
<1>0. /\ ax \in [Axes -> AxisStates] /\ S \in SUBSET Axes /\ Operating(S)
      /\ "homing" \in Modes
  BY DEF AxisInv, TypeOK, Selections, StartHomingFails, Modes
<1>1. PICK D \in SUBSET S, b \in S :
        /\ b \notin D
        /\ Exchange(SetRxMode(SetModeOf(ax, D, "homing"), b, "homing"))
        /\ unsure' = (unsure \ D) \union {b}
  BY DEF StartHomingFails
<1> DEFINE x == SetModeOf(ax, D, "homing")
           y == SetRxMode(x, b, "homing")
<1>2. UNCHANGED <<drive, traj, sequence, homing, jogPrevious, bus, stopped, quiet, sinceLow>>
  BY DEF StartHomingFails
<1>3. /\ x \in [Axes -> AxisStates] /\ b \in Axes
      /\ \A a \in Axes : /\ a \in D => x[a].mode = "homing" /\ x[a].rxMode = "homing"
                         /\ a \notin D => x[a].mode = ax[a].mode /\ x[a].rxMode = ax[a].rxMode
                         /\ x[a].gen = ax[a].gen
  BY <1>0, ModeFacts
<1>4. Exchange(y) BY <1>1
<1> HIDE DEF x
<1>5. /\ y \in [Axes -> AxisStates]
      /\ \A a \in Axes : /\ y[a].mode = x[a].mode
                         /\ a # b => y[a].rxMode = x[a].rxMode
                         /\ y[a].gen = x[a].gen
  BY <1>0, <1>3, RxModeFacts
<1> HIDE DEF y
<1>6. unsure' \subseteq Axes /\ jogPrevious' \in [Axes -> Modes \union {"none"}]
  BY <1>1, <1>2, <1>3 DEF AxisInv, TypeOK
<1>7. \A a \in Axes \ unsure' : y[a].mode = y[a].rxMode
  BY <1>1, <1>3, <1>5 DEF AxisInv, ModesAgree
<1> QED BY <1>0, <1>2, <1>3, <1>4, <1>5, <1>6, <1>7, CommandKeeps

LEMMA StoppedFacts ==
    ASSUME NEW x \in [Axes -> AxisStates], NEW S
    PROVE  /\ Stopped(x, S) \in [Axes -> AxisStates]
           /\ \A a \in Axes : SameCommand(Stopped(x, S)[a], x[a])
                              /\ Stopped(x, S)[a].gen = "idle"
BY HoldFacts, TargetFacts DEF Stopped, SameCommand

LEMMA StopKeeps ==
    ASSUME AxisInv, NEW S \in Selections, Stop(S)
    PROVE  AxisInv'
<1>0. TypeOK /\ ax \in [Axes -> AxisStates] /\ S \in SUBSET Axes /\ Operating(S) /\ ~quiet
  BY OperatingIsLoud DEF AxisInv, TypeOK, Selections, Stop
<1>1. /\ traj' = NoTrajectory
      /\ homing' = IF homing.active THEN HomingAfter(Finished) ELSE homing
      /\ unsure' = IF homing.active THEN UnsureAfter(Finished) ELSE unsure
      /\ UNCHANGED <<sequence, jogPrevious, bus, quiet>>
      /\ sinceLow' = {} /\ (homing.active => bus = "up")
  BY DEF Stop
<1>2. homing.active => Finished \in FinishOutcomes BY <1>1 DEF FinishOutcomes
<1> DEFINE x == IF homing.active THEN FinishHoming(ax, Finished) ELSE ax
           y == Stopped(x, S)
<1>3. PICK P : /\ ax' = Halted(y, P) /\ stopped' \subseteq stopped \union S
               /\ drive' \in [Axes -> DriveStates]
  <2>1. PICK d \in IF homing.active THEN [Axes -> DriveStates] ELSE {drive} :
          LET on == {a \in S : d[a].enabled}
              pv == {a \in on : x[a].mode = "pv"}
          IN  /\ drive' = d
              /\ \/ ax' = Halted(y, on) /\ stopped' = stopped \union S
                 \/ (\E P \in SUBSET (on \ pv) : ax' = Halted(y, P)) /\ UNCHANGED stopped
                 \/ /\ \E P \in SUBSET (on \ pv), p \in pv : ax' = Halted(y, P \union {p})
                    /\ UNCHANGED stopped
    BY DEF Stop
  <2>2. drive' \in [Axes -> DriveStates] BY <1>0, <2>1 DEF TypeOK
  <2> HIDE DEF y
  <2> QED BY <2>1, <2>2
<1>4. /\ x \in [Axes -> AxisStates]
      /\ \A a \in Axes \ unsure' : x[a].mode = x[a].rxMode
  <2>1. CASE ~homing.active BY <1>0, <1>1, <2>1 DEF AxisInv, ModesAgree
  <2>2. CASE homing.active
    <3> DEFINE z == FinishHoming(ax, Finished)
    <3>1. /\ z \in [Axes -> AxisStates]
          /\ \A a \in Axes :
               /\ a \in Finished.restored => z[a].mode = z[a].rxMode
               /\ a \notin Finished.restored /\ a # Finished.failed =>
                    z[a].mode = ax[a].mode /\ z[a].rxMode = ax[a].rxMode
      BY <1>0, <1>2, <2>2, FinishFacts
    <3>2. x = z BY <2>2
    <3> HIDE DEF z, x
    <3> QED BY <1>1, <2>2, <3>1, <3>2 DEF AxisInv, ModesAgree, UnsureAfter
  <2> QED BY <2>1, <2>2
<1> HIDE DEF x
<1>5. /\ y \in [Axes -> AxisStates]
      /\ \A a \in Axes : SameCommand(y[a], x[a]) /\ y[a].gen = "idle"
  BY <1>4, StoppedFacts
<1> HIDE DEF y
<1>6. /\ ax' \in [Axes -> AxisStates]
      /\ \A a \in Axes : /\ ax'[a].mode = y[a].mode
                         /\ ax'[a].rxMode = y[a].rxMode \/ ax'[a].rxMode = ax'[a].mode
                         /\ ax'[a].gen = "idle"
  BY <1>3, <1>5, HaltedFacts
<1>7. ~homing'.active BY <1>1 DEF HomingAfter, Finished, NoHoming
<1>8. TypeOK'
  <2>1. /\ homing' \in [active : BOOLEAN, axes : SUBSET Axes,
                        original : [Axes -> Modes], seenLow : SUBSET Axes]
        /\ unsure' \subseteq Axes
    BY <1>0, <1>1, <1>2, HomingType DEF TypeOK
  <2>2. stopped' \subseteq Axes BY <1>0, <1>3 DEF TypeOK
  <2> QED BY <1>0, <1>1, <1>3, <1>6, <2>1, <2>2, TrajectoryType DEF TypeOK
<1>9. ModesAgree' BY <1>4, <1>5, <1>6 DEF ModesAgree, SameCommand
<1>10. StoppedStays' BY <1>1, <1>6, <1>8 DEF TypeOK, StoppedStays, NoTrajectory
<1>11. QuietAfterRestart' BY <1>0, <1>1 DEF QuietAfterRestart
<1>12. ReferencesAreFresh' BY <1>7 DEF ReferencesAreFresh
<1> QED BY <1>8, <1>9, <1>10, <1>11, <1>12 DEF AxisInv

\* A homing that cannot be finished leaves its record, and the axes half-way.
LEMMA FinishingKeeps ==
    ASSUME AxisInv, homing.active, NEW f \in FinishOutcomes,
           Exchange(FinishHoming(ax, f)), unsure' = UnsureAfter(f),
           homing' = HomingAfter(f), sinceLow' = IF homing'.active THEN sinceLow ELSE {},
           traj' = traj \/ traj' = NoTrajectory,
           UNCHANGED <<drive, sequence, jogPrevious, bus, stopped, quiet>>
    PROVE  AxisInv'
<1>0. TypeOK /\ ax \in [Axes -> AxisStates] /\ ~quiet
  BY DEF AxisInv, TypeOK, QuietAfterRestart
<1> DEFINE y == FinishHoming(ax, f)
<1>1. /\ y \in [Axes -> AxisStates]
      /\ \A a \in Axes : /\ a \in f.restored => y[a].mode = y[a].rxMode
                         /\ a \notin f.restored /\ a # f.failed =>
                              y[a].mode = ax[a].mode /\ y[a].rxMode = ax[a].rxMode
                         /\ y[a].gen = ax[a].gen
  BY <1>0, FinishFacts
<1> HIDE DEF y
<1>2. \A a \in Axes \ unsure' : y[a].mode = y[a].rxMode
  BY <1>1 DEF AxisInv, ModesAgree, UnsureAfter
<1>3. Exchange(y) BY DEF y
<1>4. /\ ax' \in [Axes -> AxisStates] /\ ModesAgree'
      /\ \A a \in Axes : ax'[a].gen = "timed" => ax[a].gen = "timed"
  BY <1>1, <1>2, <1>3, Sent
<1>5. /\ homing' \in [active : BOOLEAN, axes : SUBSET Axes,
                      original : [Axes -> Modes], seenLow : SUBSET Axes]
      /\ homing' = homing \/ ~homing'.active
      /\ unsure' \subseteq Axes
  BY <1>0, HomingType
<1>6. TypeOK'
  <2>1. traj' \in [active : BOOLEAN, axes : SUBSET Axes] BY <1>0, TrajectoryType DEF TypeOK
  <2> QED BY <1>0, <1>4, <1>5, <2>1 DEF TypeOK
<1>7. ReferencesAreFresh' BY <1>5 DEF AxisInv, ReferencesAreFresh
<1> QED BY <1>0, <1>4, <1>6, <1>7, Keeps

LEMMA DisabledFacts ==
    ASSUME NEW x \in [Axes -> AxisStates], NEW S
    PROVE  /\ Disabled(x, S) \in [Axes -> AxisStates]
           /\ \A a \in Axes :
                /\ Disabled(x, S)[a].mode = x[a].mode
                /\ Disabled(x, S)[a].rxMode = x[a].rxMode
                /\ Disabled(x, S)[a].word = IF a \in S THEN {} ELSE x[a].word
                /\ Disabled(x, S)[a].moving = x[a].moving
                /\ Disabled(x, S)[a].gen = "idle"
<1> DEFINE h == Hold(x, S)
           w == SetWord(h, S, {})
<1>1. h \in [Axes -> AxisStates] /\ \A a \in Axes : SameCommand(h[a], x[a])
  BY HoldFacts
<1> HIDE DEF h
<1>2. /\ w \in [Axes -> AxisStates]
      /\ \A a \in Axes : /\ w[a].mode = h[a].mode /\ w[a].rxMode = h[a].rxMode
                         /\ w[a].word = IF a \in S THEN {} ELSE h[a].word
                         /\ w[a].moving = h[a].moving
  BY <1>1, WordFacts DEF Words
<1>3. Disabled(x, S) = SetTargets(w) BY DEF Disabled, h
<1> HIDE DEF w
<1> QED BY <1>1, <1>2, <1>3, TargetFacts DEF SameCommand

\* Disabling, with the homing finished first where there is one.
LEMMA DisableKeeps ==
    ASSUME AxisInv, NEW S \in Selections, Disable(S) \/ DisableHoming(S)
    PROVE  AxisInv'
<1>0. TypeOK /\ ax \in [Axes -> AxisStates] /\ S \in SUBSET Axes
  BY DEF AxisInv, TypeOK, Selections
<1>1. /\ traj' = EndTrajectoryOf(S)
      /\ UNCHANGED <<drive, sequence, jogPrevious, bus, quiet>>
  BY DEF Disable, DisableHoming
<1>2. /\ traj' \in [active : BOOLEAN, axes : SUBSET Axes]
      /\ traj' = traj \/ traj' = NoTrajectory
      /\ \A a \in S : ~(traj'.active /\ a \in traj'.axes)
  BY <1>0, <1>1, TrajectoryType DEF TypeOK, EndTrajectoryOf, NoTrajectory
<1>3. ASSUME NEW x \in [Axes -> AxisStates], ax' = Disabled(x, S),
             stopped' = stopped \union S, unsure' \subseteq Axes,
             \A a \in Axes \ unsure' : x[a].mode = x[a].rxMode,
             quiet => \A a \in Axes : x[a].word = {} /\ ~x[a].moving,
             homing' \in [active : BOOLEAN, axes : SUBSET Axes,
                          original : [Axes -> Modes], seenLow : SUBSET Axes],
             homing' = homing \/ ~homing'.active,
             sinceLow' = IF homing'.active THEN sinceLow ELSE sinceLow'
      PROVE  sinceLow' \subseteq Axes => AxisInv'
  <2> HAVE sinceLow' \subseteq Axes
  <2>1. /\ ax' \in [Axes -> AxisStates]
        /\ \A a \in Axes :
             /\ ax'[a].mode = x[a].mode /\ ax'[a].rxMode = x[a].rxMode
             /\ ax'[a].word = IF a \in S THEN {} ELSE x[a].word
             /\ ax'[a].moving = x[a].moving /\ ax'[a].gen = "idle"
    BY <1>3, DisabledFacts
  <2>2. TypeOK' BY <1>0, <1>1, <1>2, <1>3, <2>1 DEF TypeOK
  <2>3. ModesAgree' BY <1>3, <2>1 DEF ModesAgree
  <2>4. StoppedStays'
    BY <1>0, <1>2, <1>3, <2>1 DEF AxisInv, TypeOK, StoppedStays, NoTrajectory
  <2>5. QuietAfterRestart'
    BY <1>1, <1>2, <1>3, <2>1 DEF AxisInv, QuietAfterRestart, NoTrajectory
  <2>6. ReferencesAreFresh' BY <1>1, <1>3 DEF AxisInv, ReferencesAreFresh
  <2> QED BY <2>2, <2>3, <2>4, <2>5, <2>6 DEF AxisInv
<1>4. CASE Disable(S)
  <2>1. ax' = Disabled(ax, S) /\ stopped' = stopped \union S
        /\ UNCHANGED <<homing, unsure, sinceLow>>
    BY <1>4 DEF Disable
  <2>2. /\ \A a \in Axes \ unsure' : ax[a].mode = ax[a].rxMode
        /\ quiet => \A a \in Axes : ax[a].word = {} /\ ~ax[a].moving
    BY <2>1 DEF AxisInv, ModesAgree, QuietAfterRestart
  <2> QED BY <1>0, <1>3, <2>1, <2>2 DEF TypeOK
<1>5. CASE DisableHoming(S)
  <2>1. PICK f \in FinishOutcomes :
          /\ homing' = HomingAfter(f) /\ unsure' = UnsureAfter(f)
          /\ IF f.ok THEN /\ ax' = Disabled(FinishHoming(ax, f), S)
                          /\ stopped' = stopped \union S
                     ELSE Exchange(FinishHoming(ax, f)) /\ UNCHANGED stopped
    BY <1>5 DEF DisableHoming
  <2>2. homing.active /\ sinceLow' = IF homing'.active THEN sinceLow ELSE {}
    BY <1>5 DEF DisableHoming
  <2>3. CASE ~f.ok BY <1>1, <1>2, <2>1, <2>2, <2>3, FinishingKeeps
  <2>4. CASE f.ok
    <3> DEFINE x == FinishHoming(ax, f)
    <3>1. /\ x \in [Axes -> AxisStates]
          /\ \A a \in Axes : /\ a \in f.restored => x[a].mode = x[a].rxMode
                             /\ a \notin f.restored /\ a # f.failed =>
                                  x[a].mode = ax[a].mode /\ x[a].rxMode = ax[a].rxMode
      BY <1>0, FinishFacts
    <3>2. ax' = Disabled(x, S) /\ stopped' = stopped \union S BY <2>1, <2>4
    <3> HIDE DEF x
    <3>3. \A a \in Axes \ unsure' : x[a].mode = x[a].rxMode
      BY <2>1, <3>1 DEF AxisInv, ModesAgree, UnsureAfter
    <3>4. ~quiet BY <2>2 DEF AxisInv, QuietAfterRestart
    <3>5. /\ homing' \in [active : BOOLEAN, axes : SUBSET Axes,
                          original : [Axes -> Modes], seenLow : SUBSET Axes]
          /\ homing' = homing \/ ~homing'.active
          /\ unsure' \subseteq Axes
      BY <1>0, <2>1, HomingType
    <3>6. sinceLow' \subseteq Axes BY <1>0, <2>2 DEF TypeOK
    <3> QED BY <1>3, <2>2, <3>1, <3>2, <3>3, <3>4, <3>5, <3>6
  <2> QED BY <2>3, <2>4
<1> QED BY <1>4, <1>5

\* A step that touches neither the records of trajectory and homing nor the
\* drives, and gives no axis a word, a velocity or a generator after a restart.
LEMMA QuietCommandKeeps ==
    ASSUME AxisInv, NEW y \in [Axes -> AxisStates], Exchange(y) \/ ax' = y,
           \A a \in Axes \ unsure' : y[a].mode = y[a].rxMode,
           \A a \in Axes : y[a].gen = "timed" => ax[a].gen = "timed",
           \A a \in Axes : quiet => y[a].word \subseteq ax[a].word /\ y[a].moving = ax[a].moving,
           unsure' \subseteq Axes, jogPrevious' \in [Axes -> Modes \union {"none"}],
           traj' = traj \/ traj' = NoTrajectory,
           quiet' \in BOOLEAN, quiet' => quiet,
           UNCHANGED <<drive, sequence, homing, bus, stopped, sinceLow>>
    PROVE  AxisInv'
<1>1. /\ ax' \in [Axes -> AxisStates] /\ ModesAgree'
      /\ \A a \in Axes : ax'[a].gen = "timed" => ax[a].gen = "timed"
      /\ \A a \in Axes : ax'[a].word = y[a].word /\ ax'[a].moving = y[a].moving
  BY Sent
<1>2. TypeOK'
  <2>1. traj' \in [active : BOOLEAN, axes : SUBSET Axes]
    BY TrajectoryType DEF AxisInv, TypeOK
  <2> QED BY <1>1, <2>1 DEF AxisInv, TypeOK
<1>3. ReferencesAreFresh' BY DEF AxisInv, ReferencesAreFresh
<1>4. quiet' => \A a \in Axes : ax'[a].word = {} /\ ~ax'[a].moving /\ ~drive'[a].enabled
  BY <1>1 DEF AxisInv, QuietAfterRestart
<1> QED BY <1>1, <1>2, <1>3, <1>4, Keeps

\* enable and set_controlword end the quiet.
LEMMA EnableKeeps ==
    ASSUME AxisInv, NEW S \in Selections, NEW w \in Words, Enable(S) \/ SetControlword(S, w)
    PROVE  AxisInv'
<1>0. ax \in [Axes -> AxisStates] /\ {"enable"} \in Words BY DEF AxisInv, TypeOK, Words
<1>1. /\ UNCHANGED <<drive, traj, sequence, homing, jogPrevious, bus, stopped, unsure, sinceLow>>
      /\ quiet' = FALSE
  BY DEF Enable, SetControlword
<1>2. PICK y \in [Axes -> AxisStates] :
        /\ Exchange(y) \/ ax' = y
        /\ \A a \in Axes : /\ y[a].mode = ax[a].mode /\ y[a].rxMode = ax[a].rxMode
                           /\ y[a].gen \in {"idle", ax[a].gen}
  <2>1. CASE Enable(S)
    BY <1>0, <2>1, WordFacts DEF Enable
  <2>2. CASE SetControlword(S, w)
    <3> DEFINE x == SetWord(ax, S, w)
    <3>1. ax' = x \/ ax' = SetTargets(Hold(x, S)) BY <2>2 DEF SetControlword
    <3>2. /\ x \in [Axes -> AxisStates]
          /\ \A a \in Axes : /\ x[a].mode = ax[a].mode /\ x[a].rxMode = ax[a].rxMode
                             /\ x[a].gen = ax[a].gen
      BY <1>0, WordFacts
    <3> HIDE DEF x
    <3> QED BY <3>1, <3>2, HoldFacts, TargetFacts DEF SameCommand
  <2> QED BY <2>1, <2>2
<1>3. ax' \in [Axes -> AxisStates] /\ ModesAgree'
      /\ \A a \in Axes : ax'[a].gen = "timed" => ax[a].gen = "timed"
  <2>1. \A a \in Axes \ unsure' : y[a].mode = y[a].rxMode
    BY <1>1, <1>2 DEF AxisInv, ModesAgree
  <2> QED BY <1>2, <2>1, Sent
<1>4. TypeOK' BY <1>1, <1>3 DEF AxisInv, TypeOK
<1>5. ReferencesAreFresh' BY <1>1 DEF AxisInv, ReferencesAreFresh
<1> QED BY <1>1, <1>3, <1>4, <1>5, Keeps

LEMMA StopJogKeeps ==
    ASSUME AxisInv, NEW b \in Axes, NEW fails \in BOOLEAN, StopJog(b, fails)
    PROVE  AxisInv'
<1>0. ax \in [Axes -> AxisStates] /\ unsure \subseteq Axes BY DEF AxisInv, TypeOK
<1>1. UNCHANGED <<drive, traj, sequence, homing, bus, stopped, quiet, sinceLow>>
  BY DEF StopJog
<1>2. JogReturnMode(b) \in Modes /\ JogStopWord(b) \in Words
  BY DEF AxisInv, TypeOK, JogReturnMode, JogStopWord, Modes, MotionModes, Words
<1> DEFINE w == SetWord(ax, {b}, JogStopWord(b))
           x == Hold(w, {b})
           y == IF fails THEN SetRxMode(x, b, JogReturnMode(b))
                         ELSE SetModeOf(x, {b}, JogReturnMode(b))
<1>3. /\ Exchange(y) /\ unsure' = (IF fails THEN unsure \union {b} ELSE unsure \ {b})
      /\ jogPrevious' = [jogPrevious EXCEPT ![b] = "none"]
  BY DEF StopJog
<1>4. /\ w \in [Axes -> AxisStates]
      /\ \A a \in Axes : /\ w[a].mode = ax[a].mode /\ w[a].rxMode = ax[a].rxMode
                         /\ w[a].word = IF a = b THEN JogStopWord(b) ELSE ax[a].word
                         /\ w[a].moving = ax[a].moving /\ w[a].gen = ax[a].gen
  BY <1>0, <1>2, WordFacts
<1> HIDE DEF w
<1>5. /\ x \in [Axes -> AxisStates]
      /\ \A a \in Axes : SameCommand(x[a], w[a]) /\ x[a].gen \in {"idle", w[a].gen}
  BY <1>4, HoldFacts
<1> HIDE DEF x
<1>6. /\ y \in [Axes -> AxisStates]
      /\ \A a \in Axes :
           /\ a # b => y[a].mode = x[a].mode /\ y[a].rxMode = x[a].rxMode
           /\ ~fails => y[b].mode = y[b].rxMode
           /\ y[a].word = x[a].word /\ y[a].moving = x[a].moving /\ y[a].gen = x[a].gen
  BY <1>2, <1>5, ModeFacts, RxModeFacts
<1> HIDE DEF y
<1>7. \A a \in Axes \ unsure' : y[a].mode = y[a].rxMode
  BY <1>3, <1>4, <1>5, <1>6 DEF AxisInv, ModesAgree, SameCommand
<1>8. \A a \in Axes : quiet => y[a].word \subseteq ax[a].word /\ y[a].moving = ax[a].moving
  <2>1. quiet => JogStopWord(b) = {} BY DEF AxisInv, QuietAfterRestart, JogStopWord
  <2> QED BY <1>4, <1>5, <1>6, <2>1 DEF SameCommand
<1>9. \A a \in Axes : y[a].gen = "timed" => ax[a].gen = "timed" BY <1>4, <1>5, <1>6
<1>10. /\ unsure' \subseteq Axes /\ quiet' \in BOOLEAN
       /\ jogPrevious' \in [Axes -> Modes \union {"none"}]
  BY <1>0, <1>1, <1>3 DEF AxisInv, TypeOK
<1> QED BY <1>1, <1>3, <1>6, <1>7, <1>8, <1>9, <1>10, QuietCommandKeeps

LEMMA SetModeKeeps ==
    ASSUME AxisInv, NEW S \in Selections, NEW m \in MotionModes, NEW F \in SUBSET S,
           SetMode(S, m, F)
    PROVE  AxisInv'
<1>0. ax \in [Axes -> AxisStates] /\ unsure \subseteq Axes /\ m \in Modes
  BY DEF AxisInv, TypeOK, Modes
<1> DEFINE x == SetTargets(Hold(ax, S))
           y == ModesSet(x, S, m, F)
<1>1. /\ Exchange(y) /\ unsure' = unsure \ S
      /\ UNCHANGED <<drive, traj, sequence, homing, jogPrevious, bus, stopped, quiet, sinceLow>>
  BY DEF SetMode
<1>2. /\ x \in [Axes -> AxisStates]
      /\ \A a \in Axes : SameCommand(x[a], ax[a]) /\ x[a].gen = "idle"
  BY <1>0, HoldFacts, TargetFacts DEF SameCommand
<1> HIDE DEF x
<1>3. /\ y \in [Axes -> AxisStates]
      /\ \A a \in Axes : /\ a \in S => y[a].mode = y[a].rxMode
                         /\ a \notin S => y[a] = x[a]
                         /\ y[a].word = x[a].word /\ y[a].moving = x[a].moving
                         /\ y[a].gen = x[a].gen
  BY <1>0, <1>2, ModesSetFacts
<1> HIDE DEF y
<1>4. \A a \in Axes \ unsure' : y[a].mode = y[a].rxMode
  BY <1>1, <1>2, <1>3 DEF AxisInv, ModesAgree, SameCommand
<1>5. \A a \in Axes : y[a].word = ax[a].word /\ y[a].moving = ax[a].moving
  BY <1>2, <1>3 DEF SameCommand
<1>6. /\ unsure' \subseteq Axes /\ quiet' \in BOOLEAN
      /\ jogPrevious' \in [Axes -> Modes \union {"none"}]
  BY <1>0, <1>1 DEF AxisInv, TypeOK
<1> QED BY <1>1, <1>2, <1>3, <1>4, <1>5, <1>6, QuietCommandKeeps

\* Requests that are refused, and the cancelling they do.
LEMMA RefusalKeeps ==
    ASSUME AxisInv, TrajectoryRefused \/ TrajectoryRefusedByFault \/ MoveRefusedByFault
    PROVE  AxisInv'
<1>0. ax \in [Axes -> AxisStates] /\ unsure \subseteq Axes BY DEF AxisInv, TypeOK
<1>1. /\ UNCHANGED <<drive, sequence, homing, jogPrevious, bus, stopped, quiet, unsure, sinceLow>>
      /\ traj' = traj \/ traj' = NoTrajectory
      /\ ax' = ax \/ ax' = SyncTrajectories(HoldFaulted(ax))
  BY DEF TrajectoryRefused, TrajectoryRefusedByFault, MoveRefusedByFault, history
<1>2. PICK y \in [Axes -> AxisStates] :
        /\ ax' = y
        /\ \A a \in Axes : SameCommand(y[a], ax[a]) /\ y[a].gen \in {"idle", ax[a].gen}
  BY <1>0, <1>1, HoldFaultedFacts, TargetFacts DEF SameCommand
<1>3. \A a \in Axes \ unsure' : y[a].mode = y[a].rxMode
  BY <1>1, <1>2 DEF AxisInv, ModesAgree, SameCommand
<1>4. \A a \in Axes : y[a].word = ax[a].word /\ y[a].moving = ax[a].moving
  BY <1>2 DEF SameCommand
<1>5. /\ unsure' \subseteq Axes /\ quiet' \in BOOLEAN
      /\ jogPrevious' \in [Axes -> Modes \union {"none"}]
  BY <1>0, <1>1 DEF AxisInv, TypeOK
<1> QED BY <1>1, <1>2, <1>3, <1>4, <1>5, QuietCommandKeeps

LEMMA FaultResetKeeps ==
    ASSUME AxisInv, NEW S \in Selections, FaultReset(S)
    PROVE  AxisInv'
<1>0. TypeOK /\ ax \in [Axes -> AxisStates] /\ {} \in Words BY DEF AxisInv, TypeOK, Words
<1> DEFINE y == SetWord(ax, S, {})
<1>1. /\ UNCHANGED <<traj, sequence, homing, jogPrevious, bus, stopped, quiet, unsure, sinceLow>>
      /\ Exchange(y)
  BY DEF FaultReset, history
<1>2. /\ y \in [Axes -> AxisStates]
      /\ \A a \in Axes : /\ y[a].mode = ax[a].mode /\ y[a].rxMode = ax[a].rxMode
                         /\ y[a].word = IF a \in S THEN {} ELSE ax[a].word
                         /\ y[a].moving = ax[a].moving /\ y[a].gen = ax[a].gen
  BY <1>0, WordFacts
<1> HIDE DEF y
<1>3. /\ drive' \in [Axes -> DriveStates]
      /\ \A a \in Axes : /\ drive'[a].enabled = drive[a].enabled
                         /\ drive'[a].referenced = drive[a].referenced
  <2>1. PICK C \in SUBSET S :
          drive' = [a \in Axes |-> IF a \in C THEN [drive[a] EXCEPT !.fault = FALSE]
                                              ELSE drive[a]]
    BY DEF FaultReset
  <2> QED BY <1>0, <2>1 DEF TypeOK, DriveStates
<1>4. \A a \in Axes \ unsure' : y[a].mode = y[a].rxMode
  BY <1>1, <1>2 DEF AxisInv, ModesAgree
<1>5. /\ ax' \in [Axes -> AxisStates] /\ ModesAgree'
      /\ \A a \in Axes : ax'[a].gen = "timed" => ax[a].gen = "timed"
      /\ \A a \in Axes : ax'[a].word = y[a].word /\ ax'[a].moving = y[a].moving
  BY <1>1, <1>2, <1>4, Sent
<1>6. TypeOK' BY <1>0, <1>1, <1>3, <1>5 DEF TypeOK
<1>7. ReferencesAreFresh' BY <1>0, <1>1, <1>3 DEF AxisInv, ReferencesAreFresh, TypeOK
<1>8. quiet' => \A a \in Axes : ax'[a].word = {} /\ ~ax'[a].moving /\ ~drive'[a].enabled
  BY <1>1, <1>2, <1>3, <1>5 DEF AxisInv, QuietAfterRestart
<1> QED BY <1>1, <1>5, <1>6, <1>7, <1>8, Keeps

LEMMA FinishingFailsKeeps ==
    ASSUME AxisInv, NEW S, StopFailsFinishing(S) \/ RestartFailsFinishing
    PROVE  AxisInv'
<1>1. PICK f \in FinishFailures : /\ Exchange(FinishHoming(ax, f))
                                  /\ unsure' = UnsureAfter(f)
  BY DEF StopFailsFinishing, RestartFailsFinishing
<1>2. f \in FinishOutcomes /\ HomingAfter(f) = homing
  <2>1. f.ok = FALSE
    <3>1. CASE bus = "down" BY <3>1 DEF FinishFailures
    <3>2. CASE bus # "down"
      <4>1. f \in [ok : {FALSE}, restored : SUBSET Restorable, failed : Restorable]
        BY <3>2 DEF FinishFailures
      <4> QED BY <4>1
    <3> QED BY <3>1, <3>2
  <2> QED BY <2>1 DEF FinishOutcomes, HomingAfter
<1>3. /\ homing.active
      /\ UNCHANGED <<drive, traj, sequence, homing, jogPrevious, bus, stopped, quiet, sinceLow>>
  BY DEF StopFailsFinishing, RestartFailsFinishing
<1> QED BY <1>1, <1>2, <1>3, FinishingKeeps

LEMMA SwitchedOffFacts ==
    ASSUME NEW x \in [Axes -> AxisStates]
    PROVE  /\ SwitchedOff(x) \in [Axes -> AxisStates]
           /\ \A a \in Axes :
                /\ SwitchedOff(x)[a].mode = x[a].mode
                /\ SwitchedOff(x)[a].rxMode = x[a].rxMode
                /\ SwitchedOff(x)[a].gen = "idle"
<1> DEFINE y == SyncTrajectories(SetTargets(Hold(x, Axes)))
<1>1. /\ y \in [Axes -> AxisStates]
      /\ \A a \in Axes : SameCommand(y[a], x[a]) /\ y[a].gen = "idle"
  BY HoldFacts, TargetFacts DEF SameCommand
<1>2. SwitchedOff(x) = SetWord(y, Axes, {}) /\ {} \in Words BY DEF SwitchedOff, Words
<1> HIDE DEF y
<1> QED BY <1>1, <1>2, WordFacts DEF SameCommand

\* An axis restart stops every axis; when the bus is back it is quiet.
LEMMA RestartKeeps ==
    ASSUME AxisInv, NEW outcome \in {"failed", "down"} \union BusBack, Restart(outcome)
    PROVE  AxisInv'
<1>0. TypeOK /\ ax \in [Axes -> AxisStates] BY DEF AxisInv, TypeOK
<1> DEFINE h == IF homing.active THEN FinishHoming(ax, Finished) ELSE ax
           x == SwitchedOff(h)
<1>1. /\ ax' = IF outcome \in BusBack THEN Restored(x) ELSE x
      /\ homing' = IF homing.active THEN HomingAfter(Finished) ELSE homing
      /\ unsure' = IF outcome \in BusBack THEN {}
                   ELSE IF homing.active THEN UnsureAfter(Finished) ELSE unsure
      /\ traj' = IF traj.active THEN NoTrajectory ELSE traj
      /\ stopped' = Axes /\ quiet' = (outcome \in BusBack)
      /\ bus' = IF outcome = "down" THEN "down" ELSE "up"
      /\ sinceLow' = {}
      /\ UNCHANGED <<sequence, jogPrevious>>
  BY DEF Restart
<1>2. /\ drive' \in [Axes -> DriveStates]
      /\ outcome \in BusBack => \A a \in Axes : ~drive'[a].enabled
  BY <1>0 DEF Restart, TypeOK
<1>3. Finished \in FinishOutcomes BY DEF Restart, Request, FinishOutcomes
<1>4. /\ h \in [Axes -> AxisStates]
      /\ outcome \notin BusBack => \A a \in Axes \ unsure' : h[a].mode = h[a].rxMode
  <2>1. CASE ~homing.active BY <1>0, <1>1, <2>1 DEF AxisInv, ModesAgree
  <2>2. CASE homing.active
    <3> DEFINE z == FinishHoming(ax, Finished)
    <3>1. /\ z \in [Axes -> AxisStates]
          /\ \A a \in Axes :
               /\ a \in Finished.restored => z[a].mode = z[a].rxMode
               /\ a \notin Finished.restored /\ a # Finished.failed =>
                    z[a].mode = ax[a].mode /\ z[a].rxMode = ax[a].rxMode
      BY <1>0, <1>3, FinishFacts
    <3>2. h = z BY <2>2
    <3> HIDE DEF z, h
    <3> QED BY <1>1, <2>2, <3>1, <3>2 DEF AxisInv, ModesAgree, UnsureAfter
  <2> QED BY <2>1, <2>2
<1> HIDE DEF h
<1>5. /\ x \in [Axes -> AxisStates]
      /\ \A a \in Axes : /\ x[a].mode = h[a].mode /\ x[a].rxMode = h[a].rxMode
                         /\ x[a].gen = "idle"
  BY <1>4, SwitchedOffFacts
<1> HIDE DEF x
<1>6. /\ ax' \in [Axes -> AxisStates]
      /\ \A a \in Axes : /\ ax'[a].gen = "idle"
                         /\ IF outcome \in BusBack
                            THEN /\ ax'[a].mode = ax'[a].rxMode
                                 /\ ax'[a].word = {} /\ ~ax'[a].moving
                            ELSE ax'[a] = x[a]
  BY <1>1, <1>5, RestoredFacts
<1>7. ~homing'.active /\ ~traj'.active
  BY <1>1 DEF HomingAfter, Finished, NoHoming, NoTrajectory
<1>8. TypeOK'
  <2>1. /\ homing' \in [active : BOOLEAN, axes : SUBSET Axes,
                        original : [Axes -> Modes], seenLow : SUBSET Axes]
        /\ unsure' \subseteq Axes
    BY <1>0, <1>1, <1>3, HomingType DEF TypeOK
  <2>2. traj' \in [active : BOOLEAN, axes : SUBSET Axes]
    BY <1>0, <1>1, TrajectoryType DEF TypeOK
  <2>3. quiet' \in BOOLEAN BY <1>1
  <2> QED BY <1>0, <1>1, <1>2, <1>6, <2>1, <2>2, <2>3 DEF TypeOK
<1>9. ModesAgree' BY <1>4, <1>5, <1>6 DEF ModesAgree
<1>10. StoppedStays' BY <1>1, <1>6, <1>7 DEF StoppedStays
<1>11. QuietAfterRestart' BY <1>1, <1>2, <1>6, <1>7 DEF QuietAfterRestart
<1>12. ReferencesAreFresh' BY <1>7 DEF ReferencesAreFresh
<1> QED BY <1>8, <1>9, <1>10, <1>11, <1>12 DEF AxisInv

LEMMA AdvanceFacts ==
    ASSUME NEW x \in [Axes -> AxisStates], NEW done
    PROVE  /\ Advance(x, done) \in [Axes -> AxisStates]
           /\ \A a \in Axes : /\ SameCommand(Advance(x, done)[a], x[a])
                              /\ Advance(x, done)[a].gen \in {"arrived", x[a].gen}
BY DEF Advance, AxisStates, SameCommand

\* A cycle without requests: nothing is started, and a homing that ends gives
\* the modes back.
LEMMA CycleKeeps ==
    ASSUME AxisInv, NEW done \in SUBSET Axes, NEW completes \in BOOLEAN,
           NEW homed \in {"no", "complete", "error"}, Cycle(done, completes, homed)
    PROVE  AxisInv'
<1>0. TypeOK /\ ax \in [Axes -> AxisStates] BY DEF AxisInv, TypeOK
<1> DEFINE x == HoldFaulted(ax)
           y == IF completes THEN Hold(x, traj.axes) ELSE x
           z == Advance(y, done)
<1>1. /\ traj' = traj \/ traj' = NoTrajectory
      /\ sinceLow' = IF homing'.active THEN sinceLow ELSE {}
      /\ UNCHANGED <<drive, sequence, jogPrevious, bus, stopped, quiet>> /\ bus = "up"
      /\ \/ /\ ax' = z /\ UNCHANGED unsure
            /\ homing' = IF homing.active THEN [homing EXCEPT !.seenLow = HomingSeenLow]
                                          ELSE homing
         \/ /\ homing.active /\ ax' = FinishHoming(z, Finished)
            /\ homing' = HomingAfter(Finished) /\ unsure' = UnsureAfter(Finished)
  BY DEF Cycle
<1>2. /\ x \in [Axes -> AxisStates]
      /\ \A a \in Axes : SameCommand(x[a], ax[a]) /\ x[a].gen \in {"idle", ax[a].gen}
  BY <1>0, HoldFaultedFacts
<1> HIDE DEF x
<1>3. /\ y \in [Axes -> AxisStates]
      /\ \A a \in Axes : SameCommand(y[a], x[a]) /\ y[a].gen \in {"idle", x[a].gen}
  BY <1>2, HoldFacts DEF SameCommand
<1> HIDE DEF y
<1>4. /\ z \in [Axes -> AxisStates]
      /\ \A a \in Axes : SameCommand(z[a], y[a]) /\ z[a].gen \in {"arrived", y[a].gen}
  BY <1>3, AdvanceFacts
<1> HIDE DEF z
<1>5. /\ \A a \in Axes : SameCommand(z[a], ax[a])
      /\ \A a \in Axes : z[a].gen = "timed" => ax[a].gen = "timed"
  BY <1>2, <1>3, <1>4 DEF SameCommand
<1>6. traj' \in [active : BOOLEAN, axes : SUBSET Axes]
  BY <1>0, <1>1, TrajectoryType DEF TypeOK
<1>7. CASE /\ ax' = z /\ UNCHANGED unsure
           /\ homing' = IF homing.active THEN [homing EXCEPT !.seenLow = HomingSeenLow]
                                         ELSE homing
  <2>1. /\ homing' \in [active : BOOLEAN, axes : SUBSET Axes,
                        original : [Axes -> Modes], seenLow : SUBSET Axes]
        /\ homing'.active = homing.active
        /\ homing.active => homing'.axes = homing.axes /\ homing'.seenLow = HomingSeenLow
    <3>1. HomingSeenLow \subseteq Axes BY <1>0 DEF HomingSeenLow, TypeOK
    <3> QED BY <1>0, <1>7, <3>1 DEF TypeOK
  <2>2. ModesAgree' BY <1>5, <1>7 DEF AxisInv, ModesAgree, SameCommand
  <2>3. ReferencesAreFresh'
    BY <1>1, <2>1 DEF AxisInv, ReferencesAreFresh, HomingSeenLow
  <2>4. TypeOK' BY <1>0, <1>1, <1>4, <1>6, <1>7, <2>1 DEF TypeOK
  <2>5. quiet' => \A a \in Axes : ax'[a].word = {} /\ ~ax'[a].moving /\ ~drive'[a].enabled
    BY <1>1, <1>5, <1>7 DEF AxisInv, QuietAfterRestart, SameCommand
  <2> QED BY <1>1, <1>5, <1>7, <2>1, <2>2, <2>3, <2>4, <2>5, Keeps
<1>8. CASE /\ homing.active /\ ax' = FinishHoming(z, Finished)
           /\ homing' = HomingAfter(Finished) /\ unsure' = UnsureAfter(Finished)
  <2>1. Finished \in FinishOutcomes BY <1>1 DEF FinishOutcomes
  <2>2. /\ ax' \in [Axes -> AxisStates]
        /\ \A a \in Axes :
             /\ a \in Finished.restored => ax'[a].mode = ax'[a].rxMode
             /\ a \notin Finished.restored /\ a # Finished.failed =>
                  ax'[a].mode = z[a].mode /\ ax'[a].rxMode = z[a].rxMode
             /\ ax'[a].gen = z[a].gen
    BY <1>0, <1>4, <1>8, <2>1, FinishFacts
  <2>3. ~homing'.active BY <1>8 DEF HomingAfter, Finished, NoHoming
  <2>4. ~quiet BY <1>8 DEF AxisInv, QuietAfterRestart
  <2>5. ModesAgree'
    BY <1>5, <1>8, <2>2 DEF AxisInv, ModesAgree, UnsureAfter, SameCommand
  <2>6. TypeOK'
    <3>1. /\ homing' \in [active : BOOLEAN, axes : SUBSET Axes,
                          original : [Axes -> Modes], seenLow : SUBSET Axes]
          /\ unsure' \subseteq Axes
      BY <1>0, <1>8, <2>1, HomingType
    <3> QED BY <1>0, <1>1, <1>6, <2>2, <2>3, <3>1 DEF TypeOK
  <2>7. ReferencesAreFresh' BY <2>3 DEF ReferencesAreFresh
  <2> QED BY <1>1, <1>5, <2>2, <2>4, <2>5, <2>6, <2>7, Keeps
<1> QED BY <1>1, <1>7, <1>8

\* The drives, the bus and its reconnection.
LEMMA BusKeeps ==
    ASSUME AxisInv,
           \/ BusLost \/ BusReconnect \/ HomeRefused
           \/ \E a \in Axes, w \in DriveStates : DriveChanges(a, w)
    PROVE  AxisInv'
<1>0. TypeOK /\ ax \in [Axes -> AxisStates] BY DEF AxisInv, TypeOK
<1>1. CASE BusLost \/ HomeRefused
  <2>1. /\ UNCHANGED <<ax, drive, traj, sequence, jogPrevious, stopped, quiet, unsure>>
        /\ \/ homing' = homing /\ sinceLow' = sinceLow
           \/ homing' = NoHoming /\ sinceLow' = {}
        /\ bus' \in {"up", "down"}
    <3>1. bus \in {"up", "down"} BY <1>0 DEF TypeOK
    <3> QED BY <1>1, <3>1 DEF BusLost, HomeRefused, history
  <2>2. TypeOK' BY <1>0, <2>1, HomingType DEF TypeOK
  <2>3. ModesAgree' BY <2>1 DEF AxisInv, ModesAgree
  <2>4. ReferencesAreFresh' BY <2>1 DEF AxisInv, ReferencesAreFresh, NoHoming
  <2>5. quiet' => \A a \in Axes : ax'[a].word = {} /\ ~ax'[a].moving /\ ~drive'[a].enabled
    BY <2>1 DEF AxisInv, QuietAfterRestart
  <2>6. homing'.active => homing.active BY <2>1 DEF NoHoming
  <2> QED BY <2>1, <2>2, <2>3, <2>4, <2>5, <2>6, Keeps
<1>2. CASE BusReconnect
  <2>1. /\ ax' = Restored(ax) /\ drive' \in [Axes -> DriveStates] /\ bus' = "up"
        /\ \A a \in Axes : ~drive'[a].enabled
        /\ sinceLow' = SeenLow(drive') /\ unsure' = {}
        /\ UNCHANGED <<traj, sequence, homing, jogPrevious, stopped, quiet>>
    BY <1>2 DEF BusReconnect
  <2>2. /\ ax' \in [Axes -> AxisStates]
        /\ \A a \in Axes : /\ ax'[a].mode = ax'[a].rxMode /\ ax'[a].gen = "idle"
                           /\ ax'[a].word = {} /\ ~ax'[a].moving
    BY <1>0, <2>1, RestoredFacts
  <2>3. sinceLow' \subseteq Axes BY <1>0, <2>1 DEF TypeOK, SeenLow
  <2>4. TypeOK' BY <1>0, <2>1, <2>2, <2>3 DEF TypeOK
  <2>5. ModesAgree' BY <2>2 DEF ModesAgree
  <2>6. ReferencesAreFresh' BY <2>1 DEF AxisInv, ReferencesAreFresh, SeenLow
  <2> QED BY <2>1, <2>2, <2>4, <2>5, <2>6, Keeps
<1>3. CASE \E a \in Axes, w \in DriveStates : DriveChanges(a, w)
  <2>1. PICK b \in Axes, w \in DriveStates : DriveChanges(b, w) BY <1>3
  <2>2. /\ drive' = [drive EXCEPT ![b] = w] /\ Follows(drive')
        /\ sinceLow' = SeenLow(drive')
        /\ UNCHANGED <<ax, traj, sequence, homing, jogPrevious, bus, stopped, quiet, unsure>>
    BY <2>1 DEF DriveChanges
  <2>3. drive' \in [Axes -> DriveStates] BY <1>0, <2>2 DEF TypeOK
  <2>4. sinceLow' \subseteq Axes BY <1>0, <2>2 DEF TypeOK, SeenLow
  <2>5. TypeOK' BY <1>0, <2>2, <2>3, <2>4 DEF TypeOK
  <2>6. ModesAgree' BY <2>2 DEF AxisInv, ModesAgree
  <2>7. ReferencesAreFresh' BY <2>2 DEF AxisInv, ReferencesAreFresh, SeenLow
  <2>8. quiet' => \A a \in Axes : ax'[a].word = {} /\ ~ax'[a].moving /\ ~drive'[a].enabled
    BY <2>2 DEF AxisInv, QuietAfterRestart, Follows
  <2> QED BY <2>2, <2>5, <2>6, <2>7, <2>8, Keeps
<1> QED BY <1>1, <1>2, <1>3

-----------------------------------------------------------------------------
(* The theorems *)

\* AxisInv holds initially and every handler, cycle and recovery keeps it.
THEOREM AxisInvariant == Spec => []AxisInv
<1>1. ASSUME Init PROVE AxisInv
  <2>1. /\ InitialMode \in Modes /\ {"enable"} \in Words
    BY InitialModeAssumption DEF Modes, Words
  <2>2. ax \in [Axes -> AxisStates] BY <1>1, <2>1 DEF Init, AxisStates
  <2>3. homing \in [active : BOOLEAN, axes : SUBSET Axes,
                    original : [Axes -> Modes], seenLow : SUBSET Axes]
    BY <1>1 DEF Init, NoHoming, Modes, MotionModes
  <2>4. sequence \in 0 .. MaxTrajectories BY <1>1, MaxTrajectoriesAssumption DEF Init
  <2>5. TypeOK BY <1>1, <2>2, <2>3, <2>4, TrajectoryType DEF Init, TypeOK
  <2>6. ModesAgree /\ StoppedStays /\ QuietAfterRestart
    BY <1>1 DEF Init, ModesAgree, StoppedStays, QuietAfterRestart
  <2>7. ReferencesAreFresh BY <1>1 DEF Init, ReferencesAreFresh, NoHoming
  <2> QED BY <2>5, <2>6, <2>7 DEF AxisInv
<1>2. ASSUME AxisInv, [Next]_vars PROVE AxisInv'
  <2>0. OneOrAll \subseteq Selections BY DEF OneOrAll
  <2>1. CASE \E S \in Selections :
               \/ Enable(S) \/ Disable(S) \/ DisableHoming(S) \/ Stop(S)
               \/ StopFailsFinishing(S) \/ FaultReset(S)
    <3>1. {"enable"} \in Words BY DEF Words
    <3> QED BY <1>2, <2>1, <3>1, EnableKeeps, DisableKeeps, StopKeeps, FinishingFailsKeeps,
          FaultResetKeeps
  <2>2. CASE \E S \in Selections :
               \/ TrajectoryRepeated(S) \/ TrajectoryFault(S) \/ TrajectoryMove(S)
               \/ TrajectoryStop(S) \/ Move(S) \/ MoveFails(S)
               \/ StartHoming(S) \/ StartHomingFails(S)
               \/ \E M \in SUBSET S : MoveVelocity(S, M) \/ MoveVelocityFails(S, M)
    BY <1>2, <2>2, TrajectoryKeeps, TrajectoryMoveKeeps, TrajectoryStopKeeps, MoveKeeps,
      StartHomingKeeps, StartHomingFailsKeeps, MoveVelocityKeeps
  <2>3. CASE \E a \in Axes :
               \/ StartJog(a) \/ StartJogFails(a)
               \/ \E fails \in BOOLEAN : StopJog(a, fails)
    BY <1>2, <2>3, StartJogKeeps, StopJogKeeps
  <2>4. CASE \E S \in OneOrAll :
               \/ \E w \in Words : SetControlword(S, w)
               \/ \E m \in MotionModes, F \in SUBSET S : SetMode(S, m, F)
    BY <1>2, <2>0, <2>4, EnableKeeps, SetModeKeeps
  <2>5. CASE \/ \E outcome \in {"failed", "down"} \union BusBack : Restart(outcome)
             \/ RestartFailsFinishing
    BY <1>2, <2>5, RestartKeeps, FinishingFailsKeeps
  <2>6. CASE TrajectoryRefused \/ TrajectoryRefusedByFault \/ MoveRefusedByFault
    BY <1>2, <2>6, RefusalKeeps
  <2>7. CASE CycleStep BY <1>2, <2>7, CycleKeeps DEF CycleStep
  <2>8. CASE \/ BusLost \/ BusReconnect \/ HomeRefused
             \/ \E a \in Axes, w \in DriveStates : DriveChanges(a, w)
    BY <1>2, <2>8, BusKeeps
  <2>9. CASE UNCHANGED vars
    BY <1>2, <2>9 DEF vars, AxisInv, TypeOK, ModesAgree, StoppedStays, QuietAfterRestart,
      ReferencesAreFresh
  <2> QED BY <1>2, <2>1, <2>2, <2>3, <2>4, <2>5, <2>6, <2>7, <2>8, <2>9 DEF Next
<1> QED BY <1>1, <1>2, PTL DEF Spec

\* The records have their shape and the mode the server believes an axis is in
\* is the one it sends, after every sequence of mode changes, jogs, homings,
\* trajectories and recoveries.
THEOREM ModesStayConsistent == Spec => []Consistent
<1>1. AxisInv => Consistent BY DEF AxisInv, Consistent
<1> QED BY <1>1, AxisInvariant, PTL

\* What was stopped, disabled or restarted stays at rest until motion is asked
\* of it again.
THEOREM NothingIsResumed == Spec => []NothingResumes
<1>1. AxisInv => NothingResumes BY DEF AxisInv, NothingResumes
<1> QED BY <1>1, AxisInvariant, PTL

\* After a completed axis restart nothing operates or moves until a client
\* enables an axis.
THEOREM RestartIsQuiet == Spec => []QuietAfterRestart
<1>1. AxisInv => QuietAfterRestart BY DEF AxisInv
<1> QED BY <1>1, AxisInvariant, PTL

\* update_homing_state completes a homing only with references the drives
\* lost since start_homing.
THEOREM CompletionStaysFresh == Spec => []CompletionIsFresh
<1>1. AxisInv => CompletionIsFresh
  BY DEF AxisInv, ReferencesAreFresh, CompletionIsFresh, HomingReady, HomingSeenLow
<1> QED BY <1>1, AxisInvariant, PTL
===================================================================================
