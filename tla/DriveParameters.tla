--------------------------- MODULE DriveParameters ---------------------------
(***************************************************************************)
(* The parameters of the axes: the object dictionary of each drive, the    *)
(* server's cache of it (app/axis_parameters.py), the copies made from the *)
(* cache (unit conversion, motion controller, profile velocity in the      *)
(* RxPDO) and the operations that keep them together: start-up, the        *)
(* settings requests, raw SDO access, bus reconnect and axis restart.      *)
(*                                                                         *)
(* Every SDO may fail.  A write that fails may have been carried out (its  *)
(* answer is lost, or one of the retries of the master got through), and a *)
(* group of writes ends at the first failure.                              *)
(*                                                                         *)
(* Numbers are in drive units; a value of a client is multiplied by        *)
(* Scale(exp), exp being the exponent the server believes in.              *)
(***************************************************************************)
EXTENDS Naturals, Sequences, FiniteSets

CONSTANTS
  Axes,            \* 1..n, in the order a request goes through them
  Values,          \* values a client asks for
  DefaultExp,      \* DEFAULT_CONVERTING_UNIT_EXPONENTS
  FallbackLimit,   \* the limits of an axis whose limits could not be read
  VelocityMapped,  \* profile velocity is part of the RxPDO
  RawObjects,      \* objects that clients access by raw SDO
  MaxRequests,     \* bound: requests served
  MaxLosses        \* bound: times a drive loses its power

Exps == {1, 2}
Scale(e) == e
ToDrive(v, e) == v * Scale(e)
LimitObjects == {"low", "high"}
ProfileObjects == {"vel", "acc"}
MotionObjects == {"pos", "neg"}
Fields == {"exp", "low", "high", "vel", "acc", "pos", "neg"}
Groups == {"units", "limits", "vel", "acc", "motion"}
FieldsOf(g) == CASE g = "units" -> {"exp"} [] g = "limits" -> LimitObjects
                 [] g = "motion" -> MotionObjects [] OTHER -> {g}
GroupOf(f) == CHOOSE g \in Groups : f \in FieldsOf(g)
Modes == {"pp", "pv"}

ASSUME ParametersAssumption ==
  /\ Axes = 1..Cardinality(Axes)
  /\ Values \subseteq Nat \ {0} /\ DefaultExp \in Exps /\ FallbackLimit \in Nat
  /\ VelocityMapped \in BOOLEAN /\ RawObjects \subseteq Fields
  /\ MaxRequests \in Nat /\ MaxLosses \in Nat

VARIABLES
  phase,    \* start, failed, run, lost
  od,       \* od[a]: the object dictionary, with the mode of operation
  saved,    \* saved[a]: what the drive has in its non-volatile memory
  cache,    \* runtime.axis_parameters
  invalid,  \* axes whose cached values are marked invalid
  conv,     \* the exponents of the unit converter
  ctl,      \* the velocity limit of the motion controller
  rx,       \* rx[a]: profile velocity and mode in the RxPDO
  modes,    \* state["motion_modes"]
  doubt,    \* history: groups whose cached value is known not to be read back
  answer,   \* the settings request just answered with success
  served, losses

vars == <<phase, od, saved, cache, invalid, conv, ctl, rx, modes, doubt,
          answer, served, losses>>

Number == Nat
Parameters == [Fields -> Number]
NoAnswer == [ok |-> FALSE, axes |-> {}, set |-> <<>>]

\* The velocity limit as the controller gets it: the larger of the two limits
\* and the exponent it is converted with.
LimitOf(v, e) == [limit |-> IF v.pos > v.neg THEN v.pos ELSE v.neg, exp |-> e]

(* The state of the parameters has its shape.                              *)
TypeOK ==
  /\ phase \in {"start", "failed", "run", "lost"}
  /\ od \in [Axes -> [param : Parameters, mode : Modes]]
  /\ saved \in [Axes -> Parameters] /\ cache \in [Axes -> Parameters]
  /\ invalid \subseteq Axes /\ conv \in [Axes -> Exps]
  /\ ctl \in [Axes -> [limit : Number, exp : Exps]]
  /\ rx \in [Axes -> [vel : Number, mode : Modes]]
  /\ modes \in [Axes -> Modes]
  /\ doubt \in [Axes -> SUBSET Groups]
  /\ answer.ok \in BOOLEAN /\ answer.axes \subseteq Axes
  /\ DOMAIN answer.set \subseteq Fields
  /\ served \in 0..MaxRequests /\ losses \in 0..MaxLosses

InitialParameters ==
  {p \in [Fields -> {1, 2, 4}] :
     /\ p.exp \in Exps /\ p.low = 1 /\ p.high = 4
     /\ p.vel = 2 /\ p.acc = 2 /\ p.pos = 2 /\ p.neg = 1}

Zero == [f \in Fields |-> 0]

\* Before the start; the server objects are as __init__ makes them.
Init ==
  /\ phase = "start"
  /\ saved \in [Axes -> InitialParameters]
  /\ \A a \in Axes \ {1} : saved[a].exp = DefaultExp
  /\ od = [a \in Axes |-> [param |-> saved[a], mode |-> "pp"]]
  /\ cache = [a \in Axes |-> Zero] /\ invalid = {}
  /\ conv = [a \in Axes |-> DefaultExp]
  /\ ctl = [a \in Axes |-> [limit |-> 0, exp |-> DefaultExp]]
  /\ rx = [a \in Axes |-> [vel |-> 0, mode |-> "pp"]]
  /\ modes = [a \in Axes |-> "pp"]
  /\ doubt = [a \in Axes |-> Groups]
  /\ answer = NoAnswer /\ served = 0 /\ losses = 0
-----------------------------------------------------------------------------
(* SDO access                                                              *)

\* Outcomes of a group of n writes: how many took effect, and whether one
\* reported an error; read: whether the read-back after it succeeds.
Outcomes(n) ==
  {o \in [done : 0..n, error : BOOLEAN, read : BOOLEAN] :
     o.error \/ o.done = n}

\* Outcomes of a request that makes n[a] writes on each of its axes.  It ends
\* at the first axis that fails, so one failure is as much as there is.
RequestOutcomes(axes, n) ==
  {o \in [axes -> UNION {Outcomes(n[a]) : a \in axes}] :
     /\ \A a \in axes : o[a] \in Outcomes(n[a])
     /\ Cardinality({a \in axes : o[a].error \/ ~o[a].read}) <= 1}

\* p after the first k of the writes <<field, value>>.
Written(p, writes, k) ==
  [f \in Fields |->
     IF \E i \in 1..k : writes[i][1] = f
     THEN writes[CHOOSE i \in 1..k : writes[i][1] = f][2] ELSE p[f]]

\* What the cyclic exchange makes of the object dictionary.
Exchanged(o, r) ==
  [a \in Axes |->
     [param |-> IF VelocityMapped THEN [o[a].param EXCEPT !.vel = r[a].vel]
                                  ELSE o[a].param,
      mode |-> r[a].mode]]

\* synchronize_profile_velocity_command
Seeded(r, v) == IF VelocityMapped THEN [r EXCEPT !.vel = v] ELSE r
-----------------------------------------------------------------------------
(* Start-up: read_startup_axis_sdo, the seeding of the RxPDO, and          *)
(* build_initialized_server_state.                                         *)

\* What a read that does not work leaves in its place.
ExponentDefault == [f \in {"exp"} |-> DefaultExp]
LimitsDefault == [low |-> 0, high |-> FallbackLimit]
ProfileDefault == [f \in ProfileObjects |-> 0]
MotionDefault == [f \in MotionObjects |-> 0]

Defaults ==
  [f \in Fields |-> CASE f \in LimitObjects -> LimitsDefault[f]
                      [] f \in ProfileObjects -> ProfileDefault[f]
                      [] f \in MotionObjects -> MotionDefault[f]
                      [] OTHER -> ExponentDefault[f]]

DoubtAfter(failed) ==
  (failed \ {"profile"}) \cup (IF "profile" \in failed THEN ProfileObjects ELSE {})

\* The values for axis a when the reads of the groups in failed do not work.
StartupRead(a, failed) ==
  [f \in Fields |-> IF \E g \in DoubtAfter(failed) : f \in FieldsOf(g)
                    THEN Defaults[f] ELSE od[a].param[f]]

ReadGroups == {"units", "limits", "profile", "motion"}

Starts(failed) ==
  /\ phase = "start" /\ phase' = "run"
  /\ cache' = [a \in Axes |-> StartupRead(a, failed[a])]
  /\ conv' = [a \in Axes |-> cache'[a].exp]
  /\ ctl' = [a \in Axes |-> LimitOf(cache'[a], cache'[a].exp)]
  /\ rx' = [a \in Axes |-> Seeded(rx[a], cache'[a].vel)]
  /\ od' = Exchanged(od, rx')
  /\ doubt' = [a \in Axes |-> DoubtAfter(failed[a])]
  /\ UNCHANGED <<saved, invalid, modes, answer, served, losses>>

\* The position unit of some axis could not be read.
StartFails ==
  /\ phase = "start" /\ phase' = "failed"
  /\ UNCHANGED <<od, saved, cache, invalid, conv, ctl, rx, modes, doubt,
                 answer, served, losses>>
-----------------------------------------------------------------------------
(* The settings requests                                                   *)

Serves == phase = "run" /\ served < MaxRequests /\ served' = served + 1

\* api[f] is the value of field f in client units, for the fields named.
Requests(fields) == UNION {[s -> Values] : s \in (SUBSET fields) \ {{}}}

\* A field the request does not name goes from the cache to client units and
\* back in floating point.  The limits are rounded after that and the negative
\* velocity limit is a float; the others are truncated and can lose a unit.
TruncatedFields == {"vel", "acc", "pos"}

\* The drive value of field f; loses is the set of fields that lose a unit.
DriveValue(a, api, f, loses) ==
  IF f \in DOMAIN api THEN ToDrive(api[f], conv[a])
  ELSE IF f \in loses /\ cache[a][f] > 0 THEN cache[a][f] - 1
  ELSE cache[a][f]

Losing(api, fields) == SUBSET ((fields \cap TruncatedFields) \ DOMAIN api)

\* A request ends at the first axis that fails.
Reached(axes, failing) == {a \in axes : \A b \in failing : b >= a}

Unsuccessful(o) == o.error \/ ~o.read
Failing(o) == {a \in DOMAIN o : Unsuccessful(o[a])}

\* W[a]: the writes on axis a, of which o[a].done take effect.
Stored(R, o, W) ==
  od' = [a \in Axes |->
           IF a \in R THEN [od[a] EXCEPT !.param = Written(@, W[a], o[a].done)]
                      ELSE od[a]]

\* A write that failed is followed by the read-back all the same.
Fetched(R, o, fields, read) ==
  cache' = [a \in Axes |->
              IF a \in R /\ o[a].read
              THEN [f \in Fields |-> IF f \in fields THEN read[a][f]
                                                     ELSE cache[a][f]]
              ELSE cache[a]]

\* The record of what is known: group g has been read back, or not.
Doubted(R, o, g) ==
  doubt' = [a \in Axes |-> IF a \notin R THEN doubt[a]
                           ELSE IF o[a].read THEN doubt[a] \ {g}
                           ELSE doubt[a] \cup {g}]

\* On a PV axis a profile is read back past a velocity that waits in the RxPDO.
DoubtedProfile(R, o) ==
  doubt' = [a \in Axes |->
              IF a \notin R THEN doubt[a]
              ELSE IF ~o[a].read THEN doubt[a] \cup ProfileObjects
              ELSE IF modes[a] # "pv" THEN doubt[a] \ ProfileObjects
              ELSE (doubt[a] \ {"acc"}) \cup
                   (IF od[a].param.vel # rx[a].vel THEN {"vel"} ELSE {})]

\* Mutant: an error that the read-back survives is forgotten.
AnsweredAnyway(axes, R, o, api) ==
  answer' = IF R = axes /\ \A a \in axes : o[a].read
            THEN [ok |-> TRUE, axes |-> axes, set |-> api] ELSE NoAnswer

Answered(axes, R, o, api) ==
  answer' = IF R = axes /\ \A a \in axes : ~Unsuccessful(o[a])
            THEN [ok |-> TRUE, axes |-> axes, set |-> api] ELSE NoAnswer

ReadBack == [a \in Axes |-> od'[a].param]

\* The SDO writes of the three settings, in their order.
LimitWrites(low, high) == << <<"low", low>>, <<"high", high>> >>
MotionWrites(pos, neg) == << <<"pos", pos>>, <<"neg", neg>> >>
ProfileWrites(pv, vel, acc) ==
  IF pv THEN << <<"acc", acc>> >> ELSE << <<"vel", vel>>, <<"acc", acc>> >>

\* set_software_position_limits: refused when the limits are out of order.
SetSoftwarePositionLimits(axes, api, loses, o) ==
  LET V(a, f) == DriveValue(a, api, f, loses)
      W == [a \in axes |-> LimitWrites(V(a, "low"), V(a, "high"))]
      refused == {a \in axes : V(a, "low") > V(a, "high")}
      R == Reached(axes, refused \cup Failing(o)) \ refused
  IN /\ Serves
     /\ Stored(R, o, W)
     /\ Fetched(R, o, LimitObjects, ReadBack)
     /\ Doubted(R, o, "limits")
     /\ Answered(axes, R, o, api)
     /\ UNCHANGED <<phase, saved, invalid, conv, ctl, rx, modes, losses>>

\* set_motion_limits: the controller follows the read-back.
SetMotionLimits(axes, api, loses, o) ==
  LET V(a, f) == DriveValue(a, api, f, loses)
      W == [a \in axes |-> MotionWrites(V(a, "pos"), V(a, "neg"))]
      R == Reached(axes, Failing(o))
  IN /\ Serves
     /\ Stored(R, o, W)
     /\ Fetched(R, o, MotionObjects, ReadBack)
     /\ ctl' = [a \in Axes |-> IF a \in R /\ o[a].read
                               THEN LimitOf(cache'[a], conv[a]) ELSE ctl[a]]
     /\ Doubted(R, o, "motion")
     /\ Answered(axes, R, o, api)
     /\ UNCHANGED <<phase, saved, invalid, conv, rx, modes, losses>>

\* set_profile: on a PV axis the velocity is not written; a mapped velocity is
\* cached as requested and goes out with the RxPDO, written or not.
SetProfile(axes, api, loses, o) ==
  LET V(a, f) == DriveValue(a, api, f, loses)
      Pv(a) == modes[a] = "pv"
      W == [a \in axes |-> ProfileWrites(Pv(a), V(a, "vel"), V(a, "acc"))]
      R == Reached(axes, Failing(o))
      Mapped(a) == VelocityMapped /\ ~Pv(a)
      read == [a \in axes |->
                 IF Mapped(a) THEN [od'[a].param EXCEPT !.vel = V(a, "vel")]
                              ELSE od'[a].param]
  IN /\ Serves
     /\ Stored(R, o, W)
     /\ Fetched(R, o, ProfileObjects, read)
     /\ rx' = [a \in Axes |->
                 IF a \notin R \/ ~Mapped(a) THEN rx[a]
                 ELSE IF o[a].read \/ o[a].done >= 1
                 THEN [rx[a] EXCEPT !.vel = V(a, "vel")] ELSE rx[a]]
     /\ DoubtedProfile(R, o)
     /\ Answered(axes, R, o, api)
     /\ UNCHANGED <<phase, saved, invalid, conv, ctl, modes, losses>>

\* apply_move_profile_velocity: a position command with a velocity of its own.
MoveWithVelocity(axes, v) ==
  /\ Serves
  /\ cache' = [a \in Axes |->
                 IF a \in axes THEN [cache[a] EXCEPT !.vel = ToDrive(v, conv[a])]
                               ELSE cache[a]]
  /\ rx' = [a \in Axes |-> IF a \in axes THEN Seeded(rx[a], cache'[a].vel)
                                         ELSE rx[a]]
  /\ doubt' = [a \in Axes |-> IF a \in axes /\ ~VelocityMapped
                              THEN doubt[a] \cup {"vel"} ELSE doubt[a]]
  /\ answer' = NoAnswer
  /\ UNCHANGED <<phase, od, saved, invalid, conv, ctl, modes, losses>>

\* write_parameter: an SDO write on the axis, whatever the cache holds of it.
WriteParameter(a, f, v, done) ==
  /\ Serves
  /\ od' = IF done THEN [od EXCEPT ![a].param[f] = v] ELSE od
  /\ doubt' = [doubt EXCEPT ![a] = @ \cup {GroupOf(f)}]
  /\ answer' = NoAnswer
  /\ UNCHANGED <<phase, saved, cache, invalid, conv, ctl, rx, modes, losses>>

\* save_parameters; the answer to a command that was carried out can be lost.
SaveParameters(a) ==
  /\ Serves
  /\ saved' = [saved EXCEPT ![a] = od[a].param]
  /\ answer' = NoAnswer
  /\ UNCHANGED <<phase, od, cache, invalid, conv, ctl, rx, modes, doubt, losses>>
-----------------------------------------------------------------------------
(* set_mode: every axis is configured by SDO and RxPDO and given five      *)
(* cycles; an axis that fails gets its previous mode back in the RxPDO.    *)

\* Mutant: the RxPDO keeps the mode that could not be set.
RxModeKept(axes, m, fails) ==
  [a \in Axes |-> IF a \in axes THEN [rx[a] EXCEPT !.mode = m] ELSE rx[a]]

\* The RxPDOs after a mode change: an axis that fails has its previous mode.
RxMode(axes, m, fails) ==
  [a \in Axes |-> IF a \in axes /\ fails[a] = "none"
                  THEN [rx[a] EXCEPT !.mode = m] ELSE rx[a]]

\* fails[a]: none, before or after the SDO write took effect.  The cycles of an
\* axis that succeeds exchange all axes, so what an SDO left on an axis that
\* failed stays only when no axis after it succeeds.
SetMode(axes, m, fails) ==
  LET ok == {a \in axes : fails[a] = "none"}
      left == {a \in axes : fails[a] = "after" /\ \A b \in ok : b < a}
      cycled == IF ok = {} THEN od ELSE Exchanged(od, RxMode(axes, m, fails))
  IN /\ Serves
     /\ \E a \in axes : modes[a] # m
     /\ od' = [a \in Axes |-> IF a \in left THEN [cycled[a] EXCEPT !.mode = m]
                                             ELSE cycled[a]]
     /\ rx' = RxMode(axes, m, fails)
     /\ modes' = [a \in Axes |-> IF a \in ok THEN m ELSE modes[a]]
     /\ answer' = NoAnswer
     /\ UNCHANGED <<phase, saved, cache, invalid, conv, ctl, doubt, losses>>
-----------------------------------------------------------------------------
(* Losing and recovering drives                                            *)

\* A cycle of the server loop.
Cycle ==
  /\ phase = "run"
  /\ od' = Exchanged(od, rx)
  /\ UNCHANGED <<phase, saved, cache, invalid, conv, ctl, rx, modes, doubt,
                 answer, served, losses>>

\* A drive comes back from a power cycle with what it had saved.
Restored(a) == [od EXCEPT ![a] = [param |-> saved[a], mode |-> "pp"]]

LosesPower(a) ==
  /\ phase \in {"run", "lost"} /\ phase' = "lost"
  /\ losses < MaxLosses /\ losses' = losses + 1
  /\ od' = Restored(a)
  /\ doubt' = [doubt EXCEPT ![a] = Groups]
  /\ answer' = NoAnswer
  /\ UNCHANGED <<saved, cache, invalid, conv, ctl, rx, modes, served>>

\* The exponents of an axis in bad could not be read and are the defaults.
RefreshRead(p, a, bad) ==
  IF a \in bad THEN [p EXCEPT !.exp = DefaultExp] ELSE p

\* The cached velocity of an axis that is not read is no longer the one the
\* drive gets: its RxPDO starts from zero.
Clobbered(a) == IF VelocityMapped THEN doubt[a] \cup {"vel"} ELSE doubt[a]

\* refresh_axis_parameter_cache for the axes in R: all reads come first.
Refreshed(R, bad) ==
  /\ cache' = [a \in Axes |-> IF a \in R THEN RefreshRead(od'[a].param, a, bad)
                                         ELSE cache[a]]
  /\ conv' = [a \in Axes |-> IF a \in R THEN cache'[a].exp ELSE conv[a]]
  /\ ctl' = [a \in Axes |-> IF a \in R THEN LimitOf(cache'[a], cache'[a].exp)
                                       ELSE ctl[a]]
  /\ doubt' = [a \in Axes |-> IF a \notin R THEN Clobbered(a)
                              ELSE IF a \in bad THEN {"units"} ELSE {}]

\* select_mapping, whenever the bus is connected: the RxPDO has its defaults.
RxReset(a) == [vel |-> 0, mode |-> modes[a]]

\* Mutant: the velocities that were read are not taken over.
SeededAfterRefreshNot(R, o) == [a \in Axes |-> RxReset(a)]

\* The RxPDO when the bus becomes operational: modes of the state, velocities
\* of the axes in R as read, and zero for the others.
SeededAfterRefresh(R, o) ==
  [a \in Axes |->
     IF a \in R THEN Seeded(RxReset(a), o[a].param.vel) ELSE RxReset(a)]

\* refresh_after_recovery over the axes in order: it stops at the first axis
\* that cannot be read, and marks it invalid.  lost is that axis, or none.
Before(axes, lost) == {a \in axes : \A b \in lost : a < b}

ReconnectFails(lost, bad) ==
  /\ phase = "lost"
  /\ od' = [a \in Axes |-> [od[a] EXCEPT !.mode = modes[a]]]
  /\ Refreshed(Before(Axes, {lost}), bad)
  /\ rx' = SeededAfterRefresh(Before(Axes, {lost}), od)
  /\ invalid' = (invalid \ Before(Axes, {lost})) \cup {lost}
  /\ UNCHANGED <<phase, saved, modes, answer, served, losses>>

Reconnects(bad) ==
  /\ phase = "lost" /\ phase' = "run"
  /\ rx' = SeededAfterRefresh(Axes, od)
  /\ od' = Exchanged(od, rx')
  /\ Refreshed(Axes, bad)
  /\ invalid' = {}
  /\ UNCHANGED <<saved, modes, answer, served, losses>>

\* Mutant: the axis that restarted is taken to be as it was.
RestartsUnread(a, bad) ==
  /\ Serves
  /\ rx' = SeededAfterRefresh({}, od)
  /\ od' = Exchanged(Restored(a), rx')
  /\ answer' = NoAnswer
  /\ UNCHANGED <<phase, saved, cache, invalid, conv, ctl, doubt, modes, losses>>

\* restart_axis: the drive resets itself, all drives are connected again, and
\* the one axis is read.
Restarts(a, bad) ==
  /\ Serves
  /\ rx' = SeededAfterRefresh({a}, Restored(a))
  /\ od' = Exchanged(Restored(a), rx')
  /\ Refreshed({a}, bad)
  /\ invalid' = invalid \ {a}
  /\ answer' = NoAnswer
  /\ UNCHANGED <<phase, saved, modes, losses>>

RestartFails(a) ==
  /\ Serves /\ phase' = "lost"
  /\ od' = Restored(a)
  /\ doubt' = [doubt EXCEPT ![a] = Groups]
  /\ invalid' = invalid \cup {a}
  /\ answer' = NoAnswer
  /\ UNCHANGED <<saved, cache, conv, ctl, rx, modes, losses>>
-----------------------------------------------------------------------------
\* Bound: at a start the reads of at most one group of one axis fail.
StartFailures ==
  {[b \in Axes |-> IF b = a THEN g ELSE {}] :
     a \in Axes, g \in {{}} \cup {{x} : x \in ReadGroups}}

\* Bound: after a recovery the exponents of at most one axis are unread.
Unread == {{}} \cup {{a} : a \in Axes}

AxisSets == {Axes} \cup {{a} : a \in Axes}

SettingsRequest(axes) ==
  \E fields \in {LimitObjects, MotionObjects, ProfileObjects} :
  \E api \in Requests(fields) :
  \E loses \in Losing(api, fields) :
  LET count == [a \in axes |-> IF "vel" \in fields /\ modes[a] = "pv" THEN 1 ELSE 2]
  IN \E o \in RequestOutcomes(axes, count) :
       \/ "low" \in fields /\ SetSoftwarePositionLimits(axes, api, loses, o)
       \/ "pos" \in fields /\ SetMotionLimits(axes, api, loses, o)
       \/ "vel" \in fields /\ SetProfile(axes, api, loses, o)

Request ==
  /\ phase = "run" /\ served < MaxRequests
  /\ \/ \E axes \in AxisSets :
          \/ SettingsRequest(axes)
          \/ \E v \in Values : MoveWithVelocity(axes, v)
          \/ \E m \in Modes, f \in [axes -> {"none", "before", "after"}] :
               SetMode(axes, m, f)
     \/ \E a \in Axes :
          \/ \E f \in RawObjects, d \in BOOLEAN :
               \E v \in IF f = "exp" THEN Exps ELSE Values :
                 WriteParameter(a, f, v, d)
          \/ SaveParameters(a)
          \/ \E bad \in {{}, {a}} : Restarts(a, bad)
          \/ RestartFails(a)

Next ==
  \/ \E failed \in StartFailures : Starts(failed)
  \/ StartFails
  \/ Request
  \/ \E a \in Axes :
       \/ LosesPower(a)
       \/ \E bad \in Unread : ReconnectFails(a, bad)
  \/ \E bad \in Unread : Reconnects(bad)
  \/ Cycle

Spec == Init /\ [][Next]_vars
-----------------------------------------------------------------------------
(* Properties                                                              *)

\* The value the drive has, or gets with the next exchange.
Effective(a, f) ==
  IF f = "vel" /\ VelocityMapped THEN rx[a].vel ELSE od[a].param[f]

(* DEC-024: while the bus runs, what the cache says of a group of          *)
(* parameters is what the drive has, also after requests that failed half  *)
(* way, unless the last access to the group could not read it back, a      *)
(* client went past the cache with a raw write, or another axis has been   *)
(* restarted, which sets the velocities of all others to zero.             *)
CacheTellsTheTruth ==
  phase = "run" =>
    \A a \in Axes : \A g \in Groups \ doubt[a] : \A f \in FieldsOf(g) :
      cache[a][f] = Effective(a, f)

(* The copies made from the cache (unit conversion, velocity limit of the  *)
(* motion controller) never go their own way.                              *)
CopiesFollowCache ==
  phase = "run" => \A a \in Axes : /\ conv[a] = cache[a].exp
                                   /\ ctl[a] = LimitOf(cache[a], cache[a].exp)

(* A settings request that is answered with success has reached every      *)
(* drive it names, in the units of the client, and cycles do not undo it.  *)
(* The velocity is left out on a PV axis.                                  *)
SuccessIsReal ==
  answer.ok =>
    \A a \in answer.axes : \A f \in DOMAIN answer.set :
      \/ Effective(a, f) = ToDrive(answer.set[f], od[a].param.exp)
      \/ "units" \in doubt[a]
      \/ f = "vel" /\ modes[a] = "pv"

(* While the bus runs no axis has cached values that are marked invalid:   *)
(* a recovery that could not read an axis has not recovered.               *)
RunningIsValid == phase = "run" => invalid = {}

(* The mode an axis is commanded to is the mode the server reports, also   *)
(* after a mode change that failed on some of the axes.                    *)
ModeIsCommanded == phase = "run" => \A a \in Axes : rx[a].mode = modes[a]

(* "zero-filled buffers cannot overwrite authoritative device OD values":  *)
(* starting and reconnecting leave the parameters of every drive as they   *)
(* were, except the velocity of an axis whose profile could not be read.   *)
StartKeepsDrives ==
  [][ phase # "run" /\ phase' = "run"
      => \A a \in Axes : \A f \in Fields :
           \/ od'[a].param[f] = od[a].param[f]
           \/ f = "vel" /\ "vel" \in doubt'[a] ]_vars

Other(f) == CASE f = "low" -> "high" [] f = "high" -> "low"
              [] f = "pos" -> "neg" [] f = "neg" -> "pos"
              [] f = "vel" -> "acc" [] f = "acc" -> "vel"

(* A request that names one parameter of a pair does not touch the other,  *)
(* but for the unit that truncation may take from a profile or motion      *)
(* value; it may only write back a stale value the server does not know to *)
(* be right.                                                               *)
UnnamedIsKept ==
  [][ served' # served /\ answer'.ok /\ Cardinality(DOMAIN answer'.set) = 1
      => \A a \in answer'.axes : \A f \in DOMAIN answer'.set :
           LET g == Other(f) IN
           \/ GroupOf(g) \in doubt[a]
           \/ Effective(a, g)' = Effective(a, g)
           \/ /\ g \in {"pos", "vel", "acc"}
              /\ Effective(a, g)' = Effective(a, g) - 1 ]_vars

(* What the server keeps besides the cache agrees with it and with the     *)
(* bus: copies of cached values, validity and modes, across failed mode    *)
(* changes, refreshes that stop half way and restarts.                     *)
ServerAgrees == TypeOK /\ CopiesFollowCache /\ RunningIsValid /\ ModeIsCommanded

(* Neither a start nor a request changes a parameter of a drive that       *)
(* nobody asked to change.                                                 *)
ParametersAreKept == StartKeepsDrives /\ UnnamedIsKept
=============================================================================
