----------------------------- MODULE AxisPanel -----------------------------
(***************************************************************************)
(* The axis control panel (src/control_panel/axis_control_panel): the      *)
(* connection thread of AxisServerClient, the Tk thread with its buttons,  *)
(* timers and the periodic update_gui, and the motion servers, as much of  *)
(* them as the panel sees and as decides whether an axis it jogs stops.    *)
(*                                                                         *)
(* The threads share the fields of the client; every access to them is a   *)
(* step of its own, so the connection may come and go between two steps of *)
(* the panel and a message that was read before the connection is closed   *)
(* is stored after it.  A handler of the Tk thread is one step, update_gui *)
(* two: it takes its snapshot first.                                       *)
(***************************************************************************)
EXTENDS Naturals, FiniteSets

CONSTANTS
  Endpoints,    \* addresses of motion servers
  Configured,   \* the endpoint of the configuration
  CountOf,      \* endpoint -> its number of axes
  PvAxes,       \* axes in profile velocity mode, the others take positions
  NoEnd,        \* no endpoint
  MaxClicks,    \* bound: what the user does
  MaxFaults     \* bound: sessions, servers, buses and axes that fail

ASSUME PanelAssumption ==
  /\ CountOf \in [Endpoints -> Nat \ {0}] /\ NoEnd \notin Endpoints
  /\ Configured \in Endpoints /\ PvAxes \subseteq Nat
  /\ MaxClicks \in Nat /\ MaxFaults \in Nat

Axes == UNION {1..CountOf[e] : e \in Endpoints}
NoAxis == 0   \* no axis; among the faults, that of the server or its bus
Points == {0, 1}
NoPoint == 2

NoMessage == [n |-> 0, valid |-> FALSE, own |-> FALSE]
NoSnapshot == [valid |-> FALSE, pos |-> NoPoint]

VARIABLES
  thread,   \* connection thread: [pc, to, msg]
  cl,       \* AxisServerClient: [enabled, want, sock, count, topo, valid, pos, own]
  gui,      \* [pc, tab, sel, valid, snap, jog]
  rep, mul, \* the repeat of one axis and that of several
  timers,   \* callbacks of root.after
  srv,      \* [up, bus, sess, own, jog, left, fault, off, cold]; left: jogs given
            \* up, off: axes not operation enabled, cold: Switch On Disabled
  raced,    \* history: the endpoint was changed while the thread was connecting
  clicks, faults

vars == <<thread, cl, gui, rep, mul, timers, srv, raced, clicks, faults>>

AxesAt(e) == {a \in Axes : a <= CountOf[e]}
PanelAxes == {a \in Axes : a <= cl.count}
-----------------------------------------------------------------------------
(* The servers: what the checks of the API and the handlers make of the    *)
(* panel's commands.  Whatever else could end a jog that was given up -    *)
(* homing, moves, a change of the mode - is left out: it counts as going   *)
(* on.                                                                     *)

\* A session that ends, or gives up the authority, leaves what moves moving.
Abandoned(s) ==
  [s EXCEPT !.own = FALSE, !.left = @ \cup {x \in s.jog : x[1] = s.sess}]

At(s, A) == {s.sess} \X A
InFault(s) == At(s, {NoAxis}) \subseteq s.fault

\* validate_command, command_allowed_by_runtime_state
Admits(s, cmd, A) ==
  /\ s.own /\ s.sess \in s.bus /\ A \subseteq AxesAt(s.sess)
  /\ InFault(s) => cmd \in {"stop", "disable", "fault_reset", "server_fault_reset"}
  /\ At(s, A) \cap s.fault # {}
       => cmd \in {"stop", "disable", "fault_reset", "axis_restart"}

Halted(s, A) == [s EXCEPT !.jog = @ \ At(s, A), !.left = @ \ At(s, A)]
GivenUp(s, A) == [s EXCEPT !.left = @ \cup (s.jog \cap At(s, A))]

\* stop_axes: all of it is rejected for one disabled axis, and while a drive
\* shows a fault it breaks off at the first axis in velocity mode.
Halts(s, A) ==
  IF At(s, A) \cap s.off # {} THEN {}
  ELSE IF At(s, Axes) \cap s.fault = {} THEN A
  ELSE {a \in A : \A b \in A \cap PvAxes : a < b \/ <<s.sess, b>> \in s.jog}

\* Every drive comes up again, Switch On Disabled.
Revived(s) ==
  [Halted(s, Axes) EXCEPT !.bus = @ \cup {s.sess}, !.fault = @ \ At(s, {NoAxis}),
                          !.off = @ \cup At(s, AxesAt(s.sess)),
                          !.cold = @ \cup At(s, AxesAt(s.sess))]

Disabled(s, A) == [Halted(s, A) EXCEPT !.off = @ \cup At(s, A)]

Take(s, cmd, A) ==
  CASE cmd = "request" -> [s EXCEPT !.own = TRUE]
    [] cmd = "release" -> Abandoned(s)
    [] cmd = "reconnect" /\ s.own /\ (s.sess \in s.bus => InFault(s)) -> Revived(s)
    [] cmd = "axis_restart" /\ Admits(s, cmd, A) -> Revived(s)
    [] cmd = "server_fault_reset" /\ Admits(s, cmd, A) ->
         [s EXCEPT !.fault = @ \ At(s, {NoAxis})]
    [] cmd = "fault_reset" /\ Admits(s, cmd, A) ->
         [Disabled(s, A) EXCEPT !.fault = @ \ At(s, A), !.cold = @ \ At(s, A)]
    [] cmd = "disable" /\ Admits(s, cmd, A) -> Disabled(s, A)
    [] cmd = "enable" /\ Admits(s, cmd, A) ->
         [Halted(s, A) EXCEPT !.off = @ \ (At(s, A) \ s.cold)]
    [] cmd = "jog_start" /\ Admits(s, cmd, A) /\ At(s, A) \cap s.off = {} ->
         [s EXCEPT !.jog = @ \cup At(s, A), !.left = @ \ At(s, A)]
    [] cmd = "stop" /\ Admits(s, cmd, A) -> GivenUp(Halted(s, Halts(s, A)), A)
    [] cmd = "jog_stop" /\ Admits(s, cmd, A) -> Halted(s, A)
    [] cmd \in {"stop", "jog_stop"} /\ ~Admits(s, cmd, A) -> GivenUp(s, A)
    [] OTHER -> s

\* try_send: without a connection there is a message box; what is sent into a
\* connection that the server has closed is lost.
Sent(s, cmd, A) ==
  IF cl.sock # NoEnd /\ s.sess = cl.sock THEN Take(s, cmd, A) ELSE s
-----------------------------------------------------------------------------
(* Repeats                                                                 *)

NoRepeat == [on |-> FALSE, axes |-> {}, idx |-> 0, last |-> NoPoint,
             waiting |-> FALSE, gen |-> 0]

\* stop_repeat
Stopped(r) ==
  [r EXCEPT !.gen = @ + 1, !.on = FALSE, !.last = NoPoint, !.waiting = FALSE]

\* stop_multi_repeat
StoppedMulti(r) ==
  [r EXCEPT !.gen = @ + 1, !.on = FALSE, !.axes = {}, !.last = NoPoint,
            !.waiting = FALSE]

\* Mutant: a new start keeps the generation of the repeat before.
StartedSameGeneration(r, A) ==
  [r EXCEPT !.on = TRUE, !.axes = A, !.idx = 0,
            !.last = NoPoint, !.waiting = FALSE]

\* start_repeat, start_multi_repeat
Started(r, A) ==
  [r EXCEPT !.gen = @ + 1, !.on = TRUE, !.axes = A, !.idx = 0,
            !.last = NoPoint, !.waiting = FALSE]

\* Axes in velocity mode are never waited for in the repeat of several axes.
Reached(kind, r, pos) ==
  pos = r.last \/ (kind = "multi" /\ r.axes \subseteq PvAxes)

Turns(kind, r, pos) ==
  r.on /\ r.last # NoPoint /\ ~r.waiting /\ Reached(kind, r, pos)

\* update_repeat, update_multi_repeat: the first target is sent, and once a
\* target is reached the other one is due after the period.
Updated(kind, r, pos) ==
  IF r.on /\ r.last = NoPoint THEN [r EXCEPT !.last = r.idx]
  ELSE IF Turns(kind, r, pos) THEN [r EXCEPT !.idx = 1 - @, !.waiting = TRUE]
  ELSE r

NewTimers(kind, r, pos) ==
  IF Turns(kind, r, pos)
  THEN {[kind |-> kind, axes |-> r.axes, pt |-> 1 - r.idx, gen |-> r.gen]}
  ELSE {}

\* _send_repeat_target, _send_multi_repeat_targets
Live(t, r) == r.on /\ t.gen = r.gen

-----------------------------------------------------------------------------
Init ==
  /\ thread = [pc |-> "idle", to |-> NoEnd, msg |-> NoMessage]
  /\ cl = [enabled |-> TRUE, want |-> Configured, sock |-> NoEnd, count |-> 0,
           topo |-> FALSE, valid |-> FALSE, pos |-> NoPoint, own |-> FALSE]
  /\ gui = [pc |-> "idle", tab |-> "boot", sel |-> 1, valid |-> FALSE,
            snap |-> NoSnapshot, jog |-> NoAxis]
  /\ rep = NoRepeat /\ mul = NoRepeat /\ timers = {}
  /\ srv = [up |-> Endpoints, bus |-> Endpoints, sess |-> NoEnd, own |-> FALSE,
            jog |-> {}, left |-> {}, fault |-> {}, off |-> {}, cold |-> {}]
  /\ raced = FALSE /\ clicks = 0 /\ faults = 0
-----------------------------------------------------------------------------
(* The connection thread                                                   *)

\* AxisServerClient.close
Closed(c) == [c EXCEPT !.sock = NoEnd, !.valid = FALSE]

\* The server notices that the panel has closed the connection.
ServerSide == srv' = IF srv.sess # NoEnd THEN [Abandoned(srv) EXCEPT !.sess = NoEnd]
                     ELSE srv

Gui == UNCHANGED <<gui, rep, mul, timers, clicks>>

\* Mutant: the thread connects for the bootstrap window only.
BeginsToConnectOnce ==
  /\ thread.pc = "idle" /\ cl.enabled /\ gui.tab # "closed" /\ cl.count = 0
  /\ thread' = [thread EXCEPT !.pc = "connecting", !.to = cl.want]
  /\ UNCHANGED <<cl, srv, raced, faults>> /\ Gui

\* _connection_loop: the address is read when connecting begins.
BeginsToConnect ==
  /\ thread.pc = "idle" /\ cl.enabled /\ gui.tab # "closed"
  /\ thread' = [thread EXCEPT !.pc = "connecting", !.to = cl.want]
  /\ UNCHANGED <<cl, srv, raced, faults>> /\ Gui

\* _connect: the fields are set without a look at what is wanted by now.
Connects ==
  /\ thread.pc = "connecting" /\ thread.to \in srv.up
  /\ thread' = [thread EXCEPT !.pc = "reading", !.to = NoEnd]
  /\ cl' = [cl EXCEPT !.sock = thread.to]
  /\ srv' = [srv EXCEPT !.sess = thread.to, !.own = FALSE]
  /\ UNCHANGED <<raced, faults>> /\ Gui

ConnectFails ==
  /\ thread.pc = "connecting" /\ thread.to \notin srv.up
  /\ thread' = [thread EXCEPT !.pc = "closing", !.to = NoEnd]
  /\ UNCHANGED <<cl, srv, raced, faults>> /\ Gui

\* _read_loop: a line of the server; one without a runtime has no axes.
Reads ==
  /\ thread.pc = "reading" /\ cl.sock # NoEnd /\ srv.sess = cl.sock
  /\ \E n \in {0, CountOf[cl.sock]} :
       /\ n = 0 => cl.sock \notin srv.bus
       /\ thread' = [thread EXCEPT !.pc = "storing",
            !.msg = [n |-> n, valid |-> cl.sock \in srv.bus, own |-> srv.own]]
  /\ UNCHANGED <<cl, srv, raced, faults>> /\ Gui

\* readline ends: the server or the panel has closed the connection.
ReadEnds ==
  /\ thread.pc = "reading" /\ (cl.sock = NoEnd \/ srv.sess # cl.sock)
  /\ thread' = [thread EXCEPT !.pc = "closing"]
  /\ UNCHANGED <<cl, srv, raced, faults>> /\ Gui

\* merge_system_feedback: the axes of the message may be at either point or,
\* what amounts to no arrival, anywhere else.
Merged(c, m) == [c EXCEPT !.valid = m.valid, !.pos = m.pos, !.own = m.own]

\* _merge_system_feedback: the first number of axes stays for good.
Stored(c, m) ==
  IF c.count = 0 /\ m.n > 0 THEN [Merged(c, m) EXCEPT !.count = m.n]
  ELSE IF c.count > 0 /\ m.n > 0 /\ m.n # c.count
  THEN [c EXCEPT !.topo = TRUE, !.valid = FALSE]
  ELSE Merged(c, m)

\* The message is stored even when the panel has closed the connection since;
\* after the first one the full status is asked for, which fails then.
Stores ==
  /\ thread.pc = "storing"
  /\ \E pos \in IF thread.msg.n = 0 THEN {NoPoint} ELSE Points :
       cl' = Stored(cl, [n |-> thread.msg.n, valid |-> thread.msg.valid,
                         own |-> thread.msg.own, pos |-> pos])
  /\ thread' = [thread EXCEPT !.msg = NoMessage,
       !.pc = IF cl.count = 0 /\ cl'.count > 0 /\ cl.sock = NoEnd
              THEN "closing" ELSE "reading"]
  /\ UNCHANGED <<srv, raced, faults>> /\ Gui

\* finally: close, then sleep RECONNECT_PERIOD
ThreadCloses ==
  /\ thread.pc = "closing"
  /\ cl' = Closed(cl) /\ ServerSide /\ raced' = FALSE
  /\ thread' = [thread EXCEPT !.pc = "idle"]
  /\ UNCHANGED faults /\ Gui

Thread == \/ BeginsToConnect \/ Connects \/ ConnectFails \/ Reads \/ ReadEnds
          \/ Stores \/ ThreadCloses
-----------------------------------------------------------------------------
(* The Tk thread: update_gui                                               *)

Conn == UNCHANGED <<thread, cl, raced, faults>>

\* AxisPanelBootstrap.update: the panel is built for the latched axes.
Builds ==
  /\ gui.tab = "boot" /\ cl.count > 0
  /\ gui' = [gui EXCEPT !.tab = "motion"]
  /\ UNCHANGED <<rep, mul, timers, srv, clicks>> /\ Conn

Snapshot ==
  /\ gui.pc = "idle" /\ gui.tab \notin {"boot", "closed"}
  /\ gui' = [gui EXCEPT !.pc = "snap", !.snap = [valid |-> cl.valid, pos |-> cl.pos]]
  /\ UNCHANGED <<rep, mul, timers, srv, clicks>> /\ Conn

\* stop_jog and stop_selected_pv_axis, as the server takes them
StoppedJog(s) == IF gui.jog = NoAxis THEN s ELSE Sent(s, "jog_stop", {gui.jog})

StoppedPv(s, pv) == IF pv THEN Sent(s, "stop", {gui.sel}) ELSE s

\* latest_motion_modes: an axis in velocity mode is shown as such, but for its
\* jogs, which are shown with the next feedback.
SeenPv == {FALSE, gui.sel \in PvAxes \cap PanelAxes}

\* Mutant: a jog goes on when the tab is left.
StopTabMotionNotJog(s, pv) == StoppedPv(s, pv)

\* stop_tab_motion
StopTabMotion(s, pv) == StoppedPv(StoppedJog(s), pv)

\* _update_server_health: the controls follow what the snapshot says.
SeenValid == gui.snap.valid /\ ~cl.topo
GoesInvalid == gui.valid /\ ~SeenValid

\* The repeat r, stopped s, after the health has been looked at.
HealthRepeat(r, s) == IF GoesInvalid THEN s ELSE r

UpdatesInvalid ==
  /\ gui.pc = "snap" /\ ~SeenValid
  /\ gui' = [gui EXCEPT !.pc = "idle", !.snap = NoSnapshot, !.valid = FALSE,
                        !.jog = IF GoesInvalid THEN NoAxis ELSE @]
  /\ \E pv \in SeenPv : srv' = IF GoesInvalid THEN StopTabMotion(srv, pv) ELSE srv
  /\ rep' = HealthRepeat(rep, Stopped(rep)) /\ mul' = HealthRepeat(mul, StoppedMulti(mul))
  /\ UNCHANGED <<timers, clicks>> /\ Conn

UpdatesValid ==
  /\ gui.pc = "snap" /\ SeenValid
  /\ gui' = [gui EXCEPT !.pc = "idle", !.snap = NoSnapshot, !.valid = TRUE]
  /\ LET pos == gui.snap.pos
     IN /\ rep' = Updated("single", rep, pos) /\ mul' = Updated("multi", mul, pos)
        /\ timers' = timers \cup NewTimers("single", rep, pos)
                            \cup NewTimers("multi", mul, pos)
  /\ UNCHANGED <<srv, clicks>> /\ Conn

\* A callback of root.after runs.
Fires(t) ==
  /\ gui.pc = "idle" /\ gui.tab # "closed"
  /\ timers' = timers \ {t}
  /\ LET r == IF t.kind = "single" THEN rep ELSE mul
         next == [r EXCEPT !.last = t.pt, !.waiting = FALSE]
     IN /\ rep' = IF t.kind = "single" /\ Live(t, r) THEN next ELSE rep
        /\ mul' = IF t.kind = "multi" /\ Live(t, r) THEN next ELSE mul
  /\ UNCHANGED <<gui, srv, clicks>> /\ Conn
-----------------------------------------------------------------------------
(* The Tk thread: what the user does                                       *)

Clicks ==
  /\ gui.pc = "idle" /\ gui.tab # "closed"
  /\ clicks < MaxClicks /\ clicks' = clicks + 1

\* The mouse is free; while a jog button is held only keys remain.
Free == Clicks /\ gui.jog = NoAxis

\* A control of the single or multi axis area: disabled with invalid data.
Pressed(tab) == Free /\ gui.tab = tab /\ gui.valid

\* stop_tab_motion: the repeats
StopsTab == rep' = Stopped(rep) /\ mul' = StoppedMulti(mul)

\* The endpoint or the wish to be connected changes while the thread connects.
Races == raced' = (raced \/ thread.pc = "connecting")

\* set_endpoint and disconnect close the connection; close waits for the reader,
\* who holds the lock of the buffer until the line is there.
ClosesWith(c, s) ==
  /\ thread.pc = "reading" => cl.sock = NoEnd \/ srv.sess = NoEnd
  /\ cl' = Closed(c)
  /\ srv' = IF cl.sock # NoEnd /\ s.sess # NoEnd
            THEN [Abandoned(s) EXCEPT !.sess = NoEnd] ELSE s

\* AxisPanelBootstrap.connect
BootConnect(e) ==
  /\ Free /\ gui.tab = "boot"
  /\ ClosesWith([cl EXCEPT !.want = e, !.enabled = TRUE], srv) /\ Races
  /\ UNCHANGED <<thread, gui, rep, mul, timers, faults>>

\* toggle_server_connection
Disconnect ==
  /\ Free /\ gui.tab # "boot" /\ cl.sock # NoEnd
  /\ StopsTab /\ gui' = [gui EXCEPT !.jog = NoAxis]
  /\ \E pv \in SeenPv : ClosesWith([cl EXCEPT !.enabled = FALSE], StopTabMotion(srv, pv))
  /\ Races
  /\ UNCHANGED <<thread, timers, faults>>

\* toggle_server_connection and apply_server_endpoint
Connect(e) ==
  /\ Free /\ gui.tab # "boot" /\ cl.sock = NoEnd
  /\ StopsTab /\ gui' = [gui EXCEPT !.jog = NoAxis]
  /\ ClosesWith([cl EXCEPT !.want = e, !.enabled = TRUE], srv) /\ Races
  /\ UNCHANGED <<thread, timers, faults>>

\* toggle_command_authority
ToggleAuthority ==
  /\ Free /\ gui.tab # "boot"
  /\ srv' = Sent(srv, IF cl.own THEN "release" ELSE "request", {})
  /\ UNCHANGED <<gui, rep, mul, timers>> /\ Conn

\* send_command
SendCommand ==
  /\ Pressed("motion")
  /\ srv' = Sent(srv, "move", {gui.sel})
  /\ UNCHANGED <<gui, rep, mul, timers>> /\ Conn

\* axis_fault_reset, toggle_axis_enable
AxisSwitch(cmd) ==
  /\ Pressed("motion")
  /\ srv' = Sent(srv, cmd, {gui.sel})
  /\ UNCHANGED <<gui, rep, mul, timers>> /\ Conn

\* axis_stop, homing_start
AxisStop(cmd) ==
  /\ Pressed("motion")
  /\ rep' = Stopped(rep) /\ srv' = Sent(srv, cmd, {gui.sel})
  /\ UNCHANGED <<gui, mul, timers>> /\ Conn

\* jog_start: bound to the mouse button, which a disabled button still reports
JogStart ==
  /\ Free /\ gui.tab = "motion"
  /\ gui' = [gui EXCEPT !.jog = gui.sel]
  /\ srv' = Sent(srv, "jog_start", {gui.sel})
  /\ UNCHANGED <<rep, mul, timers>> /\ Conn

\* jog_stop: the button is released or the pointer leaves it
JogStop ==
  /\ gui.pc = "idle" /\ gui.tab # "closed" /\ gui.jog # NoAxis
  /\ gui' = [gui EXCEPT !.jog = NoAxis] /\ srv' = StoppedJog(srv)
  /\ UNCHANGED <<rep, mul, timers, clicks>> /\ Conn

\* start_repeat
StartRepeat ==
  /\ Pressed("motion")
  /\ mul' = StoppedMulti(mul) /\ rep' = Started(rep, {gui.sel})
  /\ UNCHANGED <<gui, timers, srv>> /\ Conn

\* read_repeat_values: with values that are no numbers or not positive the
\* repeat that was on goes on.
StartRepeatRefused ==
  /\ Pressed("motion")
  /\ mul' = StoppedMulti(mul)
  /\ UNCHANGED <<gui, rep, timers, srv>> /\ Conn

\* The Stop Repeat button lets the axis finish its leg.
StopRepeat ==
  /\ Pressed("motion")
  /\ rep' = Stopped(rep)
  /\ UNCHANGED <<gui, mul, timers, srv>> /\ Conn

\* multi_axis_run
MultiRun(A) ==
  /\ Pressed("multi")
  /\ mul' = StoppedMulti(mul)
  /\ UNCHANGED <<gui, rep, timers, srv>> /\ Conn

\* multi_axis_fault_reset
MultiFaultReset(A) ==
  /\ Pressed("multi")
  /\ mul' = StoppedMulti(mul) /\ srv' = Sent(srv, "fault_reset", A)
  /\ UNCHANGED <<gui, rep, timers>> /\ Conn

\* multi_axis_stop, multi_axis_homing; without a selection nothing is sent
MultiStop(cmd, A) ==
  /\ Pressed("multi")
  /\ StopsTab /\ srv' = Sent(srv, cmd, A)
  /\ UNCHANGED <<gui, timers>> /\ Conn

\* start_multi_repeat
StartMultiRepeat(A) ==
  /\ Pressed("multi")
  /\ rep' = Stopped(rep) /\ mul' = Started(mul, A)
  /\ UNCHANGED <<gui, timers, srv>> /\ Conn

\* read_multi_repeat_values, read likewise
StartMultiRepeatRefused ==
  /\ Pressed("multi")
  /\ rep' = Stopped(rep)
  /\ UNCHANGED <<gui, mul, timers, srv>> /\ Conn

\* stop_multi_repeat_motion
StopMultiRepeat ==
  /\ Pressed("multi")
  /\ mul' = StoppedMulti(mul)
  /\ srv' = IF mul.axes # {} THEN Sent(srv, "stop", mul.axes) ELSE srv
  /\ UNCHANGED <<gui, rep, timers>> /\ Conn

\* on_axis_selector_changed; a change of axis stops the repeat once more
SelectAxis(a) ==
  /\ Clicks /\ gui.tab # "boot" /\ (gui.tab = "multi" \/ a # gui.sel)
  /\ gui' = [gui EXCEPT !.tab = "motion", !.sel = a, !.jog = NoAxis]
  /\ StopsTab /\ \E pv \in SeenPv : srv' = StopTabMotion(srv, pv)
  /\ UNCHANGED <<timers>> /\ Conn

SelectMulti ==
  /\ Clicks /\ gui.tab \in {"motion", "other"}
  /\ gui' = [gui EXCEPT !.tab = "multi", !.jog = NoAxis]
  /\ StopsTab /\ \E pv \in SeenPv : srv' = StopTabMotion(srv, pv)
  /\ UNCHANGED <<timers>> /\ Conn

\* on_single_control_tab_changed: settings and diagnosis are other tabs
SelectControlTab ==
  /\ Clicks /\ gui.tab \in {"motion", "other"}
  /\ gui' = [gui EXCEPT !.tab = IF @ = "motion" THEN "other" ELSE "motion",
                        !.jog = IF gui.tab = "motion" THEN NoAxis ELSE @]
  /\ rep' = IF gui.tab = "motion" THEN Stopped(rep) ELSE rep
  /\ \E pv \in SeenPv :
       srv' = IF gui.tab = "motion" THEN StopTabMotion(srv, pv) ELSE srv
  /\ UNCHANGED <<mul, timers>> /\ Conn

\* bus_reconnect, axis_restart, server_restart (the server may then go down) and
\* server_fault_reset; in vain when the fault is one of the bus.
Recover(cmd) ==
  /\ Free /\ gui.tab # "boot"
  /\ StopsTab /\ gui' = [gui EXCEPT !.jog = NoAxis]
  /\ \E pv \in SeenPv :
       \/ srv' = Sent(StopTabMotion(srv, pv), cmd,
                       IF cmd = "axis_restart" THEN {gui.sel} ELSE {})
       \/ cmd = "server_fault_reset" /\ srv' = StopTabMotion(srv, pv)
  /\ UNCHANGED <<timers>> /\ Conn

\* The window is closed: the client stops, and no axis is stopped before.
Close ==
  /\ Clicks
  /\ gui' = [gui EXCEPT !.tab = "closed"]
  /\ rep' = NoRepeat /\ mul' = NoRepeat /\ timers' = {}
  /\ ClosesWith(cl, srv)
  /\ UNCHANGED <<thread, raced, faults>>
-----------------------------------------------------------------------------
(* The world: servers and buses come and go, sessions are lost             *)

Panel == UNCHANGED <<thread, cl, gui, rep, mul, timers, raced, clicks>>

Faults == faults < MaxFaults /\ faults' = faults + 1

SessionLost ==
  /\ Faults /\ srv.sess # NoEnd
  /\ srv' = [Abandoned(srv) EXCEPT !.sess = NoEnd] /\ Panel

\* What the server e knows of its axes, but for those in B.
Without(s, e, B) ==
  [s EXCEPT !.jog = {x \in @ : x[1] # e}, !.left = {x \in @ : x[1] # e},
            !.fault = {x \in @ : x[1] # e \/ x[2] \in B},
            !.off = {x \in @ : x[1] # e \/ x[2] \in B},
            !.cold = {x \in @ : x[1] # e \/ x[2] \in B}]

\* A server that starts again resets and enables its drives.
ServerDown(e) ==
  /\ Faults /\ e \in srv.up
  /\ LET s == IF srv.sess = e THEN [Abandoned(srv) EXCEPT !.sess = NoEnd] ELSE srv
     IN srv' = [Without(s, e, {}) EXCEPT !.up = @ \ {e}]
  /\ Panel

ServerUp(e) == e \notin srv.up /\ srv' = [srv EXCEPT !.up = @ \cup {e}]
               /\ Panel /\ UNCHANGED faults

\* Drives without process data stop.
BusLost(e) ==
  /\ Faults /\ e \in srv.bus
  /\ srv' = [Without(srv, e, Axes) EXCEPT !.bus = @ \ {e}]
  /\ Panel

\* A drive that fails stops and is not enabled; its fault stays until it is reset.
AxisFaults(e, a) ==
  /\ Faults /\ e \in srv.up \cap srv.bus /\ a \in AxesAt(e)
  /\ srv' = [srv EXCEPT !.jog = @ \ {<<e, a>>}, !.left = @ \ {<<e, a>>},
                         !.fault = @ \cup {<<e, a>>}, !.off = @ \cup {<<e, a>>}]
  /\ Panel

\* The runtime state becomes FAULT: process data of some drives are missing, or
\* an axis restart failed.  The axes go on.
ServerFaults(e) ==
  /\ Faults /\ e \in srv.up \cap srv.bus
  /\ srv' = [srv EXCEPT !.fault = @ \cup {<<e, NoAxis>>}]
  /\ Panel

World ==
  \/ SessionLost
  \/ \E e \in Endpoints :
       \/ ServerDown(e) \/ ServerUp(e) \/ BusLost(e) \/ ServerFaults(e)
       \/ \E a \in Axes : AxisFaults(e, a)
-----------------------------------------------------------------------------
Selections == (SUBSET PanelAxes) \ {{}}

User ==
  \/ \E e \in Endpoints : BootConnect(e) \/ Connect(e)
  \/ Disconnect \/ ToggleAuthority \/ SendCommand
  \/ \E cmd \in {"stop", "home"} : AxisStop(cmd)
  \/ \E cmd \in {"fault_reset", "enable", "disable"} : AxisSwitch(cmd)
  \/ JogStart \/ StartRepeat \/ StartRepeatRefused \/ StopRepeat
  \/ /\ gui.tab = "multi"
     /\ \/ \E A \in Selections :
             MultiRun(A) \/ MultiFaultReset(A) \/ StartMultiRepeat(A)
        \/ \E cmd \in {"stop", "home"}, A \in SUBSET PanelAxes : MultiStop(cmd, A)
        \/ StartMultiRepeatRefused
  \/ StopMultiRepeat
  \/ \E a \in PanelAxes : SelectAxis(a)
  \/ SelectMulti \/ SelectControlTab \/ Close
  \/ \E cmd \in {"reconnect", "axis_restart", "server_restart", "server_fault_reset"} :
       Recover(cmd)

Update == Snapshot \/ UpdatesInvalid \/ UpdatesValid

Next ==
  \/ Thread \/ Builds \/ Update
  \/ \E t \in timers : Fires(t)
  \/ clicks < MaxClicks /\ User
  \/ JogStop
  \/ gui.tab # "closed" /\ World

Spec == Init /\ [][Next]_vars /\ WF_vars(Thread)
-----------------------------------------------------------------------------
(* Properties                                                              *)

ThreadState == [pc : {"idle", "connecting", "reading", "storing", "closing"},
                to : Endpoints \cup {NoEnd},
                msg : [n : Nat, valid : BOOLEAN, own : BOOLEAN]]
ClientState == [enabled : BOOLEAN, want : Endpoints, sock : Endpoints \cup {NoEnd},
                count : Nat, topo : BOOLEAN, valid : BOOLEAN,
                pos : Points \cup {NoPoint}, own : BOOLEAN]
GuiState == [pc : {"idle", "snap"},
             tab : {"boot", "motion", "other", "multi", "closed"},
             sel : Axes, valid : BOOLEAN,
             snap : [valid : BOOLEAN, pos : Points \cup {NoPoint}],
             jog : Axes \cup {NoAxis}]
Repeat == [on : BOOLEAN, axes : SUBSET Axes, idx : Points,
           last : Points \cup {NoPoint}, waiting : BOOLEAN, gen : Nat]
Callback == [kind : {"single", "multi"}, axes : SUBSET Axes, pt : Points, gen : Nat]
ServerState == [up : SUBSET Endpoints, bus : SUBSET Endpoints,
                sess : Endpoints \cup {NoEnd}, own : BOOLEAN,
                jog : SUBSET (Endpoints \X Axes), left : SUBSET (Endpoints \X Axes),
                fault : SUBSET (Endpoints \X (Axes \cup {NoAxis})),
                off : SUBSET (Endpoints \X Axes), cold : SUBSET (Endpoints \X Axes)]

(* The state of the panel and of the servers has its shape; a repeat has   *)
(* axes of the panel only, and a jog that was given up goes on.            *)
TypeOK ==
  /\ thread \in ThreadState /\ cl \in ClientState /\ gui \in GuiState
  /\ rep \in Repeat /\ mul \in Repeat
  /\ rep.axes \subseteq PanelAxes /\ mul.axes \subseteq PanelAxes
  /\ timers \subseteq Callback
  /\ srv \in ServerState
  /\ srv.sess \in srv.up \cup {NoEnd} /\ srv.left \subseteq srv.jog
  /\ raced \in BOOLEAN /\ clicks \in 0..MaxClicks /\ faults \in 0..MaxFaults

(* Nothing is shown as valid that no connection stands behind: a message   *)
(* stored after the connection was closed does not outlive the round of    *)
(* the connection thread.                                                  *)
DisconnectedIsInvalid ==
  cl.sock = NoEnd /\ thread.pc \in {"idle", "connecting"} => ~cl.valid

(* The connection is the one the user wants, but for an endpoint that was  *)
(* changed, or a connection that was given up, while the thread was busy   *)
(* connecting.                                                             *)
ConnectionIsWanted ==
  cl.sock # NoEnd /\ ~raced => cl.enabled /\ cl.sock = cl.want

(* DEC-033: repeats run on valid process data only, and only one of them.  *)
RepeatNeedsData ==
  /\ rep.on \/ mul.on => gui.valid
  /\ ~(rep.on /\ mul.on)

(* A repeat that waits for its period has exactly one callback that will   *)
(* act, for its own axes and to the other point than the move before; one  *)
(* that does not wait has none.  Callbacks of earlier repeats do nothing.  *)
CallbackIsCurrent ==
  \A k \in {"single", "multi"} :
    LET r == IF k = "single" THEN rep ELSE mul
        live == {t \in timers : t.kind = k /\ Live(t, r)}
    IN /\ r.on => Cardinality(live) = IF r.waiting THEN 1 ELSE 0
       /\ \A t \in live : t.axes = r.axes /\ t.pt = r.idx /\ t.pt # r.last

(* An axis that the panel jogs has its button held, on the motion tab,     *)
(* whatever ends the jog: the button, another tab or axis, data that       *)
(* become invalid, a recovery.  Excepted are the jogs that were given up:  *)
(* their session or authority ended under way, or the server refused the   *)
(* stop, being in FAULT, and lets them go on.                              *)
MotionIsAttended ==
  \A x \in srv.jog \ srv.left : x[2] = gui.jog /\ gui.tab = "motion"

(* While the server can be reached the panel gets connected, whatever      *)
(* ended the connection before.                                            *)
ConnectsAgain ==
  (cl.enabled /\ cl.want \in srv.up)
    ~> (cl.sock # NoEnd \/ ~cl.enabled \/ cl.want \notin srv.up \/ gui.tab = "closed")

(* What the panel shows and repeats has a ground: a connection the user    *)
(* wants behind valid data, valid data behind a repeat, and one callback   *)
(* behind a repeat that waits.                                             *)
PanelIsSound ==
  TypeOK /\ DisconnectedIsInvalid /\ ConnectionIsWanted /\ RepeatNeedsData
    /\ CallbackIsCurrent
=============================================================================
