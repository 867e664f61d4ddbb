# A verification project for the ROS2_CIA402 Motion Server

The Motion Server is a single-threaded Python process that drives CiA 402
servo axes and CPX-AP I/O over EtherCAT and serves any number of TCP clients
with line-delimited JSON requests. This directory holds TLA+ models of its core
logic, the TLC configurations that check them and TLAPS proofs about them.

Paths below are relative to the repository root.

## 1. Inventory

| Component | State it keeps | Operations | What makes it correct |
|---|---|---|---|
| Server runtime (`motion_server/server.py`, `application.py`, `app/session.py`, `app/recovery.py`) | `ServerSession` (runtime, runtime state, initialization status), the state dictionary, which of three loops runs | start-up, PDO cycle, reconnect, axis restart, fault reset, restart | runtime state, EtherCAT master, stored status and diagnostics agree whatever fails; a way back from every failure |
| Diagnostics (`motion_server/diagnostic`) | one status per code and source; the monitor's mismatch counter | detect, acknowledge, resolve, clear | a present fault is never lost, a latched one needs an acknowledgement |
| Validation and routing (`motion_server/api`) | none | admit or refuse a request | the restriction follows the faults |
| Clients and authority (`app/client_transport.py`, `handlers/authority`) | client list, ids, owner id | accept, read, dispatch, close, request, release | one connection holds authority, by its own request only |
| EtherCAT master (`ethercat/pysoem_master.py`, `mock_master.py`) | connection, PDO phase, slaves | connect (discover, identify, map, go operational), prepare, send, receive, close, SDO | phases in order; only configured drives become operational, without an old command; every attempt ends |
| Axis commands (`handlers/command`) | homing record, trajectory record, targets, modes, jog | enable, disable, stop, home, jog, move, trajectory, restart | no jump of a set point; modes restored; a stopped axis stays stopped |
| Set-point generation (`motion_server/control`) | generator per axis | retarget, step, stop | limits respected, final position reached |
| Drive profile (`device/cmmt`, `device/cia402`) and virtual drive | control word, status word, handshake | CiA 402 transitions, profile position | the handshake never loses or repeats a set point |
| Parameters (`app/*parameters.py`, `handlers/parameter_access`) | axis caches, validity | read, write, save, refresh | a cache is never used after it became stale |
| CPX-AP, IO-Link (`device/cpx_ap_i_ec`, `device/io_link`) | module layout, process image | resolve modules, encode, decode | no two modules share bits of the image |
| Clients (`reference_clients`, `ros`, `control_panel`) | socket, pending requests, feedback queue | request, reconnect, forward | an answer belongs to its request; queues are bounded |

How they interact: one loop owns everything. Each pass of `run_server_loop`
does a PDO cycle, lets the diagnostic monitor look at it, updates a homing run,
accepts clients and services each of them once. A request runs to completion
inside its client's turn, with PDO exchanges of its own; a reconnect or an axis
restart stops the loop for seconds. The clients are programs of their own; the reference client and the axis panel
have a connection thread beside the threads of their user. There are no threads
in the server, so its hard behaviour is not preemption but sequence: requests of several clients in
one round, errors in the middle of a handler, state that one loop leaves to the
next, diagnostics acknowledged before they are resolved, and ids that are used
again. `PROJECT.json` lists the most important of these hazards at their lines; section 5
names what the code does where a statement of the repository is not kept.

## 2. Modules

| Module | Models |
|---|---|
| `DiagnosticManager` | the four standings of a diagnostic and what `detect`, `acknowledge`, `resolve` and clearing do to them |
| `ServerRuntime` | the runtime life cycle (extends `DiagnosticManager`) |
| `ServerLifecycle` | abstract: the transitions of `ServerRuntimeState` a client can observe |
| `ServerRuntime_proofs` | proofs about `ServerRuntime` |
| `CommandAuthority` | client connections, ids and command authority |
| `AuthorityLock` | abstract: a lock on connections |
| `AxisMotion` | axis commands: modes, control words, trajectory, homing and jog records, generators |
| `ServoDrive` | handlers and one virtual CiA 402 drive, exchange by exchange |
| `DriveParameters` | parameters of the axes: drive, cache, copies, units, start-up, recovery |
| `BusConnection` | bringing the bus up: start, reconnect, axis restart, with drives that fail or are exchanged |
| `ParameterAccess` | AP, IO-Link and object access through the gateways, register by register |
| `IoStation` | configuration, process image and output requests of the CPX-AP station |
| `ReferenceClient` | the threads of the Python reference client |
| `AxisPanel` | the two threads of the axis control panel against two servers |
| `ClientConnection_proofs` | proofs about the two ends of a client connection, `CommandAuthority` and `ReferenceClient` |
| `Bus_proofs` | proofs about the bus and the I/O station on it, `BusConnection` and `IoStation` |
| `AxisMotion_proofs`, `ServoDrive_proofs`, `DriveParameters_proofs`, `ParameterAccess_proofs`, `AxisPanel_proofs` | proofs about the modules they are named after |
| `MC...` | constants and symmetry of the instances |

`ServerRuntime`, `BusConnection` and `DriveParameters` look at the same recovery
from three sides: what the runtime state and the diagnostics make of its
outcome, which steps lead to it and how they fail, and what it does to the
parameters. `AxisMotion` and `ServoDrive` do the same for axis commands: the
first has several axes and leaves the drive free, the second has one axis and
the drive itself.

### ServerRuntime

`loop` says which loop of `server.py` runs: `startup` (before a listening
socket exists), `degraded`, `server`, `disconnected`; `restarting` stands for
`ServerRestartRequested` on its way to `application.py`, `crashed` for an
uncaught exception. `phase` is the position in `run_server_loop`: PDO cycle and
monitor, `update_homing_state`, client requests. `link` is `session.runtime`
together with the phase of its master. `fullState` tells `initial_server_state`
from `initial_degraded_state`; `reconnectOp`, `stateInit` and
`restartRequested` are keys of that dictionary. `gdiag` and `adiag` hold the
standing of every diagnostic code.

Each action is one outcome of a handler or of a part of the loop. What the bus,
the drives and the clock do is chosen in the action: a reconnect may fail at
any step, a restart may come back too late, any set of axes may show the fault
bit. Steps inside one handler are not interleaved with anything, because
nothing else runs meanwhile; where a handler can stop half-way, the partial
results are alternatives of its action (`RefreshOutcomes`, `HomingMayStop`,
`ExchangeRaises`).

Abstractions. Requests arrive in any order and number within a round.
`state["recovery_in_progress"]` is `None` whenever a request starts, since
recovery is synchronous, and is left out. The mismatch counter stops at its
threshold (`Capped`), because it is only compared with it. `badRun`, the
length of the latest run of bad exchanges, is a history variable. Motion commands appear only with what they do to the life
cycle (`MotionCommand`). After `InitReconnectRaises` the server loop runs on
the degraded state, which still has its reconnect operation; a client that
starts it again gives the session a second runtime while the loop keeps the
first. The model ends there with `loop = "orphaned"`.

### CommandAuthority

`id[c]` is the integer id of connection `c` (0: not a client), `owner` the id
in `state["command_authority_owner"]`. The degraded loop counts its ids; the
server loop and the disconnected loop allocate the lowest free one, and the
first hands its clients to the second. A round takes a snapshot of the clients
(`turn`), reads at most one chunk from each, and dispatches its requests one by
one; a connection can fail at each point. A peer that hangs up may leave unread
requests behind (`leaving`). The order of the client list is left open. A
start-up reconnect that raises is not repeated here (it leaves the owner alone);
`ServerRuntime` has it.

### AxisMotion

`ax[a]` is what the server keeps and sends for axis `a`:
`state["motion_modes"]`, the mode, control word and velocity of the outgoing
PDO, and its `CspTrajectoryGenerator`. `drive[a]` is the incoming status word.
`traj`, `homing` and `jogPrevious` are the records in the state dictionary. A
control word is the set of what it asks for: operate, halt, start a homing or a
jog. Positions are left out, because what can go wrong lies in who ends a
timed trajectory: `set_target_positions` and
`sync_trajectory_to_actual_positions` do so for every axis (`SetTargets`,
`SyncTrajectories`), `hold_axes` for the axes it names (`Hold`).

An action is one outcome of a request, for any selection of axes the request
may name, or one pass of the PDO cycle. A handler exchanges process data
several times; none of them reads how far a generator got, so the exchanges are
taken at the end of the action (`Exchange`), and what the drives answer is left
to `DriveChanges`, which can follow any action. Only `Stop` tests the same
status bit before and after an exchange, and chooses it anew. SDO writes of a
mode may raise when `MaySdoFail`: then the axes before the failing one are done
and the failing one has the new mode in its PDO and the old one in the state.

Abstractions. `Request` stands for what the validator admits; the restriction
of an axis by its diagnostic (module `ServerRuntime`) is not repeated, so more
requests reach a handler here than in the server. Requests that a handler
refuses without an effect are left out. An exchange that fails in the middle of
a handler while the bus is up is not an outcome here: the process ends at the
next cycle (section 5, 5). With the bus down only stop and disable are
admitted, and their failing exchanges are outcomes. `sequence` counts accepted
trajectories up to `MaxTrajectories`. `stopped`, `quiet`, `unsure` and
`sinceLow` are history variables for the properties.

### ServoDrive

`rx` is the RxPDO image of the server, `drive` the object dictionary and the
state of `VirtualCiA402Servo`, `homing` the record of the server. `Send` is one
exchange: the drive takes the image, runs the CiA 402 state machine and one
cycle of its mode, and the status comes back. A handler is one action with all
its exchanges (`Handshake` of profile position, `FaultReset`, `StartHoming`,
`StartJog`, ...); `Cycle` is an exchange of the loop with `update_homing_state`
after it. Positions, velocities and the acceleration are small integers; the
target-reached bit and the text of warnings are left out. A step of the model is
a whole handler, so `drive.pushed`, a history variable, records for `LimitsHold`
what its cycles did: that one of them moved the axis further out of the limits
its target was checked against, and not more slowly than before.

### DriveParameters

`od[a]` and `saved[a]` are what drive `a` has, `cache[a]`, `conv[a]`, `ctl[a]`,
`rx[a]` and `modes[a]` what the server believes: cache, unit exponent, velocity
limit of the controller, RxPDO, mode. A request goes through its axes in order
and writes its objects in order; each SDO may fail, with or without effect, and
the handler then reads back or gives up as the code does (`RequestOutcomes`).
`doubt[a]` is a history variable: the groups of parameters whose last read-back
failed, that a raw SDO write went past, or that the restart of another axis
overwrote. A change of mode sets one axis after the other and puts the previous
mode back into the RxPDO of an axis that fails; `RxMode` and `SetMode` give what
is left after the last of them. `CacheTellsTheTruth` claims nothing about those. Floating-point
conversion is a multiplication by `Scale(exp)`; what truncation by `int()` takes
from a value that a request leaves out is a choice (`Losing`).

### BusConnection

`pc` is the place of the attempt (`build`, `create`, `discover`, `identify`,
`write`, `read`, `map`, `restore`, `safeop`, `prime`, `op`, then `exchange` and
`enable` at a start-up or `stable` at a reconnect or restart, `finish`),
with the slave and the index of the next SDO write; `serve` and `stopped` are
the places without an attempt, and `kind` says what the attempt belongs to.
`dev[s]` is drive `s`: product, firmware, EtherCAT state, the mapping it really
has, the last frame it took. Firmware "locked" refuses to change its mapping,
"renames" reports padding under another index. A step that fails is
`AttemptFails`; `DeadlinePasses` sets the deadline shared by connecting and the
wait for stable process data. `PowerLost` and `PowerBack` may happen between any
two steps, and another product may come back. A mapping is a sequence of entries
of `Objects` or padding, with their bits. `want` is
`state["motion_modes"]`, `rx` the control word and mode that the next frame
carries. A start-up, a reconnect after a failed one included, does not end in
OP: `initialize_drive` exchanges ten frames (`Exchanges`), resets a fault and
sends 0x0006, 0x0007 and 0x000F (`Enables`) before anything is served, and goes
on if the drives do not follow. So a start-up hands over enabled drives, a
reconnect and an axis restart zero control words. `NoOldCommand` names the word
that is due at each of these places (`WordDue`).

### ParameterAccess

`pc` is the next step of the handler (`Steps`): registers of address, length and
data, the direction register that starts the transfer, polls, reads of length
and data. `gw[g]` are the registers of gateway `g` and the transfer it carries
out; the gateway takes its own time (`CarriesOut`), so a transfer that was given
up can answer into the registers of the next request (`late`). An SDO may fail
with or without effect between any two steps (`SdoFails`). `RawWrite` is a
client that writes a register of a gateway as an object. A byte has `Base`
values; `Pack` and `Unpack` are `struct`'s little-endian numbers, digit by digit,
`Fits` its range check; decoding checks the length against the type as the code
does. The parameters have addresses of two registers that tell them apart. The
gateway is external: modelled from the sequence the handlers expect of it.

### IoStation

The configuration (`layout`) is computed from a declaration by the same steps as
`build_cpx_io_config`, `module_layout` and `pdo_configuration`: slots, IO-Link
variants, sizes from the ESI, offsets, padding to the fixed PDO sizes. `fitted`
is the station, which may differ. Images are sequences of bytes of `ByteBits`
bits: encoding and decoding of bits, two's-complement words and payloads are
written out, so an offset that is wrong by a byte shows. The channels of a
module in one direction are of one kind (`EsiAssumption`): `CPXApModule` has one
`spec`, digital, analog or IO-Link. An analog channel has one width in both
directions and takes two bytes (`AnalogBits`, `ExplicitOk`); the widths of 8 and
32 bits are left out. `OutputWrite` applies
its items one by one and reports each; `WriteDigitalInput`, `WriteAnalogInput`,
`WriteIolInput` and `ResetInputs` are the simulation requests.

### ReferenceClient

Threads: the callers of `request()`, the reader (`_connection_loop`), the owner
who calls `stop()` and `start()`. An action is a section under one lock or one
access to a shared object. `tear[t]` is a call of `_disconnect()` in thread `t`:
it takes socket and table under the lock and fails the requests afterwards,
while other threads run. `stop()` sets its event (`Stop`, `halting`) and
disconnects in a step of its own (`StopDetaches`), between which the reader may
still connect. A request waits for the send lock (`TakesSendLock`), then sends,
then waits for its answer; only the last of the three has the timeout of the
request. Connections are numbers; the server answers, sends feedback, stops
reading (`ServerStalls`) or closes as it likes. A line that is no JSON object
ends the connection like an error of the socket (`RoutingRaises`).

### AxisPanel

`thread` is the connection thread, `gui` the Tk thread (`update_gui` takes its
snapshot in one step and acts on it in another), `cl` the fields they share.
`timers` are the callbacks of `root.after`, which nothing withdraws. Closing the
window ends everything the user does; the thread may outlive it.

`srv` is the servers, as far as they decide whether a jog ends: which are up,
whose bus is up, the session and its authority, the axes that are jogged
(`jog`), that have a fault (`fault`, with `NoAxis` for the runtime state FAULT),
that are not enabled (`off`) and among them the Switch On Disabled ones (`cold`).
`Take` is what a command of the panel does to that: `Admits` is
`validate_command` with `command_allowed_by_runtime_state`, `Halts` the part of
`stop_axes` that is reached. So a server refuses `jog_stop` in FAULT or with a
fault of the axis, and breaks `axes/stop` off at an axis in velocity mode while
any drive shows a fault. `left` are the jogs that go on because of that, or
because their session or authority ended; `MotionIsAttended` claims that every
other jog has its button held on the motion tab: the panel has always sent the
stop. What a server does to a jog by homing, moves or changes of mode is left
out; the jog then counts as going on. Velocities are not among `jog`: that a
velocity of Send Command or of a multi-axis run ends with the tab is not claimed
(section 5, 15).

## 3. Runs

| Run | Shows |
|---|---|
| `runtime` | the inductive invariant of the life cycle (runtime state, master, stored status and diagnostics agree), mismatches in a row are diagnosed, faults latch, the server implements `ServerLifecycle`, an accepted restart takes place, a closed master is noticed |
| `authority` | ids are unique and the owner is a client; authority by reused ids implements `AuthorityLock`: gained by an own request, lost by own release or disconnect; an owner that hangs up does not keep it |
| `axis_trajectory` | two axes under trajectories, moves, stops, disables, faults, bus losses and restarts: nothing is resumed after a stop or a restart, every trajectory ends |
| `axis_homing` | homings of one or both axes that overlap, are stopped, refused or interrupted: only a fresh reference completes one; modes in state and PDO agree |
| `axis_modes` | every request that changes a mode or a control word, on one axis, with SDO writes that fail: the modes agree unless the last change failed half-way; after a restart only enable and the manual control word switch an axis on |
| `servo_drive` | every six requests with cycles between them: a move that was answered is under way or warned of, a homing that is reported was carried out, a drive out of Operation Enabled stands, a fault reset prepares enable, limits and reference are respected |
| `drive_parameters` | two drives, two requests, failing SDOs, one power loss: cache, copies, modes and drives agree; success means every drive has the value; nothing is changed that nobody asked for |
| `bus_connection` | start, reconnect and restart with drives of any product and firmware that lose power anywhere: only configured drives get to OP; until the bus is served they are sent the reported mode and the control word of that place of the attempt, never one of before the loss; one handle; causes that can be recorded; every attempt ends |
| `parameter_access` | three requests to two gateways, one failing SDO, late transfers: the transfer is the one asked for and allowed, a success is real, the cache is honest, every request ends |
| `io_station` | valid and invalid declarations against matching and other stations: values arrive in their channels, only the configured station is operational, answers with a list are exact |
| `reference_client` | two callers, reader and owner over two connections: no request waits on a table that was emptied, `stop()` leaves no socket, every request ends unless a server that stopped reading holds it or the call in front of it in `sendall` |
| `axis_panel` | three actions of a user, one failure, two servers: valid data have a connection the user wants, repeats have valid data and one live callback, every way out of the motion tab sends the end of a jog, the panel comes back to its server |

Every property has a mutant in `PROJECT.json`: a plausible mistake in one
definition that TLC must notice through it. Conjunctions (`IndInv`,
`Consistent`, `ServerAgrees`, `PanelIsSound`, ...) name their parts, each with a
comment of its own in the module.

Bounds. `NAxes = 1` and `MismatchThreshold = 2`: the axes meet only in
`RefreshOutcomes` (an order) and in the existential of `DisconnectIsDiagnosed`;
two axes were checked once (3.4 million states) and the proofs hold for any
number. A threshold of 2 separates a first mismatch from a detected one. Two
connections with ids up to 3 let an id be freed, reused and handed over from the
degraded loop; chunks of two requests let a connection fail between two
requests. The proofs hold for every set of connections and every bound.

The requests of `AxisMotion` are divided among its runs by the state they share:
all of them at once are out of reach even for one axis. Two axes are needed
wherever one axis disturbs another (trajectories, homings); with two
trajectories the second replaces, overlaps or repeats the first. Changes of
mode concern one axis at a time, so `axis_modes` has one axis and every way to
fail.

`ServoDrive`: six requests are enough for enable, narrowing the limits, two
moves, a disable and another enable; a homing of four cycles can be broken off
in each of them. Target 8 is inside the limits 0..8 and outside 0..2, target 1
inside both. The largest velocity is three times the acceleration, so an axis
needs several cycles to stop and runs past a limit that is narrowed in front of
it.
`DriveParameters`: two axes make the partial results of a request and the
restart of the other axis happen; two requests make one meet what the other left
behind. `BusConnection`: two drives so that one waits while the other changes;
one power loss, after which any product may come back; one configuration can
never start (a product whose ESI entry is too narrow). `ParameterAccess`: three
requests so that a late transfer can meet a complete request after one that
broke off. `IoStation`: two bits to a byte keep carries, signs and shared bytes;
the declarations have each way to be refused and each way to be laid out.
`ReferenceClient`: two connections and two requests, so that a request of the
first meets the second. `AxisPanel`: three actions of the user start a repeat,
end it and start another, or jog with authority and leave the tab; `MaxFaults =
1` is a loss, or a fault of an axis or of the runtime, between any two steps.

Deadlock is checked in every run but `drive_parameters`, `io_station`,
`parameter_access` and `axis_panel`, where a behaviour ends when the bounded
requests are used up or the panel is closed. A process that ended stutters
explicitly (`Ended` in `ServerRuntime`).

Fairness. `WF_vars(LoopStep)`: what the process does by itself. The loops are
sequential code without a blocking call (sockets are non-blocking, `select` has
a timeout), so the next statement is always reached; `service_client` reads one
chunk per client and round, so requests cannot hold up the end of a round for
ever. `WF_vars(ServerStep)` in `CommandAuthority` and `WF_vars(Handler)` in
`ParameterAccess` are the same assumption (the latter's `TimesOut` is a clock
that goes on). `WF_vars(LastSamples)` in `AxisMotion` says that the loop keeps
cycling and that a generator, which advances by one cycle time per exchange,
reaches the end of its points; requests for new trajectories are bounded, since
a client that never stops replacing its trajectory never lets one end. In
`BusConnection` the server goes on with an attempt (`Connects`) and time passes
(`DeadlinePasses`); the code compares the deadline in every wait. In
`ReferenceClient` each thread runs (`ReaderStep`, `CallerStep(c)`, and
`OwnerStep`: a `stop()` that began goes on). The state lock is never held over a
blocking call, and waits have timeouts; `sendall` has none and is called under
the send lock (`client.py:130`), so on a connection whose server reads no more
(`ServerStalls`) `Sends` is not enabled and neither is `TakesSendLock` of
anybody behind it. Fairness then promises nothing, and `RequestEnds` says so. A
caller that waits for a lock which others release again and again gets it at
last because requests are bounded. In `AxisPanel` the connection thread runs
(`Thread`). No fairness is assumed of clients, users, servers seen from a
client, gateways, the bus or the drives.

## 4. Proofs

Proved with TLAPS for every value of the constants: any number of axes, drives,
connections, callers, servers, parameters and requests, and any bound. The only
hypotheses are the named assumptions of the modules. They say what kind of value
a constant is, and four things about the code:

- `MappingAssumption` (`BusConnection`): the entries a configuration asks for
  never name the dummy index as an object. `padding()` always has index 0
  (`device/pdo_metadata/base.py:72`, `device/cmmt/pdo_configuration.py:83,91`). Without
  it a drive that renames padding could pass the check with another mapping.
- `AccessAssumption` (`ParameterAccess`): an address names one parameter of its
  gateway, and takes two registers.
- `EsiAssumption` (`IoStation`): the channels of a module in one direction are of
  one kind, and the bytes the ESI gives the module hold them. A module has one
  `spec` (`device/cpx_ap_i_ec/module_layout.py`), and the sizes in the ESI are
  those of the PDO entries of the channels, padding included.
- `RequestAssumption` (`ParameterAccess`): a write with a numeric type brings a
  number, one with another type bytes; `int()` and `parse_hex_payload` refuse
  the rest.

TLC evaluates every assumption on the instances of section 3. Each module of
proofs has one inductive invariant, one lemma per action that preserves it, and
the properties of the runs as corollaries. TLC checked each inductive invariant
before it was proved.

`ServerRuntime_proofs`: `TypeCorrect`, the four safety invariants, `FaultsLatch`
and the refinement of `ServerLifecycle`. The invariants are not inductive by
themselves. `NormalMeansNoGlobalFault` needs that a reconnect in the server
loop finds no initialization fault (`InitializationFaultFollows`), which needs
that the full state and a ready status go together (`StatusOfState`) and that
the loops with a cycle have a runtime (`LoopHasRuntime`); start-up must begin
from nothing (`StartupFromScratch`). `IndInv` is their conjunction and the
invariant that `runtime` checks. Each action preserves it in one step of
`Inductive`. `FaultsLatch` follows from the type invariant and the operators of
`DiagnosticManager`. `MismatchesAreNoticed` needs that the counter is never
behind the run of bad exchanges (`RunIsCounted`), whatever resets it. For the
refinement, `StepIsPermitted` shows that each
action changes the mapped mode in a permitted way, and
`PermittedIsAbstractStep` that a permitted change is an abstract step, using
`IndInv` on both sides to know whether a fault is active.

`ClientConnection_proofs`, the server's end: `IdInv` (ids unique, below the
counter in the degraded loop, the owner a client's id) is inductive.
`StepDisturbs` says how a step can change ids and authority; the two action
properties and the refinement of `AuthorityLock` follow from it. The client's
end: `ClientInv`. Request ids are drawn in order and held by one call
(`IdsAreDrawn`); who takes a request off the table leaves no copy on it
(`TakenIsOff`); a thread is inside `_disconnect()` only where its code calls it
(`TearFits`); only the reader connects (`ReaderFits`).

`AxisMotion_proofs`: `AxisInv` = types, `ModesAgree`, `StoppedStays`,
`QuietAfterRestart` and `ReferencesAreFresh`. The last is what
`CompletionIsFresh` needs while a homing runs: the references the server noted
as lost (`seenLow`) were lost since it began, and so were those the drives lack
now. The lemmas before the actions say what `Hold`, `SetTargets`, `SetWord`,
`SetModeOf`, ... do to each axis.

`ServoDrive_proofs`: `ServoInv`. A cycle of the drive is followed part by part
(device reset, mode, target, state machine, mode process, status) and keeps
`DriveInv`: a drive that is not enabled stands, a target it may not pursue is
never the one it pursues, and a cycle that moves further out of the limits
brakes. A handler is an exchange per word, or as many as it waits for; that
`DriveInv` holds after each of them is an induction over the words
(`SendAllReaches`, `WaitedReaches`). `ServoInv` adds what the images show between
handlers: the status is that of the last exchange, a mode that differs from the
RxPDO image belongs to a drive that is off, and a homing run that is reported
complete has been carried out. `MoveTaken` needs an argument of its own about the
handshake of profile position: once the drive has acknowledged a set point it
cannot take or refuse it again before the server has seen the acknowledgement.
The proof corrected the model twice. `LimitsHold` first said that no cycle moves
further out of the limits; that is false as soon as the largest velocity exceeds
the acceleration, because an axis that brakes overshoots, which the instance with
equal values did not show. And the sizes need to be related: targets are
positions of the drive, and the lower limit is not above the upper
(`SizesAssumption`; the drive clips or refuses the rest).

`Bus_proofs`, the drives: `BusInv` adds to the three properties what connecting
has established so far: a mapped drive was checked and loses that with its power
(`DrivesFit`), the drives before the one being configured are checked and have
zero outputs (`ConnectingFits`), outputs are zero in the wanted mode from the
restored image on until the start-up enables the drives, whose commands follow
one another without a gap (`OutputsFit`), and the interface is open from
discovery on (`AttemptFits`).

`Bus_proofs`, the station: `StationInv` says that both sides have a value for
every channel of their modules (`ServerInv`, `FittedInv`), that a configuration
that was accepted has images large enough for all modules (`PdoInv`, `SizeInv`),
and that what was exchanged agrees. It rests on three chains of lemmas, for any
number of modules and bits to a byte. Sums of sizes grow, so a byte of the image
belongs to one module (`SumsGrow`, `OthersBytes`, `ImageByte`). Bit `m` of a
byte of digital channels is the channel it was made from (`BitRoundTrip`), and
the two bytes of an analog value make it again with its sign (`WordRoundTrip`).
Together they give that each module reads back what was written for it
(`ImageReturns`), although the ESI may give it more bytes than its channels
need. `StationAnswers` compares two recursions over the items of a request: what
the handler did, and what the items listed as done would do by themselves
(`RunIsReplay`). The recursive functions (powers of two, sums, bits, items) are
shown to exist, and to be what they compute, by induction over sets.

`DriveParameters_proofs`: `ParameterInv` = `ServerAgrees`,
`CacheTellsTheTruth`, `SuccessIsReal`, and three small facts (`UnitsFit`,
`FreshServer`, `AnswerIsCurrent`). The work is in the outcomes of a request that
stops at any of its SDOs on any of its axes; they are described field by field
(`TruthByField`). `ParametersAreKept`, an action property, follows from the
shape of those outcomes.

`ParameterAccess_proofs`: `AccessInv` says which registers the handler has
filled at each of its steps (`RegistersFit`), what the transfer and its result
are after the start (`TransferFits`, `ResultFits`), that a gateway is busy
exactly while it has a transfer (`BusyFits`), and that a write nobody waits for
leaves its parameter in doubt (`PendingIsDoubted`). The case that makes it
necessary is a transfer that outlives its request and answers into registers of
the next one: then only what is not `late` can be claimed. `RoundTrip` proves
that `Unpack` undoes `Pack` for any base and size, by an induction over sets of
naturals (`SetInduction`, from the well-foundedness of `<`); the recursive
functions of the two are shown to be well defined the same way.

`AxisPanel_proofs`: `PanelInv` in four parts, each disturbed by few actions: the
connection thread and what it shares (`ConnectionInv`), the axes the panel was
built for (`PanelIsBuilt`), the repeats and their callbacks (`RepeatInv`: while a
repeat waits exactly one callback is its own, although stale ones are never
withdrawn), and what the servers jog for the panel (`MotionInv`: what is jogged
and not given up belongs to the session in use and to the button that is held).
`SentCalms` shows that no command but the start of a jog adds to it, whatever
the servers admit, `SentGivesUp` that a stop that arrives ends the jog or is
refused.

Only model-checked: the liveness properties (`RestartHappens`, `LossIsNoticed`,
`GoneOwnerIsReleased`, `TrajectoryEnds`, `AttemptEnds`, `ConnectsAgain` and
`RequestEnds` of both modules that have one), because fairness and ENABLED are
outside the prover. Every other property of the runs is a theorem.

## 5. Known deviations

Met while modelling: places where the code does something else than a statement
of the repository. The models follow the code. Each was seen as a behaviour of
the model (the step is named); no property below claims the contrary.

1. `server.py:704`. `system/server/fault_reset` before `system/bus/reconnect` in
   the degraded server: the reconnect resolves the acknowledged initialization
   fault, which removes it, then acknowledges it by id: `KeyError` after
   `mark_ready`. The degraded loop enters the server loop with the degraded
   state (`InitReconnectRaises`). RF-005:219-220 promises the normal loop.
   `restart_axis_runtime` has the same pattern and can end in FAULT.
2. `diagnostic/runtime.py:67`. A bus fault acknowledged while present and
   resolved later by the monitor is gone, but FAULT stays until another fault
   reset (RF-005:141-142).
3. `diagnostic/runtime.py:43`. The counter of mismatches survives a recovery, so
   mismatches before and after it add up (RF-005:64 says consecutive).
4. `server.py:713`. `state.clear()` of a start-up reconnect drops a restart that
   was accepted in the same round ("Process will restart.",
   `handlers/command/server.py:48`).
5. `pysoem_master.py:345`. A failed exchange in a handler leaves the PDO phase
   open; `prepare_processdata` of the next cycle raises `RuntimeError`, which
   nothing catches (`CycleFindsOpenPhase`; RF-005:67).
   `update_homing_state` (`server.py:235`), outside the error handling of the
   cycle, ends the process in the same situation.
6. `control/axis_operations.py:40`. `hold_faulted_axes` sets the targets of all
   axes, which ends the trajectory of a healthy one; `update_active` completes
   it by a jump to its last point (RF-005:118-119).
7. `handlers/command/axis_state.py:115`. `stop_axes` stops a PV axis through
   `command_profile_velocities`, which refuses while any drive shows a fault.
8. `handlers/command/axis_state.py:303`. `enable` writes 0x000F only; a drive in
   Switch On Disabled, as after a reconnect, needs a fault reset first
   (`DriveIsSafe` shows that this is enough).
9. `device/cmmt/profile.py:521`. An exponent that cannot be read is replaced by
   a default; TD-025:65 calls for an initialization error.
10. `app/recovery.py:232`. An axis restart connects all drives, which resets
    every RxPDO, but seeds the profile velocity of the restarted axis only: the
    others get a velocity of zero with the first exchange (`Clobbered`). The
    comment at `startup.py:451` says that zero-filled buffers cannot overwrite
    values of the drive.
11. `handlers/command/io_output_write.py:97`. The `KeyError` of a slot without
    outputs ends a request without its list of targets, after earlier items
    took effect (TD-005:345).
12. `device/cmmt/rxpdo.py:19`. `validate_pdo_mapping` accepts padding under any
    reserved index, `select_mapping` does not: such a drive never gets to OP.
13. Reference client, `client.py:259`. A request thread that tears the
    connection down clears the feedback while the reader still routes lines of
    it; the next connection then starts with old feedback
    (`tests/test_reference_python_client.py:221` names the opposite).
14. Axis panel. A session that ends while an axis is jogged leaves the axis
    moving (`left`). A change of the endpoint while the thread is connecting
    leaves the panel with the old server (`raced`). `_store_feedback`
    (`client.py:153`) shows parameters that were read once again over newer
    ones; the settings are display only and not modelled.
15. Axis panel, velocities. When the tab is left only the selected axis is
    stopped, by `axis/stop` (`motion.py:17`): axes in velocity mode of a
    multi-axis run or repeat (`motion.py:65-92`) are not, and the stop of the
    selected one is refused while any drive shows a fault (7).
16. `api/validator.py:66-87`. `axis/jog_stop` is neither among the commands
    admitted in FAULT nor among those admitted with a fault of the axis, while
    `axis/stop` is in both. The runtime state can become FAULT while a healthy
    axis is jogged, for want of process data of another one; releasing the
    button then does not end the jog (`left`).
17. Both clients call `sendall` without a timeout under a lock: the reference
    client under `_send_lock` (`client.py:130`), so that a server that stops
    reading blocks that call and all behind it beyond their timeouts
    (`RequestEnds` excepts it); the panel under the lock of its client
    (`control_panel/axis_control_panel/client.py:412`) in the Tk thread, whose
    handlers are taken as ending here. Its `close` waits for a line the reader
    is reading (`ClosesWith`).
18. `app/startup.py:488`. A start-up that cannot enable its drives only prints
    it and goes on to serve them.

## 6. Not modelled

The component list of `PROJECT.json` says for each part what is left out. In
short:

- the ROS bridge and the ROS panel speak the protocol of an older server; their
  migration is pending (`docs/api/client_response_compatibility.md:32`), so
  there is no conversation with this server to model;
- the IO panel: its client thread is the axis panel's, the rest are widgets;
- the Node-RED client: one event loop with the table of the Python client;
- status messages, formatting, error texts and configuration parsing keep no
  state of the server; the configurations themselves are constants of the
  models;
- in the axis panel: velocities, changes of mode and the manual control word of
  the advanced mode;
- floating-point profiles of the set-point generators and their verifier, whose
  properties are about real numbers; only who starts and ends a trajectory is
  modelled;
- the byte stream: a chunk boundary inside a multi-byte character makes
  `client_transport.py:28` raise, which is known and not in the model;
- deployment files, installers and hardware probes.

## 7. Plan

Done: the modules of section 2 with their runs, and the proofs of section 4:
every safety invariant, action property and refinement of the runs is a theorem.
Left, in the order of their worth:

1. the set-point generators: positions under a trajectory as integers, with the
   verifier of `control` as the property;
2. the IO panel, once it differs from the axis panel in more than its widgets;
3. what the ROS bridge does once it speaks the protocol of this server.
