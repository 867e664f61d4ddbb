--------------------------- MODULE BusConnection ---------------------------
(***************************************************************************)
(* Bringing the EtherCAT bus up: building the device models, discovering   *)
(* the drives, checking their identity, writing and reading back their PDO *)
(* mapping by SDO, the pre-operational set-up, and the way to OP, at the   *)
(* start (initialize_runtime_session), in a bus reconnect and in an axis   *)
(* restart.  Between any two steps of the server a drive may lose its      *)
(* power, be exchanged and come back.                                      *)
(*                                                                         *)
(* A step that fails is the action AttemptFails.  An SDO write that fails  *)
(* may have been carried out.                                              *)
(***************************************************************************)
EXTENDS Naturals, Sequences, FiniteSets, Functions

CONSTANTS
  Slaves,        \* 1..n, in bus order; all of them axes
  Products,      \* product codes of drives
  Objects,       \* objects of the drives' dictionaries
  Configured,    \* configurations: slave -> product
  Catalog,       \* ESI: product -> object -> bits
  Required,      \* objects the server accesses by SDO -> bits
  Mapping,       \* direction -> entries of the PDO configuration
  OtherMapping,  \* direction -> entries of the PDO a drive has by default
  Modes,         \* modes of operation
  DefaultMode,   \* the mode in an RxPDO that has just been reset
  StableCycles,  \* RECOVERY_WKC_STABLE_CYCLES
  MaxLosses      \* bound: times a drive loses its power

Dirs == {"rx", "tx"}
Firmwares == {"normal", "locked", "renames"}
Padding == {"none", "dummy"}    \* an index below 0x0010
DriveStates == {"off", "init", "preop", "safeop", "op"}
Words == {"zero", "reset", "shutdown", "switchOn", "enable"}
Kinds == {"startup", "again", "reconnect", "restart"}
Connecting == {"discover", "identify", "write", "read", "map"}
Places == {"build", "create"} \cup Connecting
          \cup {"restore", "safeop", "prime", "op", "exchange", "enable", "stable",
                "finish", "serve", "stopped"}

Entry == [object : Objects \cup Padding, bits : Nat]

ASSUME SlavesAssumption ==
  IsFiniteSet(Slaves) /\ Slaves # {} /\ Slaves = 1..Cardinality(Slaves)
ASSUME ParametersAssumption ==
  DefaultMode \in Modes /\ StableCycles \in Nat \ {0} /\ MaxLosses \in Nat
ASSUME ProductsAssumption ==
  /\ Products = DOMAIN Catalog /\ Configured \subseteq [Slaves -> Products]
  /\ "unread" \notin Products
\* padding() of a PDO configuration always has index 0 (device/pdo_metadata/base.py).
ASSUME MappingAssumption ==
  \A x \in Dirs : /\ Mapping[x] \in Seq(Entry) /\ OtherMapping[x] \in Seq(Entry)
                  /\ Len(Mapping[x]) > 0
                  /\ \A k \in DOMAIN Mapping[x] : Mapping[x][k].object # "dummy"

VARIABLES
  config,   \* the configured products, and whether sync parameters are written
  pc,       \* where the server is: place, slave and index of the next write
  kind,     \* what the attempt belongs to
  expired,  \* the deadline of the attempt has passed
  stable,   \* consecutive_cycles of _wait_for_stable_processdata
  handles,  \* open handles of the network interface
  failure,  \* the initialization failure recorded by the last attempt
  dev,      \* the drives
  rx,       \* the RxPDOs of the master: control word and mode
  want,     \* state["motion_modes"]
  losses

vars == <<config, pc, kind, expired, stable, handles, failure, dev, rx, want,
          losses>>
-----------------------------------------------------------------------------
(* A drive                                                                 *)

NoFrame == [word |-> "none", mode |-> DefaultMode]
FreshRx == [word |-> "zero", mode |-> DefaultMode]

\* The PDO of a direction: how many PDOs are assigned, which one, the count and
\* the entries of the one the server writes.
DefaultPdo(d) ==
  [assigned |-> 1, pointer |-> "other", count |-> 0,
   entry |-> [k \in 1..Len(Mapping[d]) |-> [object |-> "none", bits |-> 0]]]

\* A drive after power on: no address, no mapping of its memory, nothing kept.
Drive(p, f) ==
  [product |-> p, firmware |-> f, state |-> "init", addressed |-> FALSE,
   mapped |-> FALSE, sync |-> FALSE, frame |-> NoFrame,
   pdo |-> [x \in Dirs |-> DefaultPdo(x)]]

Reachable(s) == dev[s].state # "off" /\ dev[s].addressed

\* The entries that a drive exchanges.
Active(d, x) ==
  IF d.pdo[x].assigned = 0 THEN <<>>
  ELSE IF d.pdo[x].pointer = "other" THEN OtherMapping[x]
  ELSE [k \in 1..d.pdo[x].count |-> d.pdo[x].entry[k]]

\* Some drives report padding under an index of their own.
Reported(d, es) ==
  [k \in DOMAIN es |->
     IF es[k].object = "none" /\ d.firmware = "renames"
     THEN [es[k] EXCEPT !.object = "dummy"] ELSE es[k]]
-----------------------------------------------------------------------------
(* The outcome of the start-up                                             *)

StagesOfCauses ==
  [device_profile_invalid |-> "device_model_build",
   device_layout_invalid |-> "device_model_build",
   pdo_catalog_mismatch |-> "device_model_build",
   device_model_build_failed |-> "device_model_build",
   runtime_creation_failed |-> "runtime_creation",
   device_identity_mismatch |-> "bus_connection",
   bus_connection_failed |-> "bus_connection",
   required_parameter_read_failed |-> "device_initialization",
   device_initialization_failed |-> "device_initialization"]

\* initialization_cause_from_exception
CauseOf(stage, e) ==
  CASE e = "layout" -> "device_layout_invalid"
    [] e = "catalog" -> "pdo_catalog_mismatch"
    [] e = "parameter" -> "required_parameter_read_failed"
    [] e = "identity" -> "device_identity_mismatch"
    [] OTHER ->
       CASE stage = "device_model_build" ->
              IF e = "value" THEN "device_profile_invalid"
                             ELSE "device_model_build_failed"
         [] stage = "runtime_creation" -> "runtime_creation_failed"
         [] stage = "bus_connection" -> "bus_connection_failed"
         [] stage = "device_initialization" -> "device_initialization_failed"

\* The stage of initialize_runtime_session when e is raised; a start that is
\* complete but too late is recorded as one of the bus.
Stage(e) ==
  CASE pc.at = "build" -> "device_model_build"
    [] pc.at = "create" -> "runtime_creation"
    [] pc.at \in Connecting \cup {"finish"} -> "bus_connection"
    [] OTHER -> "device_initialization"

\* InitializationFailure
Recorded(e) == [stage |-> Stage(e), cause |-> CauseOf(Stage(e), e)]

NoFailure == [stage |-> "none", cause |-> "none"]
-----------------------------------------------------------------------------
Starting == kind \in {"startup", "again"}

Pdos ==
  [assigned : {0, 1}, pointer : {"other", "ours"}, count : Nat, entry : Seq(Entry)]

Drives ==
  [product : Products, firmware : Firmwares, state : DriveStates,
   addressed : BOOLEAN, mapped : BOOLEAN, sync : BOOLEAN,
   frame : [word : {"none"} \cup Words, mode : Modes], pdo : [Dirs -> Pdos]]

\* The PDO that the server writes has room for the configured entries.
PdoFits(p, x) ==
  Len(p.entry) = Len(Mapping[x]) /\ p.count <= Len(Mapping[x])

(* The state of the connection has its shape.                              *)
TypeOK ==
  /\ config \in [product : Configured, sync : BOOLEAN]
  /\ pc \in [at : Places, slave : Slaves,
             write : 1..(Len(Mapping["rx"]) + Len(Mapping["tx"]) + 10)]
  /\ kind \in Kinds /\ expired \in BOOLEAN /\ stable \in 0..StableCycles
  /\ handles \in Nat
  /\ failure = NoFailure \/ failure.cause \in DOMAIN StagesOfCauses
  /\ dev \in [Slaves -> Drives]
  /\ \A s \in Slaves, x \in Dirs : PdoFits(dev[s].pdo[x], x)
  /\ rx \in [Slaves -> [word : Words, mode : Modes]]
  /\ want \in [Slaves -> Modes] /\ losses \in 0..MaxLosses

\* The first drive may be of any product and firmware, the others are right.
Init ==
  /\ config \in [product : Configured, sync : BOOLEAN]
  /\ \E p \in Products, f \in Firmwares :
       dev = [s \in Slaves |-> IF s = 1 THEN Drive(p, f)
                               ELSE Drive(config.product[s], "normal")]
  /\ pc = [at |-> "build", slave |-> 1, write |-> 1]
  /\ kind = "startup" /\ expired = FALSE /\ stable = 0 /\ handles = 0
  /\ failure = NoFailure
  /\ rx = [s \in Slaves |-> FreshRx] /\ want = [s \in Slaves |-> DefaultMode]
  /\ losses = 0

At(place) == pc.at = place
GoTo(place) == pc' = [at |-> place, slave |-> 1, write |-> 1]
-----------------------------------------------------------------------------
(* initialize_runtime_session up to connect_bus                            *)

BuildsModels ==
  /\ At("build") /\ GoTo("create")
  /\ UNCHANGED <<config, kind, expired, stable, handles, failure, dev, rx, want,
                 losses>>

CreatesRuntime ==
  /\ At("create") /\ GoTo("discover")
  /\ rx' = [s \in Slaves |-> FreshRx]
  /\ UNCHANGED <<config, kind, expired, stable, handles, failure, dev, want,
                 losses>>
-----------------------------------------------------------------------------
(* PySOEMMaster.connect                                                    *)

\* All drives that answer have reached the requested state.
AllIn(ds, state) == \A s \in Slaves : ds[s].state \in {"off", state}

\* open, config_init and the request for PRE-OP.
Discovers ==
  /\ At("discover") /\ GoTo("identify")
  /\ Starting \/ ~expired
  /\ \A s \in Slaves : dev[s].state # "off"
  /\ handles' = handles + 1
  /\ dev' = [s \in Slaves |-> [dev[s] EXCEPT !.state = "preop", !.addressed = TRUE,
                                             !.mapped = FALSE, !.frame = NoFrame]]
  /\ UNCHANGED <<config, kind, expired, stable, failure, rx, want, losses>>

\* read_slave_identity: what discovery found, or else the identity object; 0 if
\* neither can be read.
Identities(s) == {"unread"} \cup IF Reachable(s) THEN {dev[s].product} ELSE {}

\* validate_identity
IdentityOk(s, id) == id = config.product[s]

\* validate_catalog_od_role
Supports(p, object, bits) ==
  object \in DOMAIN Catalog[p] /\ Catalog[p][object] = bits

\* validate_catalog_support: the ESI has the objects of both PDOs and the ones
\* accessed by SDO, with their sizes.
CatalogSupports(p) ==
  /\ \A x \in Dirs : \A k \in DOMAIN Mapping[x] :
       \/ Mapping[x][k].object \in Padding
       \/ Supports(p, Mapping[x][k].object, Mapping[x][k].bits)
  /\ \A o \in DOMAIN Required : Supports(p, o, Required[o])

Identifies ==
  /\ At("identify") /\ pc' = [pc EXCEPT !.at = "write", !.write = 1]
  /\ \E id \in Identities(pc.slave) : IdentityOk(pc.slave, id)
  /\ CatalogSupports(config.product[pc.slave])
  /\ UNCHANGED <<config, kind, expired, stable, handles, failure, dev, rx, want,
                 losses>>

\* write_pdo_mapping of one direction.
MappingWrites(x) ==
  LET W(f, k, v) == [dir |-> x, field |-> f, index |-> k, value |-> v]
  IN <<W("assigned", 0, 0), W("count", 0, 0)>>
     \o [k \in 1..Len(Mapping[x]) |-> W("entry", k, Mapping[x][k])]
     \o <<W("count", 0, Len(Mapping[x])), W("pointer", 0, "ours"),
          W("assigned", 0, 1)>>

Writes == MappingWrites("rx") \o MappingWrites("tx")

\* A drive refuses an entry of a PDO that counts entries and a PDO in an active
\* assignment; one with a locked assignment ignores writes to it.
Refused(p, w) ==
  \/ w.field = "entry" /\ p.count # 0
  \/ w.field = "pointer" /\ p.assigned # 0

WithWrite(p, w) ==
  CASE w.field = "assigned" -> [p EXCEPT !.assigned = w.value]
    [] w.field = "count" -> [p EXCEPT !.count = w.value]
    [] w.field = "entry" -> [p EXCEPT !.entry[w.index] = w.value]
    [] w.field = "pointer" -> [p EXCEPT !.pointer = w.value]

Taken(d, w) ==
  IF d.firmware = "locked" /\ w.field \in {"assigned", "pointer"} THEN d
  ELSE [d EXCEPT !.pdo[w.dir] = WithWrite(@, w)]

Accepts(d, w) ==
  \/ d.firmware = "locked" /\ w.field = "pointer"
  \/ ~Refused(d.pdo[w.dir], w)

AfterWrite ==
  IF pc.write = Len(Writes) THEN [pc EXCEPT !.at = "read"]
  ELSE [pc EXCEPT !.write = @ + 1]

WritesMapping ==
  /\ At("write") /\ Reachable(pc.slave)
  /\ LET d == dev[pc.slave]
         w == Writes[pc.write]
     IN Accepts(d, w) /\ dev' = [dev EXCEPT ![pc.slave] = Taken(d, w)]
  /\ pc' = AfterWrite
  /\ UNCHANGED <<config, kind, expired, stable, handles, failure, rx, want, losses>>

\* normalized_pdo_mapping_entries
Normalized(es) ==
  [k \in DOMAIN es |-> IF es[k].object \in Padding
                       THEN [es[k] EXCEPT !.object = "none"] ELSE es[k]]

\* Mutant: the PDO that was written is read, assigned or not.
ActualWritten(s, x) ==
  Reported(dev[s], SubSeq(dev[s].pdo[x].entry, 1, dev[s].pdo[x].count))

\* read_assigned_pdo_mapping_entries
Actual(s, x) == Reported(dev[s], Active(dev[s], x))

\* validate_pdo_mapping
Validated(s, x) == Normalized(Actual(s, x)) = Normalized(Mapping[x])

\* select_mapping: it wants the entries as configured, padding included, and
\* resets the values.
Selectable(s, x) == Actual(s, x) = Mapping[x]

\* Mutant: the values stay.
SelectedKeeping(s) == rx

Selected(s) == [rx EXCEPT ![s] = FreshRx]

ReadsBack ==
  /\ At("read") /\ Reachable(pc.slave)
  /\ \A x \in Dirs : Validated(pc.slave, x) /\ Selectable(pc.slave, x)
  /\ rx' = Selected(pc.slave)
  /\ IF pc.slave + 1 \in Slaves
     THEN pc' = [at |-> "identify", slave |-> pc.slave + 1, write |-> 1]
     ELSE GoTo("map")
  /\ UNCHANGED <<config, kind, expired, stable, handles, failure, dev, want, losses>>

\* config_map, and the request for the target state PRE-OP: a drive that came
\* back in between answers the broadcast but has no address and no mapping.
Maps ==
  /\ At("map") /\ GoTo("restore")
  /\ dev' = [s \in Slaves |->
               IF dev[s].state = "off" THEN dev[s]
               ELSE [dev[s] EXCEPT !.mapped = dev[s].addressed, !.state = "preop"]]
  /\ AllIn(dev', "preop")
  /\ UNCHANGED <<config, kind, expired, stable, handles, failure, rx, want, losses>>
-----------------------------------------------------------------------------
(* From PRE-OP to OP                                                       *)

\* initialize_drive up to enter_operational, or _restore_process_image.  The
\* restart requests are cleared and the interpolation modes written if that is
\* possible; the mode of every axis must reach its drive.
Restores ==
  /\ At("restore") /\ GoTo("safeop")
  /\ \A s \in Slaves : Reachable(s)
  /\ rx' = [s \in Slaves |-> [rx[s] EXCEPT !.mode = want[s]]]
  /\ UNCHANGED <<config, kind, expired, stable, handles, failure, dev, want, losses>>

\* _configure_sync_parameters writes to every drive, or to none in FreeRun.
SyncPossible == config.sync => \A s \in Slaves : Reachable(s)

\* configure_sync_parameters
WithSync(d) == [d EXCEPT !.sync = config.sync]

\* enter_operational: sync parameters, then SAFE-OP.  A drive goes there with a
\* mapping only.
EntersSafeOp ==
  /\ At("safeop") /\ GoTo("prime")
  /\ Starting \/ ~expired
  /\ SyncPossible
  /\ dev' = [s \in Slaves |->
               IF ~dev[s].mapped THEN dev[s]
               ELSE [WithSync(dev[s]) EXCEPT !.state = "safeop"]]
  /\ AllIn(dev', "safeop")
  /\ UNCHANGED <<config, kind, expired, stable, handles, failure, rx, want, losses>>

\* What process data does to a drive.
Given(s, output) == IF dev[s].state \in {"safeop", "op"}
                    THEN [dev[s] EXCEPT !.frame = output] ELSE dev[s]

Exchanged(s) == Given(s, rx[s])

\* _prime_outputs
Primes ==
  /\ At("prime") /\ GoTo("op")
  /\ dev' = [s \in Slaves |-> Exchanged(s)]
  /\ UNCHANGED <<config, kind, expired, stable, handles, failure, rx, want, losses>>

\* _request_operational: the drives go to OP one by one while it exchanges.
GoesOperational(s) ==
  /\ At("op") /\ dev[s].state = "safeop"
  /\ dev' = [dev EXCEPT ![s] = [Exchanged(s) EXCEPT !.state = "op"]]
  /\ UNCHANGED <<config, pc, kind, expired, stable, handles, failure, rx, want,
                 losses>>

RequestsOperational ==
  /\ At("op") /\ GoTo(IF Starting THEN "exchange" ELSE "stable")
  /\ AllIn(dev, "op")
  /\ UNCHANGED <<config, kind, expired, stable, handles, failure, dev, rx, want, losses>>

\* The rest of initialize_drive: a fault reset, then the commands that enable
\* the drives, in their order.
StartWords == <<"reset", "zero", "shutdown", "switchOn", "enable">>

\* Ten exchanges; without a fault in the statuswords they bring, nothing is reset.
Exchanges ==
  /\ At("exchange")
  /\ \E first \in {1, 3} : pc' = [at |-> "enable", slave |-> 1, write |-> first]
  /\ dev' = [s \in Slaves |-> Exchanged(s)]
  /\ UNCHANGED <<config, kind, expired, stable, handles, failure, rx, want, losses>>

\* set_controlword_all
Commanded == [s \in Slaves |-> [rx[s] EXCEPT !.word = StartWords[pc.write]]]

\* The next command and the exchanges of wait_status_all: the start-up goes on
\* whether the drives follow or the wait times out.
Enables ==
  /\ At("enable")
  /\ rx' = Commanded
  /\ dev' = [s \in Slaves |-> Given(s, Commanded[s])]
  /\ IF pc.write < Len(StartWords) THEN pc' = [pc EXCEPT !.write = @ + 1]
                                   ELSE GoTo("finish")
  /\ UNCHANGED <<config, kind, expired, stable, handles, failure, want, losses>>

\* A cycle of _wait_for_stable_processdata.
Settles ==
  /\ At("stable") /\ ~expired
  /\ stable' = IF \A s \in Slaves : dev[s].state = "op" THEN stable + 1 ELSE 0
  /\ dev' = [s \in Slaves |-> Exchanged(s)]
  /\ pc' = IF stable' = StableCycles THEN [pc EXCEPT !.at = "finish"] ELSE pc
  /\ UNCHANGED <<config, kind, expired, handles, failure, rx, want, losses>>

\* The attempt is complete.  A restart that is too late has failed, but its bus
\* stays operational; the other kinds end in AttemptFails.
Finishes ==
  /\ At("finish") /\ GoTo("serve")
  /\ expired => kind = "restart"
  /\ failure' = NoFailure /\ stable' = 0 /\ expired' = FALSE
  /\ UNCHANGED <<config, kind, handles, dev, rx, want, losses>>
-----------------------------------------------------------------------------
(* Failing                                                                 *)

Errors ==
  CASE At("build") -> {"layout", "catalog", "value", "other"}
    [] At("create") -> {"other"}
    [] At("identify") -> {"identity", "other"}
    [] At("restore") -> IF Starting THEN {"parameter", "value", "other"} ELSE {"other"}
    [] At("finish") -> IF expired /\ kind # "restart" THEN {"other"} ELSE {}
    [] At("serve") \/ At("stopped") -> {}
    [] OTHER -> {"other"}

\* Mutant: the deadline is not looked at.
RetriesForEver == ~Starting /\ pc.at \in Connecting

\* _connect_until tries again until its deadline.
Retries == ~Starting /\ pc.at \in Connecting /\ ~expired

\* Mutant: a failed attempt keeps the interface.
StillOpen == IF pc.at \in Connecting THEN 0 ELSE handles

\* connect, _connect_until, reconnect_runtime, restart_axis_runtime and
\* fail_runtime_initialization close what has been opened.
Closed == 0

\* What an SDO write or the exchanges of a command may leave behind although
\* they failed.
LeftBehind ==
  {dev} \cup
  (IF At("write") /\ Reachable(pc.slave) /\ Accepts(dev[pc.slave], Writes[pc.write])
   THEN {[dev EXCEPT ![pc.slave] = Taken(dev[pc.slave], Writes[pc.write])]} ELSE {})
  \cup
  (IF At("enable") THEN {[s \in Slaves |-> Given(s, Commanded[s])]} ELSE {})

AttemptFails(e) ==
  /\ e \in Errors
  /\ GoTo(IF Retries THEN "discover" ELSE "stopped")
  /\ handles' = Closed
  /\ dev' \in LeftBehind
  /\ failure' = IF Starting THEN Recorded(e) ELSE failure
  /\ stable' = 0 /\ expired' = (expired /\ Retries)
  /\ UNCHANGED <<config, kind, rx, want, losses>>

DeadlinePasses ==
  /\ pc.at \notin {"serve", "stopped"} /\ kind # "startup" /\ ~expired
  /\ expired' = TRUE
  /\ UNCHANGED <<config, pc, kind, stable, handles, failure, dev, rx, want, losses>>
-----------------------------------------------------------------------------
(* While the bus is served                                                 *)

\* A cycle: the drives get the outputs; a client enables an axis in a mode.
Commands(s, m) ==
  /\ At("serve")
  /\ rx' = [rx EXCEPT ![s] = [word |-> "enable", mode |-> m]]
  /\ want' = [want EXCEPT ![s] = m]
  /\ UNCHANGED <<config, pc, kind, expired, stable, handles, failure, dev, losses>>

Cycles ==
  /\ At("serve")
  /\ dev' = [s \in Slaves |-> Exchanged(s)]
  /\ UNCHANGED <<config, pc, kind, expired, stable, handles, failure, rx, want,
                 losses>>

\* mark_bus_disconnected
LosesBus ==
  /\ At("serve") /\ GoTo("stopped")
  /\ kind' = "reconnect"
  /\ handles' = Closed
  /\ UNCHANGED <<config, expired, stable, failure, dev, rx, want, losses>>

\* restart_axis_runtime closes the bus and connects again.
RestartsAxis ==
  /\ At("serve") /\ GoTo("discover") /\ kind' = "restart" /\ expired' = FALSE
  /\ handles' = Closed
  /\ UNCHANGED <<config, stable, failure, dev, rx, want, losses>>

\* reconnect_runtime, or reconnect_failed_initialization without a runtime.
Reconnects ==
  /\ At("stopped") /\ expired' = FALSE
  /\ kind' = IF Starting THEN "again" ELSE "reconnect"
  /\ GoTo(IF Starting THEN "build" ELSE "discover")
  /\ handles' = Closed /\ failure' = NoFailure
  /\ UNCHANGED <<config, stable, dev, rx, want, losses>>
-----------------------------------------------------------------------------
(* The drives                                                              *)

PowerLost(s) ==
  /\ dev[s].state # "off" /\ losses < MaxLosses /\ losses' = losses + 1
  /\ dev' = [dev EXCEPT ![s] = [Drive(@.product, @.firmware) EXCEPT !.state = "off"]]
  /\ UNCHANGED <<config, pc, kind, expired, stable, handles, failure, rx, want>>

\* It may be another drive.
PowerBack(s, p) ==
  /\ dev[s].state = "off"
  /\ dev' = [dev EXCEPT ![s] = Drive(p, @.firmware)]
  /\ UNCHANGED <<config, pc, kind, expired, stable, handles, failure, rx, want,
                 losses>>
-----------------------------------------------------------------------------
Connects ==
  \/ BuildsModels \/ CreatesRuntime
  \/ Discovers \/ Identifies \/ WritesMapping \/ ReadsBack \/ Maps
  \/ Restores \/ EntersSafeOp \/ Primes
  \/ \E s \in Slaves : GoesOperational(s)
  \/ RequestsOperational \/ Exchanges \/ Enables \/ Settles \/ Finishes
  \/ \E e \in {"layout", "catalog", "value", "parameter", "identity", "other"} :
       AttemptFails(e)

Serves ==
  \/ \E s \in Slaves, m \in Modes : Commands(s, m)
  \/ Cycles \/ LosesBus \/ RestartsAxis \/ Reconnects

Next ==
  \/ Connects
  \/ Serves
  \/ DeadlinePasses
  \/ \E s \in Slaves : PowerLost(s) \/ \E p \in Products : PowerBack(s, p)

\* The server goes on with an attempt and time goes by.
Spec == Init /\ [][Next]_vars /\ WF_vars(Connects) /\ WF_vars(DeadlinePasses)
-----------------------------------------------------------------------------
(* Properties                                                              *)

(* A drive in OP is the configured product and exchanges exactly the       *)
(* entries the codec of the master reads and writes, whatever was          *)
(* exchanged or interrupted on the way.                                    *)
OperationalIsConfigured ==
  \A s \in Slaves : dev[s].state = "op" =>
    /\ dev[s].product = config.product[s]
    /\ \A x \in Dirs : Active(dev[s], x) = Mapping[x]
    /\ dev[s].sync = config.sync

\* The control word a drive has been sent last on the way to a served bus: a
\* reconnect and a restart send zeros, a start-up the commands it has come to.
WordDue ==
  CASE At("enable") -> IF pc.write = 1 THEN "zero" ELSE StartWords[pc.write - 1]
    [] At("finish") /\ Starting -> "enable"
    [] OTHER -> "zero"

(* Until the server serves a bus (again), a drive in OP has been sent the  *)
(* control word due at that point of the attempt and the mode the server   *)
(* reports, never a command of before the loss.                            *)
NoOldCommand ==
  pc.at \in {"op", "exchange", "enable", "stable", "finish"} =>
    \A s \in Slaves :
      dev[s].state = "op" => dev[s].frame = [word |-> WordDue, mode |-> want[s]]

(* The network interface is opened at most once, and is closed whenever no *)
(* bus is served and none is being connected.                              *)
OneHandle == handles <= 1 /\ (At("stopped") => handles = 0)

(* A failed start-up is recorded with a cause of the stage it failed in:   *)
(* InitializationFailure raises otherwise, in the handler of the failure.  *)
CauseFitsStage ==
  failure # NoFailure => StagesOfCauses[failure.cause] = failure.stage

(* Every start, reconnect and restart comes to an end, with the drives     *)
(* failing and coming back as they like.                                   *)
AttemptEnds ==
  pc.at \notin {"serve", "stopped"} ~> pc.at \in {"serve", "stopped"}

(* The server's bookkeeping of an attempt is sound: positions and counters *)
(* in their range, one open network interface, a cause that can be         *)
(* recorded.                                                               *)
AttemptIsSound == TypeOK /\ OneHandle /\ CauseFitsStage
=============================================================================
