----------------------------- MODULE IoStation -----------------------------
(***************************************************************************)
(* The CPX-AP-I-EC station: how a declared list of modules becomes a       *)
(* process image (device/cpx_ap_i_ec), how the server checks a station     *)
(* against it before it goes operational, and how output writes            *)
(* (system/io/output_write) and simulated inputs travel through the image. *)
(*                                                                         *)
(* A byte has ByteBits bits (8 in the code) and is a number; an analog     *)
(* value takes two bytes.  A module type is a row of the ESI catalog.      *)
(***************************************************************************)
EXTENDS Integers, Sequences, FiniteSets, SequencesExt

CONSTANTS
  ByteBits,      \* bits of a byte
  EsiCatalog,       \* ESI: module type -> its channels and PDO bytes
  Variants,      \* IO-Link: bytes per port -> module type of the variant
  FixedSizes,    \* sizes of the fixed station PDOs
  Declarations,  \* configurations: modules and IO-Link ports as declared
  Stations,      \* sequences of the module types fitted behind the station
  Payloads,      \* byte sequences clients write to IO-Link modules
  AnalogValues,  \* numbers clients write to analog channels
  MaxWrites,     \* bound: output requests served
  MaxInputs,     \* bound: changes of the simulated inputs
  MaxStationLosses      \* bound: times the bus is lost

\* The powers of two that fit a word of two bytes.
Pow2[n \in 0..2 * ByteBits] == IF n = 0 THEN 1 ELSE 2 * Pow2[n - 1]

BitValue == Pow2[ByteBits]
Byte == 0..BitValue - 1
IolType == "iol"           \* an IO-Link module declared without its size
Invalid == "invalid"       \* no module type: the module is refused

ASSUME StationAssumption ==
  /\ ByteBits \in Nat \ {0}
  /\ \A b \in DOMAIN Variants : b \in Nat \ {0} /\ Variants[b] \in DOMAIN EsiCatalog
  /\ FixedSizes \subseteq Nat
  /\ \A d \in Declarations :
       d.modules \in Seq([slot : Nat, type : STRING, product : BOOLEAN])
  /\ Stations \subseteq Seq(DOMAIN EsiCatalog)
  /\ AnalogValues \subseteq Int /\ Payloads \subseteq Seq(Byte)
  /\ MaxWrites \in Nat /\ MaxInputs \in Nat /\ MaxStationLosses \in Nat

\* The channels of one direction of a module are digital, analog or IO-Link
\* bytes, and its PDO holds them.
Holds(bytes, digital, analog, iol) ==
  /\ bytes \in Nat /\ digital \in Nat /\ analog \in Nat /\ iol \in Nat
  /\ digital <= bytes * ByteBits /\ 2 * analog <= bytes /\ iol <= bytes
  /\ digital > 0 => analog = 0 /\ iol = 0
  /\ analog > 0 => iol = 0

ASSUME EsiAssumption ==
  \A t \in DOMAIN EsiCatalog :
    /\ t \notin {IolType, Invalid}
    /\ EsiCatalog[t] \in [din : Nat, dout : Nat, ain : Nat, aout : Nat, ports : Nat,
                          iolIn : Nat, iolOut : Nat, in : Nat, out : Nat]
    /\ Holds(EsiCatalog[t].in, EsiCatalog[t].din, EsiCatalog[t].ain, EsiCatalog[t].iolIn)
    /\ Holds(EsiCatalog[t].out, EsiCatalog[t].dout, EsiCatalog[t].aout, EsiCatalog[t].iolOut)

VARIABLES
  phase,    \* configure, failed, down, op
  layout,   \* the modules of the server's configuration, with their offsets
  fitted,   \* the module types behind the station, in slot order
  size,     \* bytes of the mapped process image: [out, in]
  out,      \* module_outputs of the RxPDO, by position in the layout
  in,       \* module_inputs of the TxPDO
  devOut,   \* the outputs the modules of the station drive
  devIn,    \* the inputs at the modules of the station
  sent,     \* the outputs as they are have been exchanged
  received, \* the inputs as they are have been exchanged
  report,   \* the answer to an output request just served
  writes, inputs, stationLosses

stationVars == <<phase, layout, fitted, size, out, in, devOut, devIn, sent, received,
          report, writes, inputs, stationLosses>>

NoReport == [result |-> "none", items |-> <<>>, done |-> {}]
-----------------------------------------------------------------------------
(* Configuration: build_cpx_io_config                                      *)

Rejected == <<>>           \* the layout of a configuration that is refused

MaxOf(S) == CHOOSE x \in S : \A y \in S : y <= x
MinOf(S) == CHOOSE x \in S : \A y \in S : x <= y

\* An item without an index follows the one before it; slot 0 is no index.
SlotsOf(items) ==
  LET f[n \in 0..Len(items)] ==
        IF n = 0 THEN 0
        ELSE IF items[n].slot > 0 THEN items[n].slot ELSE f[n - 1] + 1
  IN [n \in 1..Len(items) |-> f[n]]

\* split_module_list: the items with their slots, in the order of the slots.
Split(items) ==
  LET slots == SlotsOf(items)
      before(i) == {j \in 1..Len(items) :
                      slots[j] < slots[i] \/ (slots[j] = slots[i] /\ j < i)}
      at(n) == CHOOSE i \in 1..Len(items) : Cardinality(before(i)) = n - 1
  IN [n \in 1..Len(items) |-> [items[at(n)] EXCEPT !.slot = slots[at(n)]]]

DuplicateSlots(items) ==
  \E i, j \in 1..Len(items) : i # j /\ SlotsOf(items)[i] = SlotsOf(items)[j]

\* The devices bound to the ports of a module; need 0 is a port left empty.
Bound(ports, slot) == {p \in ToSet(ports) : p.module = slot /\ p.need > 0}

\* selected_io_link_variant_bytes over inferred_io_link_module_sizes
VariantBytes(ports, slot) ==
  LET need == MaxOf({p.need : p \in Bound(ports, slot)})
      large == {b \in DOMAIN Variants : need <= b}
  IN IF large = {} THEN 0 ELSE MinOf(large)

\* io_link_module_info: the variant for the devices of an IO-Link module.
IolInfo(m, ports) ==
  IF Bound(ports, m.slot) = {} \/ VariantBytes(ports, m.slot) = 0 THEN Invalid
  ELSE Variants[VariantBytes(ports, m.slot)]

\* Bits of an analog channel of a PDO of that many bytes.
AnalogBits(bytes, channels) ==
  IF channels = 0 THEN 0 ELSE (bytes * ByteBits) \div channels

\* A module named by its product has channels as wide as its PDO allows, in both
\* directions alike; the other widths of the code, 8 and 32 bits, are left out.
ExplicitOk(c) ==
  {AnalogBits(c.in, c.ain), AnalogBits(c.out, c.aout)} \subseteq {0, 2 * ByteBits}

\* The catalog row of a declared module.
InfoType(m, ports) ==
  IF m.type = IolType THEN IolInfo(m, ports)
  ELSE IF m.type \notin DOMAIN EsiCatalog THEN Invalid
  ELSE IF m.product /\ ~ExplicitOk(EsiCatalog[m.type]) THEN Invalid
  ELSE m.type

BytesForBits(bits) == (bits + ByteBits - 1) \div ByteBits

\* The bytes that follow from the channels of a module.
DigitalBytes(c) == [in |-> BytesForBits(c.din), out |-> BytesForBits(c.dout)]
AnalogBytes(c) == [in |-> 2 * c.ain, out |-> 2 * c.aout]
IolBytes(c) == [in |-> c.iolIn, out |-> c.iolOut]

\* Mutant: a module keeps the bytes that follow from its channels.
ChannelSized(t) ==
  LET d == DigitalBytes(EsiCatalog[t])
      a == AnalogBytes(EsiCatalog[t])
      l == IolBytes(EsiCatalog[t])
  IN [in |-> d.in + a.in + l.in, out |-> d.out + a.out + l.out]

\* layout_with_esi_pdo_sizes: the bytes of the ESI replace them.
EsiSized(t) == [in |-> EsiCatalog[t].in, out |-> EsiCatalog[t].out]

None == -1

\* Sums(sizes)[n] is the sum of the first n sizes.
Sums(sizes) ==
  LET f[n \in 0..Len(sizes)] == IF n = 0 THEN 0 ELSE f[n - 1] + sizes[n] IN f

\* assign_process_image_offsets, from the sizes of the modules in order
Offsets(sizes) ==
  LET before == Sums(sizes)
  IN [n \in 1..Len(sizes) |-> IF sizes[n] = 0 THEN None ELSE before[n - 1]]

\* The layout of a sequence of [slot, type] whose PDOs have the given sizes.
LayoutOf(mods, sizes) ==
  LET ins == Offsets([n \in 1..Len(mods) |-> sizes[n].in])
      outs == Offsets([n \in 1..Len(mods) |-> sizes[n].out])
  IN [n \in 1..Len(mods) |->
        [slot |-> mods[n].slot, type |-> mods[n].type,
         in |-> sizes[n].in, out |-> sizes[n].out,
         inAt |-> ins[n], outAt |-> outs[n]]]

Field(l, f) == [n \in 1..Len(l) |-> l[n][f]]

Total(l) == [in |-> Sums(Field(l, "in"))[Len(l)], out |-> Sums(Field(l, "out"))[Len(l)]]

\* selected_fixed_pdo: the smallest fixed image that holds the bytes.
FixedPdo(bytes) ==
  LET fit == {s \in FixedSizes : s >= bytes /\ s >= 1}
  IN IF fit = {} THEN 0 ELSE MinOf(fit)

\* Two declarations for one port.
DuplicatePort(ports) ==
  \E i, j \in 1..Len(ports) :
    i # j /\ ports[i].module = ports[j].module /\ ports[i].port = ports[j].port

\* validate_io_link_bindings: every device has a port that is large enough.
BadBinding(l, ports) ==
  \E p \in ToSet(ports) :
    /\ p.need > 0
    /\ \A m \in ToSet(l) :
         \/ m.slot # p.module
         \/ p.port >= EsiCatalog[m.type].ports
         \/ p.need * EsiCatalog[m.type].ports > EsiCatalog[m.type].iolOut

\* build_cpx_io_config: a layout, or Rejected.
Built(d) ==
  LET items == Split(d.modules)
      types == [n \in 1..Len(items) |-> InfoType(items[n], d.ports)]
  IN IF items = <<>> \/ DuplicateSlots(d.modules) \/ DuplicatePort(d.ports)
        \/ Invalid \in ToSet(types)
     THEN Rejected
     ELSE LET l == LayoutOf([n \in 1..Len(items) |->
                               [slot |-> items[n].slot, type |-> types[n]]],
                            [n \in 1..Len(items) |-> EsiSized(types[n])])
          IN IF BadBinding(l, d.ports) \/ FixedPdo(Total(l).in) = 0
                \/ FixedPdo(Total(l).out) = 0
             THEN Rejected ELSE l
-----------------------------------------------------------------------------
(* The process image                                                       *)

\* The values of a module of type t that has nothing set.
NoOutputs(t) ==
  [digital |-> [c \in 1..EsiCatalog[t].dout |-> FALSE],
   analog |-> [c \in 1..EsiCatalog[t].aout |-> 0],
   io_link |-> [c \in 1..EsiCatalog[t].iolOut |-> 0]]
NoInputs(t) ==
  [digital |-> [c \in 1..EsiCatalog[t].din |-> FALSE],
   analog |-> [c \in 1..EsiCatalog[t].ain |-> 0],
   io_link |-> [c \in 1..EsiCatalog[t].iolIn |-> 0]]

SignedMax == Pow2[2 * ByteBits - 1] - 1
SignedMin == -Pow2[2 * ByteBits - 1]

\* The two bytes of an analog value, little endian, two's complement.
LowByte(v) == (v + BitValue * BitValue) % BitValue
HighByte(v) == ((v + BitValue * BitValue) \div BitValue) % BitValue
FromBytes(lo, hi) ==
  LET u == lo + BitValue * hi
  IN IF u > SignedMax THEN u - BitValue * BitValue ELSE u

BitOf(digital, k) == IF k <= Len(digital) /\ digital[k] THEN 1 ELSE 0

\* Byte k (from 0) of the digital channels of a module.
DigitalByte(digital, k) ==
  LET f[n \in 0..ByteBits] ==
        IF n = 0 THEN 0
        ELSE f[n - 1] + BitOf(digital, k * ByteBits + n) * Pow2[n - 1]
  IN f[ByteBits]

\* Byte k (from 0) of a module that holds the values v.
ModuleByte(v, k) ==
  IF Len(v.digital) > 0 THEN DigitalByte(v.digital, k)
  ELSE IF Len(v.analog) > 0
  THEN IF k \div 2 >= Len(v.analog) THEN 0
       ELSE IF k % 2 = 0 THEN LowByte(v.analog[k \div 2 + 1])
                         ELSE HighByte(v.analog[k \div 2 + 1])
  ELSE IF k < Len(v.io_link) THEN v.io_link[k + 1] ELSE 0

\* encode_rxpdo: the image of n bytes, bytes past its end are left out.
Encode(vals, at, bytes, n) == SubSeq([b \in 1..n |->
     LET mine == {i \in 1..Len(vals) :
                    at[i] # None /\ b - 1 >= at[i] /\ b - 1 < at[i] + bytes[i]}
     IN IF mine = {} THEN 0
        ELSE LET i == MaxOf(mine) IN ModuleByte(vals[i], b - 1 - at[i])],
  1, n)

ByteAt(image, k) == IF k < Len(image) THEN image[k + 1] ELSE 0

\* decode_txpdo for the module at byte at; shape gives its channels.
Decoded(image, at, shape) ==
  IF at = None THEN shape
  ELSE [digital |-> [c \in 1..Len(shape.digital) |->
           (ByteAt(image, at + (c - 1) \div ByteBits)
              \div Pow2[(c - 1) % ByteBits]) % 2 = 1],
        analog |-> [c \in 1..Len(shape.analog) |->
           FromBytes(ByteAt(image, at + 2 * c - 2), ByteAt(image, at + 2 * c - 1))],
        io_link |-> [c \in 1..Len(shape.io_link) |-> ByteAt(image, at + c - 1)]]

\* The station packs the modules it has in slot order, each with its bytes.
StationLayout ==
  LayoutOf([n \in 1..Len(fitted) |-> [slot |-> n, type |-> fitted[n]]],
           [n \in 1..Len(fitted) |->
              [in |-> EsiCatalog[fitted[n]].in, out |-> EsiCatalog[fitted[n]].out]])

\* The image the server sends.
Prepared == Encode(out, Field(layout, "outAt"), Field(layout, "out"), size.out)

\* The station's side: what module n drives, and the image of the inputs.
Consumed(image, sl, n) == Decoded(image, sl[n].outAt, devOut[n])
Published(sl) == Encode(devIn, Field(sl, "inAt"), Field(sl, "in"), size.in)

\* The inputs of module n of the configuration, from the image received.
Received(image, n) == Decoded(image, layout[n].inAt, in[n])

-----------------------------------------------------------------------------
(* The configuration and the connection                                    *)

StationInit ==
  /\ phase = "configure"
  /\ fitted \in Stations
  /\ layout = <<>> /\ size = [out |-> 0, in |-> 0]
  /\ out = <<>> /\ in = <<>>
  /\ devOut = [n \in 1..Len(fitted) |-> NoOutputs(fitted[n])]
  /\ devIn = [n \in 1..Len(fitted) |-> NoInputs(fitted[n])]
  /\ sent = FALSE /\ received = FALSE /\ report = NoReport
  /\ writes = 0 /\ inputs = 0 /\ stationLosses = 0

\* CPXApIEcDeviceProfile.__init__ and the PDO objects made from it.
Configures(d) ==
  /\ phase = "configure"
  /\ IF Built(d) = Rejected
     THEN phase' = "failed" /\ UNCHANGED <<layout, out, in>>
     ELSE /\ phase' = "down"
          /\ layout' = Built(d)
          /\ out' = [n \in 1..Len(layout') |-> NoOutputs(layout'[n].type)]
          /\ in' = [n \in 1..Len(layout') |-> NoInputs(layout'[n].type)]
  /\ report' = NoReport
  /\ UNCHANGED <<fitted, size, devOut, devIn, sent, received, writes,
                 inputs, stationLosses>>

IsIol(t) == t \in {Variants[b] : b \in DOMAIN Variants}

\* configure_io_link_variants: the station takes a variant only for a slot
\* with an IO-Link module of as many ports.
TakesVariant(m) ==
  /\ m.slot \in 1..Len(fitted)
  /\ IsIol(fitted[m.slot])
  /\ EsiCatalog[fitted[m.slot]].ports = EsiCatalog[m.type].ports

Switched(mods) ==
  [n \in 1..Len(fitted) |->
     IF \E m \in mods : m.slot = n
     THEN (CHOOSE m \in mods : m.slot = n).type ELSE fitted[n]]

IolModules == {m \in ToSet(layout) : IsIol(m.type)}

\* Mutant: the detected modules are compared as a set.
IdentsMatchUnordered(types) == {m.type : m \in ToSet(layout)} = ToSet(types)

\* configure_ap_module_idents: the detected list, written and read back.
IdentsMatch(types) == Field(layout, "type") = types

\* A modular mapping names the slot of each module; the fixed one does not.
MappingMatches(types, modular) ==
  modular => \A n \in 1..Len(layout) : layout[n].slot = n /\ layout[n].type = types[n]

ImageSize(modular) ==
  IF modular THEN Total(layout)
  ELSE [out |-> FixedPdo(Total(layout).out), in |-> FixedPdo(Total(layout).in)]

\* prepare_process_image and the way to OP.
StationConnects(modular) ==
  /\ phase = "down" /\ phase' = "op"
  /\ \A m \in IolModules : TakesVariant(m)
  /\ fitted' = Switched(IolModules)
  /\ IdentsMatch(fitted')
  /\ MappingMatches(fitted', modular)
  /\ size' = ImageSize(modular)
  /\ devOut' = [n \in 1..Len(fitted) |-> NoOutputs(fitted'[n])]
  /\ devIn' = [n \in 1..Len(fitted) |-> NoInputs(fitted'[n])]
  /\ sent' = FALSE /\ received' = FALSE
  /\ report' = NoReport
  /\ UNCHANGED <<layout, out, in, writes, inputs, stationLosses>>

\* A comparison or an SDO fails: some of the variants have been switched.
ConnectFails ==
  /\ phase = "down" /\ stationLosses < MaxStationLosses /\ stationLosses' = stationLosses + 1
  /\ \E mods \in SUBSET {m \in IolModules : TakesVariant(m)} :
       /\ fitted' = Switched(mods)
       /\ devOut' = [n \in 1..Len(fitted) |-> NoOutputs(fitted'[n])]
       /\ devIn' = [n \in 1..Len(fitted) |-> NoInputs(fitted'[n])]
  /\ report' = NoReport
  /\ UNCHANGED <<phase, layout, size, out, in, sent, received, writes, inputs>>

\* The bus is lost: the station drops its outputs, the server keeps its own.
StationIsLost ==
  /\ phase = "op" /\ phase' = "down"
  /\ stationLosses < MaxStationLosses /\ stationLosses' = stationLosses + 1
  /\ devOut' = [n \in 1..Len(fitted) |-> NoOutputs(fitted[n])]
  /\ sent' = FALSE /\ received' = FALSE
  /\ report' = NoReport
  /\ UNCHANGED <<layout, fitted, size, out, in, devIn, writes, inputs>>

\* One cycle: the outputs go to the station and its inputs come back.
Exchange ==
  /\ phase = "op"
  /\ \E sl \in {StationLayout}, image \in {Prepared} :
       \E back \in {Published(sl)} :
         /\ devOut' = [n \in 1..Len(fitted) |-> Consumed(image, sl, n)]
         /\ in' = [n \in 1..Len(layout) |-> Received(back, n)]
  /\ sent' = TRUE /\ received' = TRUE
  /\ report' = NoReport
  /\ UNCHANGED <<phase, layout, fitted, size, out, devIn, writes, inputs, stationLosses>>
-----------------------------------------------------------------------------
(* system/io/output_write                                                  *)

\* A write: [slot, kind, channel, value]; value is the bytes of a payload or
\* one number, a digital output is set to 1.
OutputWrites ==
  LET slots == {m.slot : m \in ToSet(layout)}
      unknown == {MaxOf(slots) + 1}
  IN [slot : slots, kind : {"digital"}, channel : {0, 2}, value : {<<1>>}]
     \cup [slot : slots, kind : {"analog"}, channel : {0},
          value : {<<v>> : v \in AnalogValues}]
     \cup [slot : slots, kind : {"io_link"}, channel : {0}, value : Payloads]
     \cup [slot : unknown, kind : {"digital"}, channel : {0}, value : {<<1>>}]

PlaceOf(slot) == CHOOSE n \in 1..Len(layout) : layout[n].slot = slot

\* module_outputs has the slots of the modules with output bytes only; another
\* slot is a KeyError, which the handler does not expect.
NoSuchOutput(w) ==
  ~\E n \in 1..Len(layout) : layout[n].slot = w.slot /\ layout[n].out > 0

\* validate_analog_value
AnalogOk(v) == v \in SignedMin..SignedMax

\* The outcome of a write on the outputs o.
Outcome(o, w) ==
  IF NoSuchOutput(w) THEN "crash"
  ELSE LET v == o[PlaceOf(w.slot)]
       IN IF w.kind = "digital"
          THEN IF w.channel < Len(v.digital) THEN "ok" ELSE "invalid"
          ELSE IF w.kind = "analog"
          THEN IF w.channel < Len(v.analog) /\ AnalogOk(w.value[1])
               THEN "ok" ELSE "invalid"
          ELSE IF Len(w.value) = Len(v.io_link) THEN "ok" ELSE "invalid"

\* The outputs after a write that goes well.
Put(o, w) ==
  LET n == PlaceOf(w.slot)
  IN IF w.kind = "digital" THEN [o EXCEPT ![n].digital[w.channel + 1] = w.value[1] = 1]
     ELSE IF w.kind = "analog" THEN [o EXCEPT ![n].analog[w.channel + 1] = w.value[1]]
     ELSE [o EXCEPT ![n].io_link = w.value]

\* Mutant: a failed item is listed with the written ones.
WrittenListed(r, w) ==
  IF r.crash THEN r
  ELSE CASE Outcome(r.out, w) = "ok" ->
              [out |-> Put(r.out, w), done |-> Append(r.done, TRUE), crash |-> FALSE]
         [] Outcome(r.out, w) = "invalid" -> [r EXCEPT !.done = Append(@, TRUE)]
         [] OTHER -> [r EXCEPT !.crash = TRUE]

\* write_output_target: one item after what the items before it made of r.
Written(r, w) ==
  IF r.crash THEN r
  ELSE CASE Outcome(r.out, w) = "ok" ->
              [out |-> Put(r.out, w), done |-> Append(r.done, TRUE), crash |-> FALSE]
         [] Outcome(r.out, w) = "invalid" -> [r EXCEPT !.done = Append(@, FALSE)]
         [] OTHER -> [r EXCEPT !.crash = TRUE]

\* write_outputs: every item in order, until one raises what nobody expects.
AllWritten(ws) ==
  LET f[n \in 0..Len(ws)] ==
        IF n = 0 THEN [out |-> out, done |-> <<>>, crash |-> FALSE]
        ELSE Written(f[n - 1], ws[n])
  IN f[Len(ws)]

Result(r) ==
  IF r.crash THEN "internal"
  ELSE IF \A n \in DOMAIN r.done : r.done[n] THEN "ok"
  ELSE IF \E n \in DOMAIN r.done : r.done[n] THEN "partial" ELSE "failed"

OutputWrite(ws) ==
  /\ phase = "op" /\ writes < MaxWrites /\ writes' = writes + 1
  /\ \E r \in {AllWritten(ws)} :
       /\ out' = r.out
       /\ report' = [result |-> Result(r), items |-> ws,
                     done |-> IF r.crash THEN {}
                              ELSE {n \in 1..Len(ws) : r.done[n]}]
  /\ sent' = (sent /\ out' = out)
  /\ UNCHANGED <<phase, layout, fitted, size, in, devOut, devIn, received,
                 inputs, stationLosses>>
-----------------------------------------------------------------------------
(* The inputs at the station: set by the process, or by system/simulation. *)

CanChangeInputs == phase = "op" /\ inputs < MaxInputs /\ inputs' = inputs + 1

InputsBecome(n, v) ==
  /\ devIn' = [devIn EXCEPT ![n] = v]
  /\ received' = FALSE /\ report' = NoReport
  /\ UNCHANGED <<phase, layout, fitted, size, out, in, devOut, sent, writes,
                 stationLosses>>

WriteDigitalInput(n, c) ==
  /\ CanChangeInputs /\ c \in 1..Len(devIn[n].digital)
  /\ InputsBecome(n, [devIn[n] EXCEPT !.digital[c] = ~@])

WriteAnalogInput(n, c, v) ==
  /\ CanChangeInputs /\ c \in 1..Len(devIn[n].analog) /\ AnalogOk(v)
  /\ InputsBecome(n, [devIn[n] EXCEPT !.analog[c] = v])

WriteIolInput(n, p) ==
  /\ CanChangeInputs /\ Len(p) = Len(devIn[n].io_link)
  /\ InputsBecome(n, [devIn[n] EXCEPT !.io_link = p])

ResetInputs(n) ==
  /\ CanChangeInputs
  /\ InputsBecome(n, NoInputs(fitted[n]))
-----------------------------------------------------------------------------
StationNext ==
  \/ \E d \in Declarations : Configures(d)
  \/ \E modular \in BOOLEAN : StationConnects(modular)
  \/ ConnectFails \/ StationIsLost
  \/ Exchange
  \/ /\ phase = "op" /\ writes < MaxWrites
     /\ \E w \in OutputWrites : OutputWrite(<<w>>)
  \/ /\ phase = "op" /\ writes < MaxWrites
     /\ \E w1, w2 \in OutputWrites : OutputWrite(<<w1, w2>>)
  \/ /\ phase = "op" /\ inputs < MaxInputs
     /\ \E n \in 1..Len(devIn) :
       \/ \E c \in 1..3 : WriteDigitalInput(n, c)
       \/ \E v \in AnalogValues : WriteAnalogInput(n, 1, v)
       \/ \E p \in Payloads : WriteIolInput(n, p)
       \/ ResetInputs(n)

StationSpec == StationInit /\ [][StationNext]_stationVars
-----------------------------------------------------------------------------
(* Properties                                                              *)

(* The state of the station and of the server's view of it has its shape. *)
StationTypeOK ==
  /\ phase \in {"configure", "failed", "down", "op"}
  /\ fitted \in Seq(DOMAIN EsiCatalog)
  /\ Len(out) = Len(layout) /\ Len(in) = Len(layout)
  /\ \A n \in 1..Len(layout) :
       /\ layout[n].type \in DOMAIN EsiCatalog
       /\ \A c \in 1..Len(out[n].analog) : out[n].analog[c] \in SignedMin..SignedMax
       /\ \A c \in 1..Len(out[n].io_link) : out[n].io_link[c] \in Byte
  /\ Len(devOut) = Len(fitted) /\ Len(devIn) = Len(fitted)
  /\ sent \in BOOLEAN /\ received \in BOOLEAN
  /\ writes \in 0..MaxWrites /\ inputs \in 0..MaxInputs /\ stationLosses \in 0..MaxStationLosses

(* After an exchange every module of the station drives exactly what was   *)
(* written for the module of the configuration, whatever lies next to it   *)
(* in the process image (offsets, bit packing, sign, extra ESI bytes).     *)
OutputsArrive ==
  phase = "op" /\ sent => devOut = out

(* After an exchange the server reads what is at the station's modules.    *)
InputsArrive ==
  phase = "op" /\ received => in = devIn

(* The bus is operational only with the modules of the configuration, in   *)
(* their order, also after a connection that failed half way.              *)
ConnectedMatches ==
  phase = "op" => Field(layout, "type") = fitted

\* The outputs after the items of done, in their order.
Applied(ws, done) ==
  LET f[n \in 0..Len(ws)] ==
        IF n = 0 THEN out
        ELSE IF n \in done THEN Put(f[n - 1], ws[n]) ELSE f[n - 1]
  IN f[Len(ws)]

(* An answer to an output request tells what happened: the items listed as *)
(* done, in their order, make exactly the change of the outputs.           *)
AnswerIsExact ==
  [][ writes' # writes /\ report'.result # "internal"
      => out' = Applied(report'.items, report'.done) ]_stationVars

(* After an exchange the two sides have the same outputs and inputs,       *)
(* module by module and channel by channel.                                *)
ImagesAgree == OutputsArrive /\ InputsArrive

(* The server's view of the station has its shape, values of 16 bits and   *)
(* bytes included, and fits the station that is operational.               *)
StationMatches == StationTypeOK /\ ConnectedMatches
=============================================================================
