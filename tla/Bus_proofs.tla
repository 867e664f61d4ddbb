----------------------------- MODULE Bus_proofs -----------------------------
(***************************************************************************)
(* Proofs about BusConnection for any number of drives, any PDO            *)
(* configuration and any losses of power: a drive in OP is the configured  *)
(* one with the configured mapping, it is sent no command of before a loss *)
(* until the bus is served, and the bookkeeping of an attempt is sound.  BusInv is   *)
(* the inductive invariant.                                                *)
(*                                                                         *)
(* Proofs about IoStation, the CPX-AP-I-EC station on that bus, for any    *)
(* catalog of modules, configuration and width of a byte: outputs and      *)
(* inputs arrive at the channel they are meant for, and the answer to an   *)
(* output request tells what happened.  StationInv is the inductive        *)
(* invariant.  The powers of two, the sums behind the offsets and the      *)
(* items of a request are recursive functions; that they exist, and what   *)
(* they compute, is proved by induction over a set (SetInduction).         *)
(***************************************************************************)
EXTENDS BusConnection, IoStation, FiniteSetTheorems, SequenceTheorems, WellFoundedInduction,
        TLAPS

\* What connect() has established for a drive that it mapped.
Checked(s) ==
  /\ dev[s].product = config.product[s]
  /\ \A x \in Dirs : Active(dev[s], x) = Mapping[x]

\* A drive exchanges process data only with an address, a mapping that was
\* checked and sync parameters; all of that goes with its power.
DrivesFit ==
  \A s \in Slaves :
    /\ dev[s].state = "off" => ~dev[s].addressed /\ ~dev[s].mapped
    /\ dev[s].mapped => Checked(s)
    /\ dev[s].state \in {"safeop", "op"} => dev[s].mapped /\ dev[s].sync = config.sync

\* connect() goes through the drives in order; those behind it that have kept
\* their address are checked and their outputs are reset.
ConnectingFits ==
  /\ pc.at \in {"identify", "write", "read", "map"} => \A s \in Slaves : ~dev[s].mapped
  /\ pc.at \in {"write", "read"} /\ dev[pc.slave].addressed
       => dev[pc.slave].product = config.product[pc.slave]
  /\ \A s \in Slaves :
       \/ pc.at = "map"
       \/ pc.at \in {"identify", "write", "read"} /\ s < pc.slave
       => (dev[s].addressed => Checked(s)) /\ rx[s].word = "zero"

\* From the restored process image on the outputs are the ones due at that
\* place, in the modes wanted.
OutputsFit ==
  \A s \in Slaves :
    /\ pc.at = "restore" => rx[s].word = "zero"
    /\ pc.at \in {"safeop", "prime", "op", "exchange", "enable", "stable", "finish"}
         => rx[s] = [word |-> WordDue, mode |-> want[s]]

\* The interface is open from discovery on, process data is counted stable in
\* its own phase only, and only a start-up enables the drives.
AttemptFits ==
  /\ handles = IF pc.at \in {"build", "create", "discover", "stopped"} THEN 0 ELSE 1
  /\ pc.at \notin {"stable", "finish"} => stable = 0
  /\ pc.at = "stable" => stable < StableCycles
  /\ pc.at \in {"exchange", "enable"} => Starting
  /\ pc.at = "stable" => ~Starting
  /\ pc.at = "enable" => pc.write \in 1..5

BusInv ==
  /\ TypeOK /\ DrivesFit /\ ConnectingFits /\ OutputsFit /\ AttemptFits
  /\ NoOldCommand /\ CauseFitsStage
-----------------------------------------------------------------------------
(* The constants and the operators                                         *)

\* The drives are numbered from 1 in bus order.
LEMMA SlaveOrder ==
  /\ Slaves \subseteq Nat /\ 1 \in Slaves /\ \A t \in Slaves : t >= 1
  /\ \A s \in Slaves : s + 1 \notin Slaves => \A t \in Slaves : t <= s
<1>1. Cardinality(Slaves) \in Nat BY SlavesAssumption, FS_CardinalityType
<1>2. PICK n \in Nat : n = Cardinality(Slaves) BY <1>1
<1>3. Slaves = 1..n BY <1>2, SlavesAssumption
<1>4. n >= 1 BY <1>3, SlavesAssumption
<1> QED BY <1>3, <1>4

LEMMA MappingTypes ==
  ASSUME NEW x \in Dirs
  PROVE  /\ Mapping[x] \in Seq(Entry) /\ OtherMapping[x] \in Seq(Entry)
         /\ Len(Mapping[x]) \in Nat \ {0}
         /\ DOMAIN Mapping[x] = 1..Len(Mapping[x])
<1>1. Mapping[x] \in Seq(Entry) /\ OtherMapping[x] \in Seq(Entry) /\ Len(Mapping[x]) > 0
  BY MappingAssumption
<1> QED BY <1>1

\* The writes of a mapping: what may be written to each field of a PDO.
OkWrites(x) ==
  [dir : {x}, field : {"assigned"}, index : {0}, value : {0, 1}]
    \cup [dir : {x}, field : {"count"}, index : {0}, value : 0..Len(Mapping[x])]
    \cup [dir : {x}, field : {"entry"}, index : 1..Len(Mapping[x]), value : Entry]
    \cup [dir : {x}, field : {"pointer"}, index : {0}, value : {"ours"}]

LEMMA MappingWritesType ==
  ASSUME NEW x \in Dirs
  PROVE  /\ MappingWrites(x) \in Seq(OkWrites(x))
         /\ Len(MappingWrites(x)) = Len(Mapping[x]) + 5
<1> DEFINE W(f, k, v) == [dir |-> x, field |-> f, index |-> k, value |-> v]
           n == Len(Mapping[x])
           A == <<W("assigned", 0, 0), W("count", 0, 0)>>
           B == [k \in 1..n |-> W("entry", k, Mapping[x][k])]
           C == <<W("count", 0, n), W("pointer", 0, "ours"), W("assigned", 0, 1)>>
<1>1. n \in Nat BY MappingTypes
<1>2. /\ W("assigned", 0, 0) \in OkWrites(x) /\ W("assigned", 0, 1) \in OkWrites(x)
      /\ W("count", 0, 0) \in OkWrites(x) /\ W("count", 0, n) \in OkWrites(x)
      /\ W("pointer", 0, "ours") \in OkWrites(x)
  BY <1>1 DEF OkWrites
<1>3. ASSUME NEW k \in 1..n PROVE W("entry", k, Mapping[x][k]) \in OkWrites(x)
  <2>1. Mapping[x][k] \in Entry BY MappingTypes
  <2> QED BY <2>1 DEF OkWrites
<1> HIDE DEF W
<1>4. A \in Seq(OkWrites(x)) /\ Len(A) = 2 BY <1>2
<1>5. B \in Seq(OkWrites(x)) /\ Len(B) = n BY <1>1, <1>3
<1>6. C \in Seq(OkWrites(x)) /\ Len(C) = 3 BY <1>2
<1>7. MappingWrites(x) = A \o B \o C BY DEF MappingWrites, W
<1> HIDE DEF A, B, C
<1> DEFINE S == OkWrites(x)
           D == A \o B
<1> HIDE DEF S, n
<1>8. D \in Seq(S) /\ Len(D) = Len(A) + Len(B)
  BY <1>4, <1>5, ConcatProperties DEF S
<1> HIDE DEF D
<1>9. D \o C \in Seq(S) /\ Len(D \o C) = Len(D) + Len(C)
  BY <1>6, <1>8, ConcatProperties DEF S
<1>10. Len(D \o C) = n + 5 BY <1>1, <1>4, <1>5, <1>6, <1>8, <1>9
<1> QED BY <1>7, <1>9, <1>10 DEF S, D, n

LEMMA WritesType ==
  /\ Len(Writes) = Len(Mapping["rx"]) + Len(Mapping["tx"]) + 10
  /\ \A k \in 1..Len(Writes) : Writes[k] \in OkWrites("rx") \cup OkWrites("tx")
<1> DEFINE R == OkWrites("rx") \cup OkWrites("tx")
<1>1. /\ MappingWrites("rx") \in Seq(R) /\ Len(MappingWrites("rx")) = Len(Mapping["rx"]) + 5
      /\ MappingWrites("tx") \in Seq(R) /\ Len(MappingWrites("tx")) = Len(Mapping["tx"]) + 5
  <2>1. /\ MappingWrites("rx") \in Seq(OkWrites("rx"))
        /\ MappingWrites("tx") \in Seq(OkWrites("tx"))
        /\ Len(MappingWrites("rx")) = Len(Mapping["rx"]) + 5
        /\ Len(MappingWrites("tx")) = Len(Mapping["tx"]) + 5
    BY MappingWritesType DEF Dirs
  <2> QED BY <2>1
<1> HIDE DEF R
<1>2. Writes \in Seq(R) /\ Len(Writes) = Len(MappingWrites("rx")) + Len(MappingWrites("tx"))
  BY <1>1, ConcatProperties DEF Writes
<1>3. Len(Mapping["rx"]) \in Nat /\ Len(Mapping["tx"]) \in Nat
  BY MappingTypes DEF Dirs
<1>4. Len(Writes) = Len(Mapping["rx"]) + Len(Mapping["tx"]) + 10
  <2> DEFINE n == Len(Mapping["rx"])
             m == Len(Mapping["tx"])
  <2>1. Len(Writes) = (n + 5) + (m + 5) BY <1>1, <1>2
  <2>2. n \in Nat /\ m \in Nat BY <1>3
  <2> HIDE DEF n, m
  <2>3. Len(Writes) = n + m + 10 BY <2>1, <2>2
  <2> QED BY <2>3 DEF n, m
<1>5. \A k \in 1..Len(Writes) : Writes[k] \in R BY <1>2
<1> QED BY <1>4, <1>5 DEF R

\* A write changes nothing of a drive but the PDO, and keeps it well-formed.
LEMMA WriteKeeps ==
  ASSUME NEW x \in Dirs, NEW w \in OkWrites(x), NEW p \in Pdos, PdoFits(p, x)
  PROVE  WithWrite(p, w) \in Pdos /\ PdoFits(WithWrite(p, w), x)
<1>1. Len(Mapping[x]) \in Nat BY MappingTypes
<1>2. CASE w.field = "assigned"
  <2>1. w.value \in {0, 1} BY <1>2 DEF OkWrites
  <2>2. WithWrite(p, w) = [p EXCEPT !.assigned = w.value] BY <1>2 DEF WithWrite
  <2> QED BY <2>1, <2>2 DEF Pdos, PdoFits
<1>3. CASE w.field = "count"
  <2>1. w.value \in 0..Len(Mapping[x]) BY <1>3 DEF OkWrites
  <2>2. WithWrite(p, w) = [p EXCEPT !.count = w.value] BY <1>3 DEF WithWrite
  <2> QED BY <1>1, <2>1, <2>2 DEF Pdos, PdoFits
<1>4. CASE w.field = "entry"
  <2>1. w.index \in 1..Len(Mapping[x]) /\ w.value \in Entry BY <1>4 DEF OkWrites
  <2>2. WithWrite(p, w) = [p EXCEPT !.entry = [p.entry EXCEPT ![w.index] = w.value]]
    BY <1>4 DEF WithWrite
  <2>3. p.entry \in Seq(Entry) /\ Len(p.entry) = Len(Mapping[x]) BY DEF Pdos, PdoFits
  <2> DEFINE e == [p.entry EXCEPT ![w.index] = w.value]
  <2>4. e \in Seq(Entry) /\ Len(e) = Len(p.entry) BY <2>1, <2>3, ExceptSeq
  <2> HIDE DEF e
  <2>5. WithWrite(p, w) = [p EXCEPT !.entry = e] BY <2>2 DEF e
  <2> QED BY <2>3, <2>4, <2>5 DEF Pdos, PdoFits
<1>5. CASE w.field = "pointer"
  <2>1. w.value = "ours" BY <1>5 DEF OkWrites
  <2>2. WithWrite(p, w) = [p EXCEPT !.pointer = w.value] BY <1>5 DEF WithWrite
  <2> QED BY <2>1, <2>2 DEF Pdos, PdoFits
<1> QED BY <1>2, <1>3, <1>4, <1>5 DEF OkWrites

DriveFits(d) == d \in Drives /\ \A x \in Dirs : PdoFits(d.pdo[x], x)

\* Everything of a drive but its PDOs.
SameBut(d, e) ==
  /\ d.product = e.product /\ d.firmware = e.firmware /\ d.state = e.state
  /\ d.addressed = e.addressed /\ d.mapped = e.mapped /\ d.sync = e.sync
  /\ d.frame = e.frame

LEMMA TakenKeeps ==
  ASSUME NEW d, DriveFits(d), NEW w \in OkWrites("rx") \cup OkWrites("tx")
  PROVE  DriveFits(Taken(d, w)) /\ SameBut(Taken(d, w), d)
<1>1. CASE Taken(d, w) = d BY <1>1 DEF SameBut
<1>2. CASE Taken(d, w) # d
  <2>1. PICK x \in Dirs : w \in OkWrites(x) BY DEF Dirs
  <2>2. w.dir = x BY <2>1 DEF OkWrites
  <2>3. d \in Drives /\ d.pdo[x] \in Pdos /\ PdoFits(d.pdo[x], x) /\ d.pdo \in [Dirs -> Pdos]
    BY <2>1 DEF DriveFits, Drives
  <2> DEFINE q == WithWrite(d.pdo[x], w)
             r == [d.pdo EXCEPT ![x] = q]
  <2>4. q \in Pdos /\ PdoFits(q, x) BY <2>1, <2>3, WriteKeeps
  <2>5. Taken(d, w) = [d EXCEPT !.pdo = r] BY <1>2, <2>2 DEF Taken
  <2> HIDE DEF q
  <2>6. r \in [Dirs -> Pdos] /\ \A y \in Dirs : PdoFits(r[y], y)
    <3>1. r \in [Dirs -> Pdos] BY <2>3, <2>4
    <3>2. \A y \in Dirs : r[y] = IF y = x THEN q ELSE d.pdo[y] BY <2>3
    <3> QED BY <2>4, <3>1, <3>2 DEF DriveFits
  <2> HIDE DEF r
  <2>7. Taken(d, w) \in Drives /\ Taken(d, w).pdo = r BY <2>3, <2>5, <2>6 DEF Drives
  <2>8. SameBut(Taken(d, w), d) BY <2>3, <2>5 DEF SameBut, Drives
  <2> QED BY <2>6, <2>7, <2>8 DEF DriveFits
<1> QED BY <1>1, <1>2

\* What a drive exchanges is a matter of its PDOs.
LEMMA ActiveIsPdo ==
  ASSUME NEW d, NEW e, d.pdo = e.pdo, NEW x
  PROVE  Active(d, x) = Active(e, x)
BY DEF Active

LEMMA DriveType ==
  ASSUME NEW p \in Products, NEW f \in Firmwares
  PROVE  /\ DriveFits(Drive(p, f))
         /\ Drive(p, f).state = "init" /\ ~Drive(p, f).addressed /\ ~Drive(p, f).mapped
<1>1. ASSUME NEW x \in Dirs PROVE DefaultPdo(x) \in Pdos /\ PdoFits(DefaultPdo(x), x)
  <2> DEFINE n == Len(Mapping[x])
             e == [k \in 1..n |-> [object |-> "none", bits |-> 0]]
  <2>1. n \in Nat BY MappingTypes
  <2>2. [object |-> "none", bits |-> 0] \in Entry
    BY DEF Entry, Padding
  <2>3. e \in Seq(Entry) /\ Len(e) = n BY <2>1, <2>2
  <2>4. DefaultPdo(x) = [assigned |-> 1, pointer |-> "other", count |-> 0, entry |-> e]
    BY DEF DefaultPdo
  <2> HIDE DEF e
  <2> QED BY <2>1, <2>3, <2>4 DEF Pdos, PdoFits
<1> DEFINE r == [x \in Dirs |-> DefaultPdo(x)]
<1>2. r \in [Dirs -> Pdos] /\ \A x \in Dirs : PdoFits(r[x], x) BY <1>1
<1> HIDE DEF r
<1>3. Drive(p, f) = [product |-> p, firmware |-> f, state |-> "init", addressed |-> FALSE,
                     mapped |-> FALSE, sync |-> FALSE, frame |-> NoFrame, pdo |-> r]
  BY DEF Drive, r
<1>4. NoFrame \in [word : {"none"} \cup Words, mode : Modes]
  BY ParametersAssumption DEF NoFrame
<1>5. Drive(p, f) \in Drives /\ Drive(p, f).pdo = r
  BY <1>2, <1>3, <1>4 DEF Drives, DriveStates
<1> QED BY <1>2, <1>3, <1>5 DEF DriveFits
-----------------------------------------------------------------------------
(* Types                                                                   *)

DevType == dev \in [Slaves -> Drives] /\ \A s \in Slaves : DriveFits(dev[s])

PcType ==
  pc \in [at : Places, slave : Slaves,
         write : 1..(Len(Mapping["rx"]) + Len(Mapping["tx"]) + 10)]

FailureType == failure = NoFailure \/ failure.cause \in DOMAIN StagesOfCauses

RxType == rx \in [Slaves -> [word : Words, mode : Modes]]

OtherTypes ==
  /\ config \in [product : Configured, sync : BOOLEAN]
  /\ kind \in Kinds /\ expired \in BOOLEAN /\ stable \in 0..StableCycles
  /\ handles \in Nat
  /\ want \in [Slaves -> Modes] /\ losses \in 0..MaxLosses

LEMMA TypeParts ==
  TypeOK <=> DevType /\ PcType /\ FailureType /\ RxType /\ OtherTypes
BY DEF TypeOK, DevType, PcType, FailureType, RxType, OtherTypes, DriveFits

LEMMA TypePartsPrime ==
  TypeOK' <=> DevType' /\ PcType' /\ FailureType' /\ RxType' /\ OtherTypes'
BY TypeParts, PTL

LEMMA WriteRange ==
  LET n == Len(Mapping["rx"]) + Len(Mapping["tx"]) + 10
  IN n \in Nat /\ 1 \in 1..n /\ Len(Writes) = n
<1> DEFINE a == Len(Mapping["rx"])
           b == Len(Mapping["tx"])
<1>1. a \in Nat /\ b \in Nat BY MappingTypes DEF Dirs
<1>2. Len(Writes) = a + b + 10 BY WritesType
<1> HIDE DEF a, b
<1>3. a + b + 10 \in Nat /\ 1 \in 1..(a + b + 10) /\ Len(Writes) = a + b + 10
  BY <1>1, <1>2
<1> QED BY <1>3 DEF a, b

\* The bound of pc.write holds the start-up's five control words as well.
WriteCount == Len(Mapping["rx"]) + Len(Mapping["tx"]) + 10

LEMMA WriteCountBound == WriteCount \in Nat /\ WriteCount >= 10
<1> DEFINE a == Len(Mapping["rx"])
           b == Len(Mapping["tx"])
<1>1. a \in Nat /\ b \in Nat BY MappingTypes DEF Dirs
<1>2. WriteCount = a + b + 10 BY DEF WriteCount
<1> HIDE DEF a, b
<1> QED BY <1>1, <1>2

LEMMA GoToType ==
  ASSUME NEW place \in Places, GoTo(place)
  PROVE  PcType' /\ pc'.at = place
BY WriteRange, SlaveOrder DEF GoTo, PcType

LEMMA RecordedFits ==
  ASSUME NEW e \in Errors
  PROVE  /\ Recorded(e).cause \in DOMAIN StagesOfCauses
         /\ StagesOfCauses[Recorded(e).cause] = Recorded(e).stage
<1> DEFINE c == CauseOf(Stage(e), e)
<1>1. Recorded(e).cause = c /\ Recorded(e).stage = Stage(e) BY DEF Recorded
<1>2. \/ Stage(e) = "device_model_build" /\ e \in {"layout", "catalog", "value", "other"}
      \/ Stage(e) = "runtime_creation" /\ e = "other"
      \/ Stage(e) = "bus_connection" /\ e \in {"identity", "other"}
      \/ Stage(e) = "device_initialization" /\ e \in {"parameter", "value", "other"}
  BY DEF Stage, Errors, At, Connecting
<1>3. c \in DOMAIN StagesOfCauses /\ StagesOfCauses[c] = Stage(e)
  <2>1. CASE Stage(e) = "device_model_build" /\ e \in {"layout", "catalog", "value", "other"}
    BY <2>1 DEF CauseOf, StagesOfCauses
  <2>2. CASE Stage(e) = "runtime_creation" /\ e = "other"
    BY <2>2 DEF CauseOf, StagesOfCauses
  <2>3. CASE Stage(e) = "bus_connection" /\ e \in {"identity", "other"}
    BY <2>3 DEF CauseOf, StagesOfCauses
  <2>4. CASE Stage(e) = "device_initialization" /\ e \in {"parameter", "value", "other"}
    BY <2>4 DEF CauseOf, StagesOfCauses
  <2> QED BY <1>2, <2>1, <2>2, <2>3, <2>4
<1> QED BY <1>1, <1>3
-----------------------------------------------------------------------------
(* What may happen to the drives                                           *)

\* A check of a drive stands while its product and its PDOs do.
LEMMA CheckStands ==
  ASSUME UNCHANGED config, NEW s \in Slaves, Checked(s),
         dev'[s].product = dev[s].product, dev'[s].pdo = dev[s].pdo
  PROVE  Checked(s)'
<1>1. \A x \in Dirs : Active(dev'[s], x) = Active(dev[s], x) BY ActiveIsPdo
<1> QED BY <1>1 DEF Checked

\* Process data gives a drive its outputs and nothing else.
LEMMA GivenKeeps ==
  ASSUME TypeOK, NEW s \in Slaves, NEW o \in [word : Words, mode : Modes]
  PROVE  LET d == dev[s]
             e == Given(s, o)
         IN /\ DriveFits(e) /\ e.pdo = d.pdo /\ e.product = d.product
            /\ e.state = d.state /\ e.addressed = d.addressed
            /\ e.mapped = d.mapped /\ e.sync = d.sync
            /\ d.state \in {"safeop", "op"} => e.frame = o
<1>1. DriveFits(dev[s]) BY TypeParts DEF DevType
<1>2. o \in [word : {"none"} \cup Words, mode : Modes] OBVIOUS
<1>3. CASE dev[s].state \in {"safeop", "op"}
  <2>1. Given(s, o) = [dev[s] EXCEPT !.frame = o] BY <1>3 DEF Given
  <2> QED BY <1>1, <1>2, <2>1 DEF DriveFits, Drives
<1>4. CASE dev[s].state \notin {"safeop", "op"}
  <2>1. Given(s, o) = dev[s] BY <1>4 DEF Given
  <2> QED BY <1>1, <1>4, <2>1
<1> QED BY <1>3, <1>4

LEMMA ExchangedKeeps ==
  ASSUME TypeOK, NEW s \in Slaves
  PROVE  LET d == dev[s]
             e == Exchanged(s)
         IN /\ DriveFits(e) /\ e.pdo = d.pdo /\ e.product = d.product
            /\ e.state = d.state /\ e.addressed = d.addressed
            /\ e.mapped = d.mapped /\ e.sync = d.sync
            /\ d.state \in {"safeop", "op"} => e.frame = rx[s]
<1>1. rx[s] \in [word : Words, mode : Modes] BY TypeParts DEF RxType
<1> QED BY <1>1, GivenKeeps DEF Exchanged

LEMMA GivenStep ==
  ASSUME BusInv, UNCHANGED config, NEW outputs \in [Slaves -> [word : Words, mode : Modes]],
         dev' = [s \in Slaves |-> Given(s, outputs[s])]
  PROVE  DevType' /\ DrivesFit'
<1>1. TypeOK /\ DrivesFit BY DEF BusInv
<1>2. ASSUME NEW s \in Slaves
      PROVE  /\ DriveFits(dev'[s])
             /\ dev'[s].pdo = dev[s].pdo /\ dev'[s].product = dev[s].product
             /\ dev'[s].state = dev[s].state /\ dev'[s].addressed = dev[s].addressed
             /\ dev'[s].mapped = dev[s].mapped /\ dev'[s].sync = dev[s].sync
  <2>1. dev'[s] = Given(s, outputs[s]) /\ outputs[s] \in [word : Words, mode : Modes]
    OBVIOUS
  <2> QED BY <1>1, <2>1, GivenKeeps
<1>3. DevType'
  <2>1. dev' = [s \in Slaves |-> dev'[s]] OBVIOUS
  <2> QED BY <1>2, <2>1 DEF DevType, DriveFits
<1>4. DrivesFit' BY <1>1, <1>2, CheckStands DEF DrivesFit
<1> QED BY <1>3, <1>4

LEMMA ExchangeStep ==
  ASSUME BusInv, UNCHANGED config, dev' = [s \in Slaves |-> Exchanged(s)]
  PROVE  DevType' /\ DrivesFit'
<1>1. rx \in [Slaves -> [word : Words, mode : Modes]]
  BY TypeParts DEF BusInv, RxType
<1>2. dev' = [s \in Slaves |-> Given(s, rx[s])] BY DEF Exchanged
<1> QED BY <1>1, <1>2, GivenStep

\* The outputs of a command.
LEMMA CommandedType ==
  ASSUME BusInv, pc.at = "enable"
  PROVE  /\ Commanded \in [Slaves -> [word : Words, mode : Modes]]
         /\ \A s \in Slaves :
              Commanded[s] = [word |-> StartWords[pc.write], mode |-> want[s]]
<1>1. pc.write \in 1..5 BY DEF BusInv, AttemptFits
<1>2. StartWords[pc.write] \in Words BY <1>1 DEF StartWords, Words
<1>3. want \in [Slaves -> Modes] BY TypeParts DEF BusInv, OtherTypes
<1>4. ASSUME NEW s \in Slaves
      PROVE  Commanded[s] = [word |-> StartWords[pc.write], mode |-> want[s]]
  <2>1. rx[s] = [word |-> WordDue, mode |-> want[s]] BY DEF BusInv, OutputsFit
  <2>2. Commanded[s] = [rx[s] EXCEPT !.word = StartWords[pc.write]] BY DEF Commanded
  <2> QED BY <2>1, <2>2
<1>5. Commanded = [s \in Slaves |-> Commanded[s]] BY DEF Commanded
<1> QED BY <1>2, <1>3, <1>4, <1>5
-----------------------------------------------------------------------------
(* The actions                                                             *)

\* The parts of BusInv that a step away from OP, with the failure kept, has to
\* show.
LEMMA NothingSentElsewhere ==
  ASSUME BusInv, pc'.at \notin {"op", "exchange", "enable", "stable", "finish"}
  PROVE  NoOldCommand'
BY DEF NoOldCommand

LEMMA FailureKept ==
  ASSUME BusInv, failure' = failure \/ failure' = NoFailure
  PROVE  FailureType' /\ CauseFitsStage'
BY TypeParts DEF BusInv, CauseFitsStage, FailureType

LEMMA DrivesKept ==
  ASSUME BusInv, UNCHANGED <<config, dev>>
  PROVE  DevType' /\ DrivesFit'
<1>1. DevType BY TypeParts DEF BusInv
<1>2. DrivesFit BY DEF BusInv
<1>3. \A s \in Slaves : Checked(s)' <=> Checked(s) BY DEF Checked
<1>4. DrivesFit' BY <1>2, <1>3 DEF DrivesFit
<1> QED BY <1>1, <1>4 DEF DevType

\* A step to a place outside connect() and the way to OP.
LEMMA Elsewhere ==
  ASSUME BusInv,
         pc'.at \in {"build", "create", "discover", "serve", "stopped"}
  PROVE  NoOldCommand' /\ ConnectingFits' /\ OutputsFit'
BY DEF NoOldCommand, ConnectingFits, OutputsFit

LEMMA BuildsModelsKeeps == ASSUME BusInv, BuildsModels PROVE BusInv'
<1>1. PcType' /\ pc'.at = "create" /\ pc.at = "build"
  BY GoToType DEF BuildsModels, Places, At
<1>2. DevType' /\ DrivesFit' BY DrivesKept DEF BuildsModels
<1>3. FailureType' /\ CauseFitsStage' BY FailureKept DEF BuildsModels
<1>4. RxType' /\ OtherTypes' BY TypeParts DEF BusInv, RxType, OtherTypes, BuildsModels
<1>5. NoOldCommand' /\ ConnectingFits' /\ OutputsFit' BY <1>1, Elsewhere
<1>6. AttemptFits' BY <1>1 DEF BusInv, AttemptFits, BuildsModels
<1> QED BY <1>1, <1>2, <1>3, <1>4, <1>5, <1>6, TypePartsPrime DEF BusInv

LEMMA CreatesRuntimeKeeps == ASSUME BusInv, CreatesRuntime PROVE BusInv'
<1>1. PcType' /\ pc'.at = "discover" /\ pc.at = "create"
  BY GoToType DEF CreatesRuntime, Places, Connecting, At
<1>2. DevType' /\ DrivesFit' BY DrivesKept DEF CreatesRuntime
<1>3. FailureType' /\ CauseFitsStage' BY FailureKept DEF CreatesRuntime
<1>4. OtherTypes' BY TypeParts DEF BusInv, OtherTypes, CreatesRuntime
<1>5. RxType' BY ParametersAssumption DEF RxType, CreatesRuntime, FreshRx, Words
<1>6. NoOldCommand' /\ ConnectingFits' /\ OutputsFit' BY <1>1, Elsewhere
<1>7. AttemptFits' BY <1>1 DEF BusInv, AttemptFits, CreatesRuntime
<1> QED BY <1>1, <1>2, <1>3, <1>4, <1>5, <1>6, <1>7, TypePartsPrime DEF BusInv

LEMMA DiscoversKeeps == ASSUME BusInv, Discovers PROVE BusInv'
<1>1. PcType' /\ pc'.at = "identify" /\ pc.at = "discover"
  BY GoToType DEF Discovers, Places, Connecting, At
<1>2. pc'.slave = 1 BY DEF Discovers, GoTo
<1>3. DevType BY TypeParts DEF BusInv
<1>4. ASSUME NEW s \in Slaves
      PROVE  DriveFits(dev'[s]) /\ dev'[s].state = "preop" /\ ~dev'[s].mapped
  <2>1. dev'[s] = [dev[s] EXCEPT !.state = "preop", !.addressed = TRUE,
                                 !.mapped = FALSE, !.frame = NoFrame]
    BY DEF Discovers
  <2>2. NoFrame \in [word : {"none"} \cup Words, mode : Modes]
    BY ParametersAssumption DEF NoFrame
  <2>3. DriveFits(dev[s]) BY <1>3 DEF DevType
  <2> HIDE DEF NoFrame
  <2> QED BY <2>1, <2>2, <2>3 DEF DriveFits, Drives, DriveStates
<1>5. DevType'
  <2>1. dev' = [s \in Slaves |-> dev'[s]] BY DEF Discovers
  <2> QED BY <1>4, <2>1 DEF DevType, DriveFits
<1>6. DrivesFit' BY <1>4 DEF DrivesFit
<1>7. FailureType' /\ CauseFitsStage' BY FailureKept DEF Discovers
<1>8. RxType' BY TypeParts DEF BusInv, RxType, Discovers
<1>9. handles' = 1
  <2>1. handles = 0 BY <1>1 DEF BusInv, AttemptFits
  <2>2. handles' = handles + 1 BY DEF Discovers
  <2> QED BY <2>1, <2>2
<1>10. OtherTypes'
  <2>1. UNCHANGED <<config, kind, expired, stable, want, losses>> BY DEF Discovers
  <2>2. OtherTypes BY TypeParts DEF BusInv
  <2> QED BY <1>9, <2>1, <2>2 DEF OtherTypes
<1>11. ConnectingFits'
  <2>1. \A s \in Slaves : ~(s < 1) BY SlaveOrder
  <2> QED BY <1>1, <1>2, <1>4, <2>1 DEF ConnectingFits
<1>12. NoOldCommand' /\ OutputsFit' BY <1>1 DEF NoOldCommand, OutputsFit
<1>13. AttemptFits'
  <2>1. stable' = stable BY DEF Discovers
  <2> QED BY <1>1, <1>9, <2>1 DEF BusInv, AttemptFits
<1> QED BY <1>1, <1>5, <1>6, <1>7, <1>8, <1>10, <1>11, <1>12, <1>13, TypePartsPrime
        DEF BusInv

LEMMA IdentifiesKeeps == ASSUME BusInv, Identifies PROVE BusInv'
<1>1. PcType' /\ pc'.at = "write" /\ pc.at = "identify" /\ pc'.slave = pc.slave
  BY TypeParts, WriteRange DEF BusInv, PcType, Identifies, Places, Connecting, At
<1>2. DevType' /\ DrivesFit' BY DrivesKept DEF Identifies
<1>3. FailureType' /\ CauseFitsStage' BY FailureKept DEF Identifies
<1>4. RxType' /\ OtherTypes' BY TypeParts DEF BusInv, RxType, OtherTypes, Identifies
<1>5. ConnectingFits'
  <2>1. UNCHANGED <<dev, rx, config>> BY DEF Identifies
  <2>2. \A s \in Slaves : Checked(s)' <=> Checked(s) BY <2>1 DEF Checked
  <2>3. ConnectingFits BY DEF BusInv
  <2>4. pc.slave \in Slaves BY TypeParts DEF BusInv, PcType
  <2>5. dev[pc.slave].addressed => dev[pc.slave].product = config.product[pc.slave]
    <3>1. config.product[pc.slave] \in Products
      BY <2>4, TypeParts, ProductsAssumption DEF BusInv, OtherTypes
    <3> QED BY <3>1, ProductsAssumption DEF Identifies, Identities, IdentityOk, Reachable
  <2> QED BY <1>1, <2>1, <2>2, <2>3, <2>5 DEF ConnectingFits
<1>6. NoOldCommand' /\ OutputsFit' BY <1>1 DEF NoOldCommand, OutputsFit
<1>7. AttemptFits' BY <1>1 DEF BusInv, AttemptFits, Identifies
<1> QED BY <1>1, <1>2, <1>3, <1>4, <1>5, <1>6, <1>7, TypePartsPrime DEF BusInv

\* A write of the mapping, complete or not, leaves a drive that is not mapped.
LEMMA WriteStep ==
  ASSUME BusInv, pc.at = "write", UNCHANGED config,
         dev' = [dev EXCEPT ![pc.slave] = Taken(dev[pc.slave], Writes[pc.write])]
  PROVE  /\ DevType' /\ DrivesFit'
         /\ \A s \in Slaves : SameBut(dev'[s], dev[s])
         /\ \A s \in Slaves : s # pc.slave => dev'[s] = dev[s]
<1>1. pc.slave \in Slaves /\ pc.write \in 1..Len(Writes)
  BY TypeParts, WriteRange DEF BusInv, PcType
<1>2. DevType BY TypeParts DEF BusInv
<1> DEFINE e == Taken(dev[pc.slave], Writes[pc.write])
<1>3. DriveFits(e) /\ SameBut(e, dev[pc.slave])
  BY <1>1, <1>2, WritesType, TakenKeeps DEF DevType
<1> HIDE DEF e
<1>4. dev' = [dev EXCEPT ![pc.slave] = e] BY DEF e
<1>5. \A s \in Slaves : dev'[s] = IF s = pc.slave THEN e ELSE dev[s]
  BY <1>2, <1>4 DEF DevType
<1>6. DevType'
  <2>1. e \in Drives BY <1>3 DEF DriveFits
  <2>2. dev' \in [Slaves -> Drives] BY <1>2, <1>4, <2>1 DEF DevType
  <2> QED BY <1>2, <1>3, <1>5, <2>2 DEF DevType
<1>7. \A s \in Slaves : SameBut(dev'[s], dev[s]) BY <1>3, <1>5 DEF SameBut
<1>8. DrivesFit'
  <2>1. \A s \in Slaves : ~dev[s].mapped BY DEF BusInv, ConnectingFits
  <2> QED BY <1>7, <2>1 DEF BusInv, DrivesFit, SameBut
<1> QED BY <1>5, <1>6, <1>7, <1>8

LEMMA WritesMappingKeeps == ASSUME BusInv, WritesMapping PROVE BusInv'
<1>0. PcType BY TypeParts DEF BusInv
<1>1. pc.at = "write" BY DEF WritesMapping, At
<1>2. PcType' /\ pc'.at \in {"write", "read"} /\ pc'.slave = pc.slave
  <2>1. pc' = AfterWrite BY DEF WritesMapping
  <2>2. CASE pc.write = Len(Writes)
    <3>1. pc' = [pc EXCEPT !.at = "read"] BY <2>1, <2>2 DEF AfterWrite
    <3> QED BY <1>0, <3>1 DEF PcType, Places, Connecting
  <2>3. CASE pc.write # Len(Writes)
    <3>1. pc' = [pc EXCEPT !.write = pc.write + 1] BY <2>1, <2>3 DEF AfterWrite
    <3> DEFINE n == Len(Mapping["rx"]) + Len(Mapping["tx"]) + 10
    <3>2. n \in Nat /\ Len(Writes) = n BY WriteRange
    <3>3. pc \in [at : Places, slave : Slaves, write : 1..n] BY <1>0 DEF PcType
    <3> HIDE DEF n
    <3>4. pc.write + 1 \in 1..n BY <2>3, <3>2, <3>3
    <3>5. /\ pc' \in [at : Places, slave : Slaves, write : 1..n]
          /\ pc'.at = pc.at /\ pc'.slave = pc.slave
      BY <3>1, <3>3, <3>4
    <3> QED BY <1>1, <3>5 DEF PcType, n
  <2> QED BY <2>2, <2>3
<1>3. dev' = [dev EXCEPT ![pc.slave] = Taken(dev[pc.slave], Writes[pc.write])]
  BY DEF WritesMapping
<1>4. UNCHANGED <<config, kind, expired, stable, handles, failure, rx, want, losses>>
  BY DEF WritesMapping
<1>5. /\ DevType' /\ DrivesFit'
      /\ \A s \in Slaves : SameBut(dev'[s], dev[s])
      /\ \A s \in Slaves : s # pc.slave => dev'[s] = dev[s]
  BY <1>1, <1>3, <1>4, WriteStep
<1>6. FailureType' /\ CauseFitsStage' BY <1>4, FailureKept
<1>7. RxType' /\ OtherTypes' BY <1>4, TypeParts DEF BusInv, RxType, OtherTypes
<1>8. ConnectingFits'
  <2>1. ConnectingFits BY DEF BusInv
  <2>2. pc.slave \in Slaves BY <1>0 DEF PcType
  <2>3. \A s \in Slaves : ~dev'[s].mapped BY <1>1, <1>5, <2>1 DEF ConnectingFits, SameBut
  <2>4. dev'[pc.slave].addressed => dev'[pc.slave].product = config.product[pc.slave]
    BY <1>1, <1>5, <2>1, <2>2 DEF ConnectingFits, SameBut
  <2>5. ASSUME NEW s \in Slaves, s < pc.slave
        PROVE  (dev'[s].addressed => Checked(s)') /\ rx'[s].word = "zero"
    <3>1. s # pc.slave BY <2>2, <2>5, SlaveOrder
    <3>2. dev'[s] = dev[s] BY <1>5, <3>1
    <3>3. (dev[s].addressed => Checked(s)) /\ rx[s].word = "zero"
      BY <1>1, <2>1, <2>5 DEF ConnectingFits
    <3>4. Checked(s) => Checked(s)' BY <1>4, <3>2 DEF Checked
    <3> QED BY <1>4, <3>2, <3>3, <3>4
  <2> QED BY <1>2, <1>4, <2>3, <2>4, <2>5 DEF ConnectingFits
<1>9. NoOldCommand' /\ OutputsFit' BY <1>2 DEF NoOldCommand, OutputsFit
<1>10. AttemptFits' BY <1>1, <1>2, <1>4 DEF BusInv, AttemptFits
<1> QED BY <1>2, <1>5, <1>6, <1>7, <1>8, <1>9, <1>10, TypePartsPrime DEF BusInv

\* What is read back as it was configured is what the drive exchanges: no drive
\* reports an entry of its own under another index without being noticed.
LEMMA ReadBackIsActive ==
  ASSUME TypeOK, NEW s \in Slaves, NEW x \in Dirs, Selectable(s, x)
  PROVE  Active(dev[s], x) = Mapping[x]
<1> DEFINE a == Active(dev[s], x)
           r == Reported(dev[s], a)
<1>1. r = Mapping[x] BY DEF Selectable, Actual
<1>2. Mapping[x] \in Seq(Entry) /\ DOMAIN Mapping[x] = 1..Len(Mapping[x]) BY MappingTypes
<1>3. DriveFits(dev[s]) BY TypeParts DEF DevType
<1>4. a \in Seq(Entry)
  <2>1. dev[s].pdo[x] \in Pdos /\ PdoFits(dev[s].pdo[x], x)
    BY <1>3 DEF DriveFits, Drives
  <2> DEFINE p == dev[s].pdo[x]
  <2>2. CASE p.assigned = 0
    <3>1. <<>> \in Seq(Entry) OBVIOUS
    <3> QED BY <2>2, <3>1 DEF Active
  <2>3. CASE p.assigned # 0 /\ p.pointer = "other"
    BY <2>3, MappingTypes DEF Active
  <2>4. CASE p.assigned # 0 /\ p.pointer # "other"
    <3>1. a = [k \in 1..p.count |-> p.entry[k]] BY <2>4 DEF Active
    <3>2. p.entry \in Seq(Entry) /\ p.count \in Nat /\ p.count <= Len(p.entry)
      BY <2>1 DEF Pdos, PdoFits
    <3> HIDE DEF p, a
    <3>3. \A k \in 1..p.count : p.entry[k] \in Entry BY <3>2
    <3> QED BY <3>1, <3>2, <3>3
  <2> QED BY <2>2, <2>3, <2>4
<1>5. DOMAIN r = DOMAIN a BY DEF Reported
<1>6. ASSUME NEW k \in DOMAIN a PROVE a[k] = Mapping[x][k]
  <2>1. r[k] = IF a[k].object = "none" /\ dev[s].firmware = "renames"
               THEN [a[k] EXCEPT !.object = "dummy"] ELSE a[k]
    BY <1>6 DEF Reported
  <2>2. a[k] \in Entry BY <1>4
  <2>3. r[k].object # "dummy" BY <1>1, <1>5, MappingAssumption
  <2>4. r[k] = a[k] BY <2>1, <2>2, <2>3 DEF Entry
  <2> QED BY <1>1, <2>4
<1> HIDE DEF a, r
<1>7. a = Mapping[x]
  <2>1. DOMAIN a = DOMAIN Mapping[x] BY <1>1, <1>5
  <2>2. a = [k \in DOMAIN a |-> a[k]] BY <1>4
  <2>3. Mapping[x] = [k \in DOMAIN Mapping[x] |-> Mapping[x][k]] BY <1>2
  <2> QED BY <1>6, <2>1, <2>2, <2>3
<1> QED BY <1>7 DEF a

LEMMA ReadsBackKeeps == ASSUME BusInv, ReadsBack PROVE BusInv'
<1>0. TypeOK /\ PcType /\ pc.slave \in Slaves BY TypeParts DEF BusInv, PcType
<1>1. pc.at = "read" BY DEF ReadsBack, At
<1>2. UNCHANGED <<config, kind, expired, stable, handles, failure, dev, want, losses>>
  BY DEF ReadsBack
<1>3. rx' = [rx EXCEPT ![pc.slave] = FreshRx] BY DEF ReadsBack, Selected
<1>4. RxType' /\ rx'[pc.slave].word = "zero"
      /\ \A s \in Slaves : s # pc.slave => rx'[s] = rx[s]
  <2>1. RxType BY <1>0, TypeParts
  <2>2. FreshRx \in [word : Words, mode : Modes] /\ FreshRx.word = "zero"
    BY ParametersAssumption DEF FreshRx, Words
  <2> HIDE DEF FreshRx
  <2> QED BY <1>0, <1>3, <2>1, <2>2 DEF RxType
<1>5. DevType' /\ DrivesFit' BY <1>2, DrivesKept
<1>6. FailureType' /\ CauseFitsStage' BY <1>2, FailureKept
<1>7. OtherTypes' BY <1>2, TypeParts DEF BusInv, OtherTypes
<1>8. dev[pc.slave].addressed => Checked(pc.slave)
  <2>1. \A x \in Dirs : Selectable(pc.slave, x) BY DEF ReadsBack
  <2>2. \A x \in Dirs : Active(dev[pc.slave], x) = Mapping[x]
    BY <1>0, <2>1, ReadBackIsActive
  <2>3. dev[pc.slave].addressed => dev[pc.slave].product = config.product[pc.slave]
    BY <1>1 DEF BusInv, ConnectingFits
  <2> QED BY <2>2, <2>3 DEF Checked
<1>9. \A s \in Slaves : s <= pc.slave =>
        (dev'[s].addressed => Checked(s)') /\ rx'[s].word = "zero"
  <2> SUFFICES ASSUME NEW s \in Slaves, s <= pc.slave
               PROVE  (dev'[s].addressed => Checked(s)') /\ rx'[s].word = "zero"
    OBVIOUS
  <2>1. Checked(s)' <=> Checked(s) BY <1>2 DEF Checked
  <2>2. CASE s = pc.slave BY <1>2, <1>4, <1>8, <2>1, <2>2
  <2>3. CASE s # pc.slave
    <3>0. s \in Nat /\ pc.slave \in Nat BY <1>0, SlaveOrder
    <3>1. s < pc.slave BY <2>3, <3>0
    <3>2. (dev[s].addressed => Checked(s)) /\ rx[s].word = "zero"
      BY <1>1, <3>1 DEF BusInv, ConnectingFits
    <3> QED BY <1>2, <1>4, <2>1, <2>3, <3>2
  <2> QED BY <2>2, <2>3
<1>10. \A s \in Slaves : ~dev'[s].mapped BY <1>1, <1>2 DEF BusInv, ConnectingFits
<1>11. PcType' /\ ConnectingFits' /\ pc'.at \in {"identify", "map"}
  <2>1. CASE pc.slave + 1 \in Slaves
    <3>1. pc' = [at |-> "identify", slave |-> pc.slave + 1, write |-> 1]
      BY <2>1 DEF ReadsBack
    <3>2. PcType' BY <2>1, <3>1, WriteRange DEF PcType, Places, Connecting
    <3>3. \A s \in Slaves : s < pc'.slave => s <= pc.slave
      <4>1. pc.slave \in Nat /\ pc'.slave = pc.slave + 1 /\ \A s \in Slaves : s \in Nat
        BY <1>0, <3>1, SlaveOrder
      <4> QED BY <4>1
    <3>4. pc'.at = "identify" BY <3>1
    <3> QED BY <1>9, <1>10, <3>2, <3>3, <3>4 DEF ConnectingFits
  <2>2. CASE pc.slave + 1 \notin Slaves
    <3>1. GoTo("map") BY <2>2 DEF ReadsBack
    <3>2. PcType' /\ pc'.at = "map" BY <3>1, GoToType DEF Places, Connecting
    <3>3. \A s \in Slaves : s <= pc.slave BY <1>0, <2>2, SlaveOrder
    <3> QED BY <1>9, <1>10, <3>2, <3>3 DEF ConnectingFits
  <2> QED BY <2>1, <2>2
<1>12. NoOldCommand' /\ OutputsFit' BY <1>11 DEF NoOldCommand, OutputsFit
<1>13. AttemptFits' BY <1>1, <1>2, <1>11 DEF BusInv, AttemptFits
<1> QED BY <1>4, <1>5, <1>6, <1>7, <1>11, <1>12, <1>13, TypePartsPrime DEF BusInv

LEMMA MapsKeeps == ASSUME BusInv, Maps PROVE BusInv'
<1>1. PcType' /\ pc'.at = "restore" /\ pc.at = "map"
  BY GoToType DEF Maps, Places, At
<1>2. UNCHANGED <<config, kind, expired, stable, handles, failure, rx, want, losses>>
  BY DEF Maps
<1>3. DevType BY TypeParts DEF BusInv
<1>4. ASSUME NEW s \in Slaves
      PROVE  /\ DriveFits(dev'[s]) /\ dev'[s].state \in {"off", "preop"}
             /\ dev'[s].product = dev[s].product /\ dev'[s].pdo = dev[s].pdo
             /\ dev'[s].addressed = dev[s].addressed
             /\ dev'[s].mapped => dev[s].addressed
             /\ dev'[s].state = "off" => dev'[s] = dev[s]
  <2>1. DriveFits(dev[s]) BY <1>3 DEF DevType
  <2>2. CASE dev[s].state = "off"
    <3>1. dev'[s] = dev[s] BY <2>2 DEF Maps
    <3>2. ~dev[s].mapped BY <2>2 DEF BusInv, DrivesFit
    <3> QED BY <2>1, <2>2, <3>1, <3>2
  <2>3. CASE dev[s].state # "off"
    <3>1. dev'[s] = [dev[s] EXCEPT !.mapped = dev[s].addressed, !.state = "preop"]
      BY <2>3 DEF Maps
    <3> QED BY <2>1, <3>1 DEF DriveFits, Drives, DriveStates
  <2> QED BY <2>2, <2>3
<1>5. DevType'
  <2>1. dev' = [s \in Slaves |-> dev'[s]] BY DEF Maps
  <2> QED BY <1>4, <2>1 DEF DevType, DriveFits
<1>6. DrivesFit'
  <2> SUFFICES ASSUME NEW s \in Slaves
               PROVE  /\ dev'[s].state = "off" => ~dev'[s].addressed /\ ~dev'[s].mapped
                      /\ dev'[s].mapped => Checked(s)'
                      /\ dev'[s].state \notin {"safeop", "op"}
    BY DEF DrivesFit
  <2>1. dev[s].addressed => Checked(s) BY <1>1 DEF BusInv, ConnectingFits
  <2>2. Checked(s) => Checked(s)' BY <1>2, <1>4, CheckStands
  <2>3. dev'[s].mapped => Checked(s)' BY <1>4, <2>1, <2>2
  <2>4. dev'[s].state = "off" => ~dev'[s].addressed /\ ~dev'[s].mapped
    BY <1>4 DEF BusInv, DrivesFit
  <2> QED BY <1>4, <2>3, <2>4
<1>7. FailureType' /\ CauseFitsStage' BY <1>2, FailureKept
<1>8. RxType' /\ OtherTypes' BY <1>2, TypeParts DEF BusInv, RxType, OtherTypes
<1>9. OutputsFit' BY <1>1, <1>2 DEF BusInv, ConnectingFits, OutputsFit
<1>10. NoOldCommand' /\ ConnectingFits' BY <1>1 DEF NoOldCommand, ConnectingFits
<1>11. AttemptFits' BY <1>1, <1>2 DEF BusInv, AttemptFits
<1> QED BY <1>1, <1>5, <1>6, <1>7, <1>8, <1>9, <1>10, <1>11, TypePartsPrime DEF BusInv

LEMMA RestoresKeeps == ASSUME BusInv, Restores PROVE BusInv'
<1>1. PcType' /\ pc'.at = "safeop" /\ pc.at = "restore"
  BY GoToType DEF Restores, Places, At
<1>2. UNCHANGED <<config, kind, expired, stable, handles, failure, dev, want, losses>>
  BY DEF Restores
<1>3. RxType /\ OtherTypes BY TypeParts DEF BusInv
<1>4. ASSUME NEW s \in Slaves
      PROVE  /\ rx'[s] \in [word : Words, mode : Modes]
             /\ rx'[s] = [word |-> "zero", mode |-> want[s]]
  <2>1. rx'[s] = [rx[s] EXCEPT !.mode = want[s]] BY DEF Restores
  <2>2. rx[s].word = "zero" BY <1>1 DEF BusInv, OutputsFit
  <2>3. rx[s] \in [word : Words, mode : Modes] /\ want[s] \in Modes
    BY <1>3 DEF RxType, OtherTypes
  <2> QED BY <2>1, <2>2, <2>3
<1>5. RxType'
  <2>1. rx' = [s \in Slaves |-> rx'[s]] BY DEF Restores
  <2> QED BY <1>4, <2>1 DEF RxType
<1>6. OtherTypes' BY <1>2, <1>3 DEF OtherTypes
<1>7. OutputsFit' BY <1>1, <1>2, <1>4 DEF OutputsFit, WordDue, At
<1>8. DevType' /\ DrivesFit' BY <1>2, DrivesKept
<1>9. FailureType' /\ CauseFitsStage' BY <1>2, FailureKept
<1>10. NoOldCommand' /\ ConnectingFits' BY <1>1 DEF NoOldCommand, ConnectingFits
<1>11. AttemptFits' BY <1>1, <1>2 DEF BusInv, AttemptFits
<1> QED BY <1>1, <1>5, <1>6, <1>7, <1>8, <1>9, <1>10, <1>11, TypePartsPrime DEF BusInv

LEMMA EntersSafeOpKeeps == ASSUME BusInv, EntersSafeOp PROVE BusInv'
<1>1. PcType' /\ pc'.at = "prime" /\ pc.at = "safeop"
  BY GoToType DEF EntersSafeOp, Places, At
<1>2. UNCHANGED <<config, kind, expired, stable, handles, failure, rx, want, losses>>
  BY DEF EntersSafeOp
<1>3. DevType /\ OtherTypes BY TypeParts DEF BusInv
<1>4. ASSUME NEW s \in Slaves
      PROVE  /\ DriveFits(dev'[s])
             /\ dev'[s].product = dev[s].product /\ dev'[s].pdo = dev[s].pdo
             /\ dev'[s].addressed = dev[s].addressed /\ dev'[s].mapped = dev[s].mapped
             /\ dev[s].mapped => dev'[s].state = "safeop" /\ dev'[s].sync = config.sync
             /\ ~dev[s].mapped => dev'[s] = dev[s]
  <2>1. DriveFits(dev[s]) BY <1>3 DEF DevType
  <2>2. CASE ~dev[s].mapped
    <3>1. dev'[s] = dev[s] BY <2>2 DEF EntersSafeOp
    <3> QED BY <2>1, <2>2, <3>1
  <2>3. CASE dev[s].mapped
    <3>1. dev'[s] = [[dev[s] EXCEPT !.sync = config.sync] EXCEPT !.state = "safeop"]
      BY <2>3 DEF EntersSafeOp, WithSync
    <3>2. config.sync \in BOOLEAN BY <1>3 DEF OtherTypes
    <3> QED BY <2>1, <2>3, <3>1, <3>2 DEF DriveFits, Drives, DriveStates
  <2> QED BY <2>2, <2>3
<1>5. DevType'
  <2>1. dev' = [s \in Slaves |-> dev'[s]] BY DEF EntersSafeOp
  <2> QED BY <1>4, <2>1 DEF DevType, DriveFits
<1>6. DrivesFit'
  <2> SUFFICES ASSUME NEW s \in Slaves
               PROVE  /\ dev'[s].state = "off" => ~dev'[s].addressed /\ ~dev'[s].mapped
                      /\ dev'[s].mapped => Checked(s)'
                      /\ dev'[s].state \in {"safeop", "op"}
                           => dev'[s].mapped /\ dev'[s].sync = config'.sync
    BY DEF DrivesFit
  <2>1. /\ dev[s].state = "off" => ~dev[s].addressed /\ ~dev[s].mapped
        /\ dev[s].mapped => Checked(s)
        /\ dev[s].state \in {"safeop", "op"} => dev[s].mapped
    BY DEF BusInv, DrivesFit
  <2>2. Checked(s) => Checked(s)' BY <1>2, <1>4, CheckStands
  <2>3. CASE dev[s].mapped BY <1>2, <1>4, <2>1, <2>2, <2>3
  <2>4. CASE ~dev[s].mapped BY <1>4, <2>1, <2>4
  <2> QED BY <2>3, <2>4
<1>7. FailureType' /\ CauseFitsStage' BY <1>2, FailureKept
<1>8. RxType' /\ OtherTypes' BY <1>2, TypeParts DEF BusInv, RxType, OtherTypes
<1>9. OutputsFit' BY <1>1, <1>2 DEF BusInv, OutputsFit, WordDue, At
<1>10. NoOldCommand' /\ ConnectingFits' BY <1>1 DEF NoOldCommand, ConnectingFits
<1>11. AttemptFits' BY <1>1, <1>2 DEF BusInv, AttemptFits
<1> QED BY <1>1, <1>5, <1>6, <1>7, <1>8, <1>9, <1>10, <1>11, TypePartsPrime DEF BusInv

\* The outputs of the way to OP reach the drives in OP.
LEMMA ExchangeIsQuiet ==
  ASSUME BusInv, dev' = [s \in Slaves |-> Exchanged(s)], UNCHANGED want,
         pc.at \in {"prime", "op", "exchange", "stable"}
  PROVE  \A s \in Slaves : dev'[s].state = "op"
           => dev'[s].frame = [word |-> "zero", mode |-> want'[s]]
<1> SUFFICES ASSUME NEW s \in Slaves, dev'[s].state = "op"
             PROVE  dev'[s].frame = [word |-> "zero", mode |-> want'[s]]
  OBVIOUS
<1>1. TypeOK BY DEF BusInv
<1>2. dev'[s] = Exchanged(s) OBVIOUS
<1>3. dev[s].state = "op" /\ dev'[s].frame = rx[s] BY <1>1, <1>2, ExchangedKeeps
<1>4. rx[s] = [word |-> "zero", mode |-> want[s]]
  BY DEF BusInv, OutputsFit, WordDue, At
<1> QED BY <1>3, <1>4

LEMMA PrimesKeeps == ASSUME BusInv, Primes PROVE BusInv'
<1>1. PcType' /\ pc'.at = "op" /\ pc.at = "prime"
  BY GoToType DEF Primes, Places, At
<1>2. UNCHANGED <<config, kind, expired, stable, handles, failure, rx, want, losses>>
  BY DEF Primes
<1>3. DevType' /\ DrivesFit' BY <1>2, ExchangeStep DEF Primes
<1>4. FailureType' /\ CauseFitsStage' BY <1>2, FailureKept
<1>5. RxType' /\ OtherTypes' BY <1>2, TypeParts DEF BusInv, RxType, OtherTypes
<1>6. OutputsFit' BY <1>1, <1>2 DEF BusInv, OutputsFit, WordDue, At
<1>7. NoOldCommand'
  BY <1>1, <1>2, ExchangeIsQuiet DEF NoOldCommand, WordDue, At, Primes
<1>8. ConnectingFits' BY <1>1 DEF ConnectingFits
<1>9. AttemptFits' BY <1>1, <1>2 DEF BusInv, AttemptFits
<1> QED BY <1>1, <1>3, <1>4, <1>5, <1>6, <1>7, <1>8, <1>9, TypePartsPrime DEF BusInv

LEMMA GoesOperationalKeeps ==
  ASSUME BusInv, NEW s \in Slaves, GoesOperational(s) PROVE BusInv'
<1>1. pc.at = "op" /\ dev[s].state = "safeop" BY DEF GoesOperational, At
<1>2. UNCHANGED <<config, pc, kind, expired, stable, handles, failure, rx, want, losses>>
  BY DEF GoesOperational
<1>3. TypeOK /\ DevType /\ DrivesFit BY TypeParts DEF BusInv
<1> DEFINE d == Exchanged(s)
           e == [d EXCEPT !.state = "op"]
<1>4. /\ DriveFits(d) /\ d.pdo = dev[s].pdo /\ d.product = dev[s].product
      /\ d.mapped = dev[s].mapped /\ d.sync = dev[s].sync /\ d.frame = rx[s]
  BY <1>1, <1>3, ExchangedKeeps
<1> HIDE DEF d
<1>5. /\ DriveFits(e) /\ e.pdo = dev[s].pdo /\ e.product = dev[s].product
      /\ e.mapped = dev[s].mapped /\ e.sync = dev[s].sync /\ e.frame = rx[s]
      /\ e.state = "op"
  BY <1>4 DEF DriveFits, Drives, DriveStates
<1>6. dev' = [dev EXCEPT ![s] = e] BY DEF GoesOperational, d
<1> HIDE DEF e
<1>7. dev'[s] = e /\ \A t \in Slaves : t # s => dev'[t] = dev[t]
  BY <1>3, <1>6 DEF DevType
<1>8. DevType'
  <2>1. e \in Drives BY <1>5 DEF DriveFits
  <2>2. dev' \in [Slaves -> Drives] BY <1>3, <1>6, <2>1 DEF DevType
  <2> QED BY <1>3, <1>5, <1>7, <2>2 DEF DevType
<1>9. DrivesFit'
  <2> SUFFICES ASSUME NEW t \in Slaves
               PROVE  /\ dev'[t].state = "off" => ~dev'[t].addressed /\ ~dev'[t].mapped
                      /\ dev'[t].mapped => Checked(t)'
                      /\ dev'[t].state \in {"safeop", "op"}
                           => dev'[t].mapped /\ dev'[t].sync = config'.sync
    BY DEF DrivesFit
  <2>1. /\ dev[t].state = "off" => ~dev[t].addressed /\ ~dev[t].mapped
        /\ dev[t].mapped => Checked(t)
        /\ dev[t].state \in {"safeop", "op"} => dev[t].mapped /\ dev[t].sync = config.sync
    BY <1>3 DEF DrivesFit
  <2>2. dev'[t].product = dev[t].product /\ dev'[t].pdo = dev[t].pdo BY <1>5, <1>7
  <2>3. Checked(t) => Checked(t)' BY <1>2, <2>2, CheckStands
  <2>4. CASE t = s BY <1>1, <1>2, <1>5, <1>7, <2>1, <2>3, <2>4
  <2>5. CASE t # s BY <1>2, <1>7, <2>1, <2>3, <2>5
  <2> QED BY <2>4, <2>5
<1>10. NoOldCommand'
  <2>1. rx[s] = [word |-> WordDue, mode |-> want[s]] BY <1>1 DEF BusInv, OutputsFit
  <2>2. WordDue' = WordDue BY <1>1, <1>2 DEF WordDue, At
  <2> QED BY <1>1, <1>2, <1>5, <1>7, <2>1, <2>2 DEF BusInv, NoOldCommand
<1>11. PcType' /\ RxType' /\ OtherTypes'
  BY <1>2, TypeParts DEF BusInv, PcType, RxType, OtherTypes
<1>12. FailureType' /\ CauseFitsStage' BY <1>2, FailureKept
<1>13. OutputsFit' BY <1>1, <1>2 DEF BusInv, OutputsFit, WordDue, At
<1>14. ConnectingFits' BY <1>1, <1>2 DEF ConnectingFits
<1>15. AttemptFits' BY <1>2 DEF BusInv, AttemptFits, Starting
<1> QED BY <1>8, <1>9, <1>10, <1>11, <1>12, <1>13, <1>14, <1>15, TypePartsPrime DEF BusInv

LEMMA RequestsOperationalKeeps == ASSUME BusInv, RequestsOperational PROVE BusInv'
<1>1. /\ PcType' /\ pc.at = "op"
      /\ pc'.at = IF Starting THEN "exchange" ELSE "stable"
  <2>1. CASE Starting
    <3>1. GoTo("exchange") BY <2>1 DEF RequestsOperational
    <3> QED BY <2>1, <3>1, GoToType DEF RequestsOperational, Places, At
  <2>2. CASE ~Starting
    <3>1. GoTo("stable") BY <2>2 DEF RequestsOperational
    <3> QED BY <2>2, <3>1, GoToType DEF RequestsOperational, Places, At
  <2> QED BY <2>1, <2>2
<1>2. UNCHANGED <<config, kind, expired, stable, handles, failure, dev, rx, want, losses>>
  BY DEF RequestsOperational
<1>3. DevType' /\ DrivesFit' BY <1>2, DrivesKept
<1>4. FailureType' /\ CauseFitsStage' BY <1>2, FailureKept
<1>5. RxType' /\ OtherTypes' BY <1>2, TypeParts DEF BusInv, RxType, OtherTypes
<1>6. OutputsFit' BY <1>1, <1>2 DEF BusInv, OutputsFit, WordDue, At
<1>7. NoOldCommand' BY <1>1, <1>2 DEF BusInv, NoOldCommand, WordDue, At
<1>8. ConnectingFits' BY <1>1 DEF ConnectingFits
<1>9. AttemptFits'
  <2>1. 0 < StableCycles BY ParametersAssumption
  <2> QED BY <1>1, <1>2, <2>1 DEF BusInv, AttemptFits, Starting
<1> QED BY <1>1, <1>3, <1>4, <1>5, <1>6, <1>7, <1>8, <1>9, TypePartsPrime DEF BusInv

LEMMA ExchangesKeeps == ASSUME BusInv, Exchanges PROVE BusInv'
<1>1. PcType' /\ pc.at = "exchange" /\ pc'.at = "enable" /\ pc'.write \in {1, 3}
  <2>1. 1 \in Slaves BY SlaveOrder
  <2>2. PICK first \in {1, 3} : pc' = [at |-> "enable", slave |-> 1, write |-> first]
    BY DEF Exchanges
  <2>3. 1 \in 1..WriteCount /\ 3 \in 1..WriteCount BY WriteCountBound
  <2> QED BY <2>1, <2>2, <2>3 DEF Exchanges, PcType, WriteCount, Places, At
<1>2. UNCHANGED <<config, kind, expired, stable, handles, failure, rx, want, losses>>
  BY DEF Exchanges
<1>3. DevType' /\ DrivesFit' BY <1>2, ExchangeStep DEF Exchanges
<1>4. FailureType' /\ CauseFitsStage' BY <1>2, FailureKept
<1>5. RxType' /\ OtherTypes' BY <1>2, TypeParts DEF BusInv, RxType, OtherTypes
<1>6. WordDue = "zero" /\ WordDue' = "zero" BY <1>1 DEF WordDue, At, StartWords
<1>7. OutputsFit' BY <1>1, <1>2, <1>6 DEF BusInv, OutputsFit
<1>8. NoOldCommand' BY <1>1, <1>2, <1>6, ExchangeIsQuiet DEF NoOldCommand, Exchanges
<1>9. ConnectingFits' BY <1>1 DEF ConnectingFits
<1>10. AttemptFits' BY <1>1, <1>2 DEF BusInv, AttemptFits, Starting
<1> QED BY <1>1, <1>3, <1>4, <1>5, <1>7, <1>8, <1>9, <1>10, TypePartsPrime DEF BusInv

LEMMA EnablesKeeps == ASSUME BusInv, Enables PROVE BusInv'
<1>1. pc.at = "enable" /\ PcType BY TypeParts DEF Enables, At, BusInv
<1>2. UNCHANGED <<config, kind, expired, stable, handles, failure, want, losses>>
  BY DEF Enables
<1>3. pc.write \in 1..5 /\ Starting BY <1>1 DEF BusInv, AttemptFits
<1>4. /\ PcType'
      /\ \/ pc'.at = "enable" /\ pc'.write = pc.write + 1 /\ pc'.write \in 2..5
         \/ pc'.at = "finish" /\ pc.write = 5
  <2>1. CASE pc.write < 5
    <3>1. pc' = [pc EXCEPT !.write = pc.write + 1]
      BY <2>1 DEF Enables, StartWords
    <3>2. pc.write + 1 \in 2..5 /\ pc.write + 1 \in 1..WriteCount
      BY <1>3, <2>1, WriteCountBound
    <3> QED BY <1>1, <3>1, <3>2 DEF PcType, WriteCount
  <2>2. CASE pc.write = 5
    <3>1. GoTo("finish") BY <2>2 DEF Enables, StartWords
    <3> QED BY <2>2, <3>1, GoToType DEF Places
  <2> QED BY <1>3, <2>1, <2>2
<1>5. /\ rx' = Commanded /\ Commanded \in [Slaves -> [word : Words, mode : Modes]]
      /\ \A s \in Slaves : Commanded[s] = [word |-> StartWords[pc.write], mode |-> want[s]]
      /\ dev' = [s \in Slaves |-> Given(s, Commanded[s])]
  BY <1>1, CommandedType DEF Enables
<1>6. WordDue' = StartWords[pc.write]
  BY <1>2, <1>3, <1>4 DEF WordDue, At, StartWords, Starting
<1> HIDE DEF Commanded
<1>7. DevType' /\ DrivesFit' BY <1>2, <1>5, GivenStep
<1>8. FailureType' /\ CauseFitsStage' BY <1>2, FailureKept
<1>9. RxType' /\ OtherTypes' BY <1>2, <1>5, TypeParts DEF BusInv, RxType, OtherTypes
<1>10. OutputsFit' BY <1>2, <1>4, <1>5, <1>6 DEF OutputsFit
<1>11. NoOldCommand'
  <2> SUFFICES ASSUME NEW s \in Slaves, dev'[s].state = "op"
               PROVE  dev'[s].frame = [word |-> WordDue', mode |-> want'[s]]
    BY DEF NoOldCommand
  <2>1. TypeOK BY DEF BusInv
  <2>2. dev'[s] = Given(s, Commanded[s]) /\ Commanded[s] \in [word : Words, mode : Modes]
    BY <1>5
  <2>3. dev'[s].frame = Commanded[s] BY <2>1, <2>2, GivenKeeps
  <2> QED BY <1>2, <1>5, <1>6, <2>3
<1>12. ConnectingFits' BY <1>4 DEF ConnectingFits
<1>13. AttemptFits' BY <1>1, <1>2, <1>3, <1>4 DEF BusInv, AttemptFits, Starting
<1> QED BY <1>4, <1>7, <1>8, <1>9, <1>10, <1>11, <1>12, <1>13, TypePartsPrime DEF BusInv

LEMMA SettlesKeeps == ASSUME BusInv, Settles PROVE BusInv'
<1>1. pc.at = "stable" BY DEF Settles, At
<1>2. UNCHANGED <<config, kind, expired, handles, failure, rx, want, losses>>
  BY DEF Settles
<1>3. DevType' /\ DrivesFit' BY <1>2, ExchangeStep DEF Settles
<1>4. stable' \in 0..StableCycles
  <2>1. stable \in Nat /\ stable < StableCycles /\ StableCycles \in Nat
    BY <1>1, TypeParts, ParametersAssumption DEF BusInv, AttemptFits, OtherTypes
  <2>2. stable' = stable + 1 \/ stable' = 0 BY DEF Settles
  <2> QED BY <2>1, <2>2
<1>5. PcType' /\ pc'.at \in {"stable", "finish"}
      /\ (pc'.at = "stable" => stable' # StableCycles)
  <2>1. PcType BY TypeParts DEF BusInv
  <2>2. CASE stable' = StableCycles
    <3>1. pc' = [pc EXCEPT !.at = "finish"] BY <2>2 DEF Settles
    <3> QED BY <2>1, <3>1 DEF PcType, Places
  <2>3. CASE stable' # StableCycles
    <3>1. pc' = pc BY <2>3 DEF Settles
    <3> QED BY <1>1, <2>1, <2>3, <3>1 DEF PcType
  <2> QED BY <2>2, <2>3
<1>6. FailureType' /\ CauseFitsStage' BY <1>2, FailureKept
<1>7. RxType' BY <1>2, TypeParts DEF BusInv, RxType
<1>8. OtherTypes' BY <1>2, <1>4, TypeParts DEF BusInv, OtherTypes
<1>9. WordDue = "zero" /\ WordDue' = "zero"
  BY <1>1, <1>2, <1>5 DEF BusInv, AttemptFits, WordDue, At, Starting
<1>10. OutputsFit' BY <1>1, <1>2, <1>5, <1>9 DEF BusInv, OutputsFit
<1>14. NoOldCommand' BY <1>1, <1>2, <1>9, ExchangeIsQuiet DEF NoOldCommand, Settles
<1>11. ConnectingFits' BY <1>5 DEF ConnectingFits
<1>12. AttemptFits'
  <2>1. pc'.at = "stable" => stable' < StableCycles
    BY <1>4, <1>5, ParametersAssumption
  <2> QED BY <1>1, <1>2, <1>5, <2>1 DEF BusInv, AttemptFits, Starting
<1> QED BY <1>3, <1>5, <1>6, <1>7, <1>8, <1>10, <1>11, <1>12, <1>14, TypePartsPrime
        DEF BusInv

LEMMA FinishesKeeps == ASSUME BusInv, Finishes PROVE BusInv'
<1>1. PcType' /\ pc'.at = "serve" /\ pc.at = "finish"
  BY GoToType DEF Finishes, Places, At
<1>2. DevType' /\ DrivesFit' BY DrivesKept DEF Finishes
<1>3. FailureType' /\ CauseFitsStage' BY FailureKept DEF Finishes
<1>4. RxType' BY TypeParts DEF BusInv, RxType, Finishes
<1>5. OtherTypes'
  <2>1. UNCHANGED <<config, kind, handles, want, losses>> /\ stable' = 0 /\ expired' = FALSE
    BY DEF Finishes
  <2>2. OtherTypes /\ 0 \in 0..StableCycles BY TypeParts, ParametersAssumption DEF BusInv
  <2> QED BY <2>1, <2>2 DEF OtherTypes
<1>6. NoOldCommand' /\ ConnectingFits' /\ OutputsFit' BY <1>1, Elsewhere
<1>7. AttemptFits' BY <1>1 DEF BusInv, AttemptFits, Finishes
<1> QED BY <1>1, <1>2, <1>3, <1>4, <1>5, <1>6, <1>7, TypePartsPrime DEF BusInv

LEMMA AttemptFailsKeeps == ASSUME BusInv, NEW e, AttemptFails(e) PROVE BusInv'
<1>1. PcType' /\ pc'.at \in {"discover", "stopped"}
  <2>1. PICK p \in {"discover", "stopped"} : GoTo(p) BY DEF AttemptFails
  <2> QED BY <2>1, GoToType DEF Places, Connecting
<1>2. UNCHANGED <<config, kind, rx, want, losses>> /\ handles' = 0 /\ stable' = 0
  BY DEF AttemptFails, Closed
<1>3. DevType' /\ DrivesFit'
  <2>1. CASE dev' = dev BY <1>2, <2>1, DrivesKept
  <2>2. CASE /\ pc.at = "write"
             /\ dev' = [dev EXCEPT ![pc.slave] = Taken(dev[pc.slave], Writes[pc.write])]
    BY <1>2, <2>2, WriteStep
  <2>3. CASE pc.at = "enable" /\ dev' = [s \in Slaves |-> Given(s, Commanded[s])]
    BY <1>2, <2>3, CommandedType, GivenStep
  <2>4. dev' \in LeftBehind BY DEF AttemptFails
  <2> QED BY <2>1, <2>2, <2>3, <2>4 DEF LeftBehind, At
<1>4. FailureType' /\ CauseFitsStage'
  <2>1. failure' = Recorded(e) \/ failure' = failure BY DEF AttemptFails
  <2>2. CASE failure' = failure BY <2>2, FailureKept
  <2>3. CASE failure' = Recorded(e)
    <3>1. e \in Errors BY DEF AttemptFails
    <3> QED BY <2>3, <3>1, RecordedFits DEF FailureType, CauseFitsStage
  <2> QED BY <2>1, <2>2, <2>3
<1>5. RxType' BY <1>2, TypeParts DEF BusInv, RxType
<1>6. OtherTypes'
  <2>1. OtherTypes /\ 0 \in 0..StableCycles BY TypeParts, ParametersAssumption DEF BusInv
  <2>2. expired' \in BOOLEAN BY DEF AttemptFails
  <2> QED BY <1>2, <2>1, <2>2 DEF OtherTypes
<1>7. NoOldCommand' /\ ConnectingFits' /\ OutputsFit' BY <1>1, Elsewhere
<1>8. AttemptFits' BY <1>1, <1>2 DEF AttemptFits
<1> QED BY <1>1, <1>3, <1>4, <1>5, <1>6, <1>7, <1>8, TypePartsPrime DEF BusInv

LEMMA DeadlinePassesKeeps == ASSUME BusInv, DeadlinePasses PROVE BusInv'
<1>1. /\ UNCHANGED <<config, pc, kind, stable, handles, failure, dev, rx, want, losses>>
      /\ expired' = TRUE
  BY DEF DeadlinePasses
<1>2. DevType' /\ DrivesFit' BY <1>1, DrivesKept
<1>3. FailureType' /\ CauseFitsStage' BY <1>1, FailureKept
<1>4. PcType' /\ RxType' /\ OtherTypes'
  BY <1>1, TypeParts DEF BusInv, PcType, RxType, OtherTypes
<1>5. \A s \in Slaves : Checked(s)' <=> Checked(s) BY <1>1 DEF Checked
<1>6. ConnectingFits' BY <1>1, <1>5 DEF BusInv, ConnectingFits
<1>7. OutputsFit' /\ NoOldCommand' /\ AttemptFits'
  BY <1>1 DEF BusInv, OutputsFit, NoOldCommand, AttemptFits, WordDue, At, Starting
<1> QED BY <1>2, <1>3, <1>4, <1>6, <1>7, TypePartsPrime DEF BusInv

LEMMA CommandsKeeps ==
  ASSUME BusInv, NEW s \in Slaves, NEW m \in Modes, Commands(s, m) PROVE BusInv'
<1>1. /\ UNCHANGED <<config, pc, kind, expired, stable, handles, failure, dev, losses>>
      /\ pc.at = "serve"
  BY DEF Commands, At
<1>2. DevType' /\ DrivesFit' BY <1>1, DrivesKept
<1>3. FailureType' /\ CauseFitsStage' BY <1>1, FailureKept
<1>4. PcType' BY <1>1, TypeParts DEF BusInv, PcType
<1>5. RxType'
  <2>1. RxType BY TypeParts DEF BusInv
  <2> DEFINE r == [word |-> "enable", mode |-> m]
  <2>2. r \in [word : Words, mode : Modes] BY DEF Words
  <2>3. rx' = [rx EXCEPT ![s] = r] BY DEF Commands
  <2> HIDE DEF r
  <2> QED BY <2>1, <2>2, <2>3 DEF RxType
<1>6. OtherTypes'
  <2>1. OtherTypes BY TypeParts DEF BusInv
  <2>2. want' = [want EXCEPT ![s] = m] BY DEF Commands
  <2>3. want' \in [Slaves -> Modes] BY <2>1, <2>2 DEF OtherTypes
  <2> QED BY <1>1, <2>1, <2>3 DEF OtherTypes
<1>7. NoOldCommand' /\ ConnectingFits' /\ OutputsFit' BY <1>1, Elsewhere
<1>8. AttemptFits' BY <1>1 DEF BusInv, AttemptFits
<1> QED BY <1>2, <1>3, <1>4, <1>5, <1>6, <1>7, <1>8, TypePartsPrime DEF BusInv

LEMMA CyclesKeeps == ASSUME BusInv, Cycles PROVE BusInv'
<1>1. /\ UNCHANGED <<config, pc, kind, expired, stable, handles, failure, rx, want, losses>>
      /\ pc.at = "serve"
  BY DEF Cycles, At
<1>2. DevType' /\ DrivesFit' BY <1>1, ExchangeStep DEF Cycles
<1>3. FailureType' /\ CauseFitsStage' BY <1>1, FailureKept
<1>4. PcType' /\ RxType' /\ OtherTypes'
  BY <1>1, TypeParts DEF BusInv, PcType, RxType, OtherTypes
<1>5. NoOldCommand' /\ ConnectingFits' /\ OutputsFit' BY <1>1, Elsewhere
<1>6. AttemptFits' BY <1>1 DEF BusInv, AttemptFits
<1> QED BY <1>2, <1>3, <1>4, <1>5, <1>6, TypePartsPrime DEF BusInv

\* The steps that close the bus and start an attempt or wait for one.
LEMMA ClosingKeeps ==
  ASSUME BusInv, pc.at \in {"serve", "stopped"},
         NEW p \in {"build", "discover", "stopped"}, GoTo(p),
         handles' = 0, kind' \in Kinds, expired' \in BOOLEAN,
         failure' = failure \/ failure' = NoFailure,
         UNCHANGED <<config, stable, dev, rx, want, losses>>
  PROVE  BusInv'
<1>1. PcType' /\ pc'.at = p BY GoToType DEF Places, Connecting
<1>2. DevType' /\ DrivesFit' BY DrivesKept
<1>3. FailureType' /\ CauseFitsStage' BY FailureKept
<1>4. RxType' BY TypeParts DEF BusInv, RxType
<1>5. OtherTypes' BY TypeParts DEF BusInv, OtherTypes
<1>6. NoOldCommand' /\ ConnectingFits' /\ OutputsFit' BY <1>1, Elsewhere
<1>7. AttemptFits' BY <1>1 DEF BusInv, AttemptFits
<1> QED BY <1>1, <1>2, <1>3, <1>4, <1>5, <1>6, <1>7, TypePartsPrime DEF BusInv

LEMMA LosesBusKeeps == ASSUME BusInv, LosesBus PROVE BusInv'
<1>1. expired' \in BOOLEAN BY TypeParts DEF BusInv, OtherTypes, LosesBus
<1>2. /\ pc.at = "serve" /\ GoTo("stopped") /\ handles' = 0 /\ kind' \in Kinds
      /\ UNCHANGED <<config, stable, failure, dev, rx, want, losses>>
  BY DEF LosesBus, At, Closed, Kinds
<1> QED BY <1>1, <1>2, ClosingKeeps

LEMMA RestartsAxisKeeps == ASSUME BusInv, RestartsAxis PROVE BusInv'
<1>1. /\ pc.at = "serve" /\ GoTo("discover") /\ handles' = 0 /\ kind' \in Kinds
      /\ expired' \in BOOLEAN /\ UNCHANGED <<config, stable, failure, dev, rx, want, losses>>
  BY DEF RestartsAxis, At, Closed, Kinds
<1> QED BY <1>1, ClosingKeeps

LEMMA ReconnectsKeeps == ASSUME BusInv, Reconnects PROVE BusInv'
<1>1. /\ pc.at = "stopped" /\ handles' = 0 /\ kind' \in Kinds
      /\ expired' \in BOOLEAN /\ failure' = NoFailure
      /\ UNCHANGED <<config, stable, dev, rx, want, losses>>
  BY DEF Reconnects, At, Closed, Kinds
<1>2. PICK p \in {"build", "discover"} : GoTo(p) BY DEF Reconnects
<1> QED BY <1>1, <1>2, ClosingKeeps

\* A drive that is switched off or on has no address and no mapping.
LEMMA PowerStep ==
  ASSUME BusInv, NEW s \in Slaves, NEW d, DriveFits(d),
         dev' = [dev EXCEPT ![s] = d], ~d.addressed, ~d.mapped,
         d.state \in {"off", "init"}, losses' \in 0..MaxLosses,
         UNCHANGED <<config, pc, kind, expired, stable, handles, failure, rx, want>>
  PROVE  BusInv'
<1>1. DevType /\ PcType BY TypeParts DEF BusInv
<1>2. dev'[s] = d /\ \A t \in Slaves : t # s => dev'[t] = dev[t] BY <1>1 DEF DevType
<1>3. DevType'
  <2>1. d \in Drives BY DEF DriveFits
  <2>2. dev' \in [Slaves -> Drives] BY <1>1, <2>1 DEF DevType
  <2> QED BY <1>1, <1>2, <2>2 DEF DevType
<1>4. \A t \in Slaves : t # s => (Checked(t)' <=> Checked(t)) BY <1>2 DEF Checked
<1>5. DrivesFit' BY <1>2, <1>4 DEF BusInv, DrivesFit
<1>6. ConnectingFits'
  <2>1. ConnectingFits BY DEF BusInv
  <2>2. pc.slave \in Slaves BY <1>1 DEF PcType
  <2> QED BY <1>2, <1>4, <2>1, <2>2 DEF ConnectingFits
<1>7. NoOldCommand' BY <1>2 DEF BusInv, NoOldCommand, WordDue, At, Starting
<1>8. PcType' /\ RxType' /\ OtherTypes'
  BY TypeParts DEF BusInv, PcType, RxType, OtherTypes
<1>9. FailureType' /\ CauseFitsStage' BY FailureKept
<1>10. OutputsFit' /\ AttemptFits'
  BY DEF BusInv, OutputsFit, AttemptFits, WordDue, At, Starting
<1> QED BY <1>3, <1>5, <1>6, <1>7, <1>8, <1>9, <1>10, TypePartsPrime DEF BusInv

LEMMA PowerLostKeeps == ASSUME BusInv, NEW s \in Slaves, PowerLost(s) PROVE BusInv'
<1>1. DriveFits(dev[s]) BY TypeParts DEF BusInv, DevType
<1> DEFINE c == Drive(dev[s].product, dev[s].firmware)
           d == [c EXCEPT !.state = "off"]
<1>2. DriveFits(c) /\ ~c.addressed /\ ~c.mapped
  BY <1>1, DriveType DEF DriveFits, Drives
<1> HIDE DEF c
<1>3. DriveFits(d) /\ ~d.addressed /\ ~d.mapped /\ d.state = "off"
  BY <1>2 DEF DriveFits, Drives, DriveStates
<1>4. dev' = [dev EXCEPT ![s] = d] BY <1>1 DEF PowerLost, c
<1> HIDE DEF d
<1>5. losses' \in 0..MaxLosses
  <2>1. losses \in 0..MaxLosses /\ MaxLosses \in Nat
    BY TypeParts, ParametersAssumption DEF BusInv, OtherTypes
  <2>2. losses < MaxLosses /\ losses' = losses + 1 BY DEF PowerLost
  <2> QED BY <2>1, <2>2
<1>6. UNCHANGED <<config, pc, kind, expired, stable, handles, failure, rx, want>>
  BY DEF PowerLost
<1> QED BY <1>3, <1>4, <1>5, <1>6, PowerStep

LEMMA PowerBackKeeps ==
  ASSUME BusInv, NEW s \in Slaves, NEW p \in Products, PowerBack(s, p) PROVE BusInv'
<1>1. DriveFits(dev[s]) BY TypeParts DEF BusInv, DevType
<1> DEFINE d == Drive(p, dev[s].firmware)
<1>2. DriveFits(d) /\ ~d.addressed /\ ~d.mapped /\ d.state = "init"
  BY <1>1, DriveType DEF DriveFits, Drives
<1>3. dev' = [dev EXCEPT ![s] = d] BY DEF PowerBack
<1> HIDE DEF d
<1>4. losses' \in 0..MaxLosses BY TypeParts DEF BusInv, OtherTypes, PowerBack
<1>5. UNCHANGED <<config, pc, kind, expired, stable, handles, failure, rx, want>>
  BY DEF PowerBack
<1> QED BY <1>2, <1>3, <1>4, <1>5, PowerStep
-----------------------------------------------------------------------------
(* The theorems                                                            *)

LEMMA InitFits == Init => BusInv
<1> SUFFICES ASSUME Init PROVE BusInv OBVIOUS
<1>1. config \in [product : Configured, sync : BOOLEAN] /\ config.product \in [Slaves -> Products]
  BY ProductsAssumption DEF Init
<1>2. PICK p \in Products, f \in Firmwares :
        dev = [s \in Slaves |-> IF s = 1 THEN Drive(p, f)
                                 ELSE Drive(config.product[s], "normal")]
  BY DEF Init
<1>3. ASSUME NEW s \in Slaves
      PROVE  DriveFits(dev[s]) /\ dev[s].state = "init" /\ ~dev[s].addressed /\ ~dev[s].mapped
  <2>1. CASE s = 1
    <3>1. dev[s] = Drive(p, f) BY <1>2, <2>1
    <3> QED BY <3>1, DriveType
  <2>2. CASE s # 1
    <3>1. dev[s] = Drive(config.product[s], "normal") BY <1>2, <2>2
    <3>2. config.product[s] \in Products /\ "normal" \in Firmwares BY <1>1 DEF Firmwares
    <3> QED BY <3>1, <3>2, DriveType
  <2> QED BY <2>1, <2>2
<1>4. DevType
  <2>1. dev = [s \in Slaves |-> dev[s]] BY <1>2
  <2> QED BY <1>3, <2>1 DEF DevType, DriveFits
<1>5. DrivesFit BY <1>3 DEF DrivesFit
<1>6. PcType /\ pc.at = "build"
  BY WriteRange, SlaveOrder DEF Init, PcType, Places
<1>7. RxType BY ParametersAssumption DEF Init, RxType, FreshRx, Words
<1>8. OtherTypes
  <2>1. 0 \in 0..StableCycles /\ 0 \in 0..MaxLosses /\ DefaultMode \in Modes
    BY ParametersAssumption
  <2>2. /\ kind = "startup" /\ expired = FALSE /\ stable = 0 /\ handles = 0
        /\ want = [s \in Slaves |-> DefaultMode] /\ losses = 0
    BY DEF Init
  <2> QED BY <1>1, <2>1, <2>2 DEF OtherTypes, Kinds
<1>9. FailureType /\ CauseFitsStage BY DEF Init, FailureType, CauseFitsStage
<1>10. ConnectingFits /\ OutputsFit /\ NoOldCommand
  BY <1>6 DEF ConnectingFits, OutputsFit, NoOldCommand
<1>11. AttemptFits BY <1>6 DEF Init, AttemptFits
<1> QED BY <1>4, <1>5, <1>6, <1>7, <1>8, <1>9, <1>10, <1>11, TypeParts DEF BusInv

LEMMA StutterKeeps == ASSUME BusInv, UNCHANGED vars PROVE BusInv'
<1>1. UNCHANGED <<config, pc, kind, expired, stable, handles, failure, dev, rx, want, losses>>
  BY DEF vars
<1>2. DevType' /\ DrivesFit' BY <1>1, DrivesKept
<1>3. FailureType' /\ CauseFitsStage' BY <1>1, FailureKept
<1>4. PcType' /\ RxType' /\ OtherTypes'
  BY <1>1, TypeParts DEF BusInv, PcType, RxType, OtherTypes
<1>5. \A s \in Slaves : Checked(s)' <=> Checked(s) BY <1>1 DEF Checked
<1>6. ConnectingFits' BY <1>1, <1>5 DEF BusInv, ConnectingFits
<1>7. OutputsFit' /\ NoOldCommand' /\ AttemptFits'
  BY <1>1 DEF BusInv, OutputsFit, NoOldCommand, AttemptFits, WordDue, At, Starting
<1> QED BY <1>2, <1>3, <1>4, <1>6, <1>7, TypePartsPrime DEF BusInv

(* BusInv is an invariant of bringing the bus up: every step of connect(), *)
(* of the way to OP, of a failing attempt and of a drive keeps it.         *)
THEOREM BusInvariant == Spec => []BusInv
<1>1. Init => BusInv BY InitFits
<1>2. BusInv /\ [Next]_vars => BusInv'
  <2> SUFFICES ASSUME BusInv, [Next]_vars PROVE BusInv' OBVIOUS
  <2>1. CASE Connects
    BY <2>1, BuildsModelsKeeps, CreatesRuntimeKeeps, DiscoversKeeps, IdentifiesKeeps,
       WritesMappingKeeps, ReadsBackKeeps, MapsKeeps, RestoresKeeps, EntersSafeOpKeeps,
       PrimesKeeps, GoesOperationalKeeps, RequestsOperationalKeeps, ExchangesKeeps,
       EnablesKeeps, SettlesKeeps, FinishesKeeps, AttemptFailsKeeps
    DEF Connects
  <2>2. CASE Serves
    BY <2>2, CommandsKeeps, CyclesKeeps, LosesBusKeeps, RestartsAxisKeeps, ReconnectsKeeps
    DEF Serves
  <2>3. CASE DeadlinePasses BY <2>3, DeadlinePassesKeeps
  <2>4. CASE \E s \in Slaves : PowerLost(s) \/ \E p \in Products : PowerBack(s, p)
    BY <2>4, PowerLostKeeps, PowerBackKeeps
  <2>5. CASE UNCHANGED vars BY <2>5, StutterKeeps
  <2> QED BY <2>1, <2>2, <2>3, <2>4, <2>5 DEF Next
<1> QED BY <1>1, <1>2, PTL DEF Spec

(* A drive in OP is the configured product, with the configured mapping    *)
(* and sync parameters, for every number of drives, every mapping and      *)
(* every exchange of drives on the way.                                    *)
THEOREM OperationalStaysConfigured == Spec => []OperationalIsConfigured
<1>1. BusInv => OperationalIsConfigured
  BY DEF BusInv, DrivesFit, Checked, OperationalIsConfigured
<1> QED BY <1>1, BusInvariant, PTL

(* Until the bus is served, a drive in OP has been sent the command due at *)
(* that point of the attempt, which is zero in a reconnect and a restart,  *)
(* in the mode the server reports.                                         *)
THEOREM NoOldCommandIsSent == Spec => []NoOldCommand
<1>1. BusInv => NoOldCommand BY DEF BusInv
<1> QED BY <1>1, BusInvariant, PTL

(* The bookkeeping of an attempt is sound: one open interface at most, none *)
(* while stopped, and a cause that fits its stage.                          *)
THEOREM AttemptsStaySound == Spec => []AttemptIsSound
<1>1. BusInv => AttemptIsSound
  <2> SUFFICES ASSUME BusInv PROVE AttemptIsSound OBVIOUS
  <2>1. OneHandle BY DEF BusInv, AttemptFits, OneHandle, At
  <2> QED BY <2>1 DEF BusInv, AttemptIsSound
<1> QED BY <1>1, BusInvariant, PTL
-----------------------------------------------------------------------------
(***************************************************************************)
(* IoStation: the configuration, the process image and the output requests *)
(***************************************************************************)

\* Induction over the naturals, with a set in the place of a predicate
LEMMA SetInduction ==
  ASSUME NEW T \in SUBSET Nat, 0 \in T, \A n \in T : n + 1 \in T
  PROVE  \A n \in Nat : n \in T
<1> SUFFICES ASSUME NEW m \in Nat, m \notin T
             PROVE  FALSE
  OBVIOUS
<1> DEFINE R == OpToRel(<, Nat)
           U == Nat \ T
<1>1. \A x, y \in Nat : <<x, y>> \in R <=> x < y
  BY DEF OpToRel
<1>2. IsWellFoundedOn(R, Nat)
  BY NatLessThanWellFounded
<1>3. U \subseteq Nat /\ U # {}
  OBVIOUS
<1> HIDE DEF R, U
<1>4. PICK x \in U : \A y \in U : ~(<<y, x>> \in R)
  BY <1>2, <1>3, WFMin
<1>5. x \in Nat /\ x \notin T
  BY DEF U
<1>6. x - 1 \in Nat /\ x - 1 < x /\ (x - 1) + 1 = x
  BY <1>5
<1>7. x - 1 \in T
  BY <1>1, <1>4, <1>5, <1>6 DEF U
<1> QED
  BY <1>5, <1>6, <1>7

\* A set of naturals that is not empty has a least member.
LEMMA LeastExists ==
  ASSUME NEW S \in SUBSET Nat, S # {}
  PROVE  MinOf(S) \in S /\ \A y \in S : MinOf(S) <= y
<1> DEFINE R == OpToRel(<, Nat)
<1>1. \A x, y \in Nat : <<x, y>> \in R <=> x < y
  BY DEF OpToRel
<1>2. IsWellFoundedOn(R, Nat)
  BY NatLessThanWellFounded
<1> HIDE DEF R
<1>3. PICK x \in S : \A y \in S : ~(<<y, x>> \in R)
  BY <1>2, WFMin
<1>4. ASSUME NEW y \in S
      PROVE  x <= y
  <2>1. x \in Nat /\ y \in Nat /\ ~(<<y, x>> \in R)
    BY <1>3
  <2>2. ~(y < x)
    BY <1>1, <2>1
  <2> QED
    BY <2>1, <2>2
<1>5. \E x0 \in S : \A y \in S : x0 <= y
  BY <1>4
<1> QED
  BY <1>5 DEF MinOf

\* The greatest of one number
LEMMA GreatestIs ==
  ASSUME NEW i \in Int
  PROVE  MaxOf({i}) = i
<1>1. \E x \in {i} : \A y \in {i} : y <= x
  OBVIOUS
<1> QED
  BY <1>1 DEF MaxOf

-----------------------------------------------------------------------------
(* Powers of two, bits and words                                           *)

LEMMA Bits == ByteBits \in Nat /\ ByteBits > 0
BY StationAssumption

\* The recursive functions of the model exist on every interval; IsPow and the
\* like state what each of them computes.
IsPow(f, k) == f = [n \in 0..k |-> IF n = 0 THEN 1 ELSE 2 * f[n - 1]]

LEMMA PowExists ==
  ASSUME NEW k \in Nat
  PROVE  \E f : IsPow(f, k)
<1> DEFINE T == {j \in Nat : \E f : IsPow(f, j)}
<1>1. 0 \in T
  <2>1. IsPow([i \in 0..0 |-> 1], 0)
    BY DEF IsPow
  <2> QED
    BY <2>1
<1>2. ASSUME NEW j \in T
      PROVE  j + 1 \in T
  <2>1. PICK f : IsPow(f, j)
    OBVIOUS
  <2> DEFINE g == [i \in 0..j + 1 |-> IF i <= j THEN f[i] ELSE 2 * f[j]]
  <2>2. j \in Nat /\ \A i \in 0..j : f[i] = IF i = 0 THEN 1 ELSE 2 * f[i - 1]
    BY <2>1 DEF IsPow
  <2>3. \A i \in 0..j + 1 : g[i] = IF i = 0 THEN 1 ELSE 2 * g[i - 1]
    <3> SUFFICES ASSUME NEW i \in 0..j + 1
                 PROVE  g[i] = IF i = 0 THEN 1 ELSE 2 * g[i - 1]
      OBVIOUS
    <3>1. CASE i <= j
      <4>1. i # 0 => i - 1 \in 0..j + 1 /\ i - 1 <= j
        BY <2>2, <3>1
      <4> QED
        BY <2>2, <3>1, <4>1
    <3>2. CASE ~(i <= j)
      <4>1. i = j + 1 /\ i - 1 = j /\ j \in 0..j + 1 /\ i # 0
        BY <2>2, <3>2
      <4> QED
        BY <2>2, <3>2, <4>1
    <3> QED
      BY <3>1, <3>2
  <2>4. IsPow(g, j + 1)
    BY <2>3 DEF IsPow
  <2> QED
    BY <2>2, <2>4
<1>3. k \in T
  BY <1>1, <1>2, SetInduction
<1> QED
  BY <1>3

LEMMA PowIs ==
  /\ Pow2[0] = 1
  /\ \A n \in 1..2 * ByteBits : Pow2[n] = 2 * Pow2[n - 1]
<1>0. 2 * ByteBits \in Nat
  BY Bits
<1>1. \E f : IsPow(f, 2 * ByteBits)
  BY <1>0, PowExists
<1> DEFINE h == CHOOSE f : IsPow(f, 2 * ByteBits)
<1>2. IsPow(h, 2 * ByteBits)
  BY <1>1
<1>3. Pow2 = h
  BY DEF Pow2, IsPow
<1> HIDE DEF h
<1> QED
  BY <1>0, <1>2, <1>3 DEF IsPow

\* Powers of two are positive.
LEMMA PowType == \A n \in 0..2 * ByteBits : Pow2[n] \in Nat /\ Pow2[n] > 0
<1> DEFINE T == {n \in Nat : n <= 2 * ByteBits => Pow2[n] \in Nat /\ Pow2[n] > 0}
<1>1. 0 \in T
  BY PowIs
<1>2. ASSUME NEW n \in T
      PROVE  n + 1 \in T
  <2> SUFFICES ASSUME n + 1 <= 2 * ByteBits
               PROVE  Pow2[n + 1] \in Nat /\ Pow2[n + 1] > 0
    OBVIOUS
  <2>1. n \in Nat /\ n <= 2 * ByteBits /\ n + 1 \in 1..2 * ByteBits /\ (n + 1) - 1 = n
    BY Bits
  <2>2. Pow2[n + 1] = 2 * Pow2[n]
    BY <2>1, PowIs
  <2> QED
    BY <2>1, <2>2
<1>3. \A n \in Nat : n \in T
  BY <1>1, <1>2, SetInduction
<1> QED
  BY <1>3, Bits

\* A word has twice as many bits as a byte.
LEMMA WordIsSquare == Pow2[2 * ByteBits] = BitValue * BitValue
<1> DEFINE T == {n \in Nat : n <= ByteBits => Pow2[ByteBits + n] = BitValue * Pow2[n]}
<1>0. BitValue \in Nat
  BY PowType, Bits DEF BitValue
<1>1. 0 \in T
  BY <1>0, PowIs, Bits DEF BitValue
<1>2. ASSUME NEW n \in T
      PROVE  n + 1 \in T
  <2> SUFFICES ASSUME n + 1 <= ByteBits
               PROVE  Pow2[ByteBits + (n + 1)] = BitValue * Pow2[n + 1]
    OBVIOUS
  <2>1. /\ n \in Nat /\ n <= ByteBits /\ n + 1 \in 1..2 * ByteBits /\ (n + 1) - 1 = n
        /\ ByteBits + (n + 1) \in 1..2 * ByteBits
        /\ (ByteBits + (n + 1)) - 1 = ByteBits + n
        /\ n \in 0..2 * ByteBits
    BY Bits
  <2>2. Pow2[n + 1] = 2 * Pow2[n] /\ Pow2[ByteBits + (n + 1)] = 2 * Pow2[ByteBits + n]
    BY <2>1, PowIs
  <2>3. Pow2[ByteBits + n] = BitValue * Pow2[n] /\ Pow2[n] \in Nat
    BY <2>1, PowType
  <2>4. \A a, b \in Nat : 2 * (a * b) = a * (2 * b)
    OBVIOUS
  <2> QED
    BY <1>0, <2>2, <2>3, <2>4
<1>3. ByteBits \in T
  BY <1>1, <1>2, Bits, SetInduction
<1>4. Pow2[ByteBits + ByteBits] = BitValue * Pow2[ByteBits]
  BY <1>3, Bits
<1> QED
  BY <1>4, Bits DEF BitValue

\* Half a word, the range of an analog value
LEMMA WordFacts ==
  /\ BitValue \in Nat /\ BitValue > 1
  /\ SignedMax \in Nat /\ SignedMin = -(SignedMax + 1)
  /\ 2 * (SignedMax + 1) = BitValue * BitValue
<1>1. /\ ByteBits \in 1..2 * ByteBits /\ ByteBits - 1 \in 0..2 * ByteBits
      /\ 2 * ByteBits \in 1..2 * ByteBits /\ 2 * ByteBits - 1 \in 0..2 * ByteBits
  BY Bits
<1>2. BitValue = 2 * Pow2[ByteBits - 1] /\ Pow2[ByteBits - 1] \in Nat /\ Pow2[ByteBits - 1] > 0
  BY <1>1, PowIs, PowType DEF BitValue
<1>3. /\ Pow2[2 * ByteBits] = 2 * Pow2[2 * ByteBits - 1]
      /\ Pow2[2 * ByteBits - 1] \in Nat /\ Pow2[2 * ByteBits - 1] > 0
  BY <1>1, PowIs, PowType
<1> QED
  BY <1>2, <1>3, WordIsSquare DEF SignedMax, SignedMin

\* A quotient and a remainder are the only ones.
LEMMA Division ==
  ASSUME NEW p \in Nat, p > 0, NEW r \in 0..p - 1, NEW y \in Nat
  PROVE  (r + p * y) \div p = y /\ (r + p * y) % p = r
OBVIOUS
\* Division leaves a remainder.
LEMMA Remainder ==
  ASSUME NEW n \in Nat, NEW p \in Nat, p > 0
  PROVE  n % p \in 0..p - 1 /\ n \div p \in Nat /\ n = (n % p) + p * (n \div p)
OBVIOUS

\* Two bytes make the analog value again, sign included.
LEMMA WordRoundTrip ==
  ASSUME NEW v \in SignedMin..SignedMax
  PROVE  /\ LowByte(v) \in Byte /\ HighByte(v) \in Byte
         /\ FromBytes(LowByte(v), HighByte(v)) = v
<1> DEFINE B == BitValue
           u == v + B * B
           lo == u % B
           q == u \div B
           H == SignedMax + 1
<1>0. LowByte(v) = lo /\ HighByte(v) = q % B
  BY DEF LowByte, HighByte
<1>1. B \in Nat /\ B > 1 /\ H \in Nat /\ v \in -H..H - 1 /\ v \in Int /\ B * B = 2 * H
  BY WordFacts
<1>2. B * B \in Nat /\ u \in Nat /\ u = v + 2 * H
  BY <1>1
<1> HIDE DEF u
<1> HIDE DEF B, H
<1>3. lo \in 0..B - 1 /\ q \in Nat /\ u = lo + B * q
  BY <1>1, <1>2, Remainder
<1> HIDE DEF lo, q
<1>4. CASE v >= 0
  <2>1. q >= B
    <3> SUFFICES ASSUME q <= B - 1
                 PROVE  FALSE
      BY <1>1, <1>3
    <3>1. B * q <= B * (B - 1)
      BY <1>1, <1>3
    <3>2. B * (B - 1) = B * B - B
      BY <1>1
    <3> QED
      BY <1>1, <1>2, <1>3, <1>4, <3>1, <3>2
  <2> DEFINE y == q - B
  <2>2. y \in Nat /\ q = y + B * 1
    BY <1>1, <1>3, <2>1
  <2>3. B * q = B * y + B * B
    BY <1>1, <2>2
  <2> HIDE DEF y
  <2>4. v = lo + B * y
    BY <1>1, <1>2, <1>3, <2>2, <2>3
  <2>5. y < B
    <3> SUFFICES ASSUME y >= B
                 PROVE  FALSE
      BY <1>1, <2>2
    <3>1. B * y >= B * B
      BY <1>1, <2>2
    <3> QED
      BY <1>1, <1>3, <2>2, <2>4, <3>1
  <2>6. q % B = y
    BY <1>1, <2>2, <2>5, Division
  <2>7. q % B \in 0..B - 1 /\ lo + B * (q % B) = v
    BY <1>1, <2>2, <2>4, <2>5, <2>6
  <2>8. v <= SignedMax
    BY WordFacts
  <2>9. FromBytes(lo, q % B) = v
    BY <1>1, <2>7, <2>8, WordFacts DEF FromBytes, B
  <2> QED
    BY <1>0, <1>3, <2>7, <2>9 DEF Byte, B
<1>5. CASE ~(v >= 0)
  <2>1. q < B
    <3> SUFFICES ASSUME q >= B
                 PROVE  FALSE
      BY <1>1, <1>3
    <3>1. B * q >= B * B
      BY <1>1, <1>3
    <3> QED
      BY <1>1, <1>2, <1>3, <1>5, <3>1
  <2>2. q % B = q
    BY <1>1, <1>3, <2>1
  <2>3. H = SignedMax + 1 /\ SignedMax \in Nat
    BY WordFacts DEF H
  <2>4. q \in 0..B - 1
    BY <1>1, <1>3, <2>1
  <2>5. u > SignedMax
    BY <1>1, <1>2, <2>3
  <2>6. u - B * B = v
    BY <1>1, <1>2
  <2>7. FromBytes(lo, q) = v
    BY <1>3, <2>5, <2>6 DEF FromBytes, B
  <2> QED
    BY <1>0, <1>3, <2>2, <2>4, <2>7 DEF Byte, B
<1> QED
  BY <1>4, <1>5

\* f[n] is the number the first n bits of byte k make.
IsSumOfBits(f, digital, k, m) ==
  f = [n \in 0..m |-> IF n = 0 THEN 0
                      ELSE f[n - 1] + BitOf(digital, k * ByteBits + n) * Pow2[n - 1]]

LEMMA SumOfBitsExists ==
  ASSUME NEW digital, NEW k, NEW m \in Nat
  PROVE  \E f : IsSumOfBits(f, digital, k, m)
<1> DEFINE Plus(x, n) == x + BitOf(digital, k * ByteBits + n) * Pow2[n - 1]
           T == {j \in Nat : \E f : IsSumOfBits(f, digital, k, j)}
<1> HIDE DEF Plus
<1>0. ASSUME NEW f, NEW j \in Nat
      PROVE  IsSumOfBits(f, digital, k, j) <=>
               f = [n \in 0..j |-> IF n = 0 THEN 0 ELSE Plus(f[n - 1], n)]
  BY DEF IsSumOfBits, Plus
<1>1. 0 \in T
  <2>1. IsSumOfBits([i \in 0..0 |-> 0], digital, k, 0)
    BY <1>0
  <2> QED
    BY <2>1
<1>2. ASSUME NEW j \in T
      PROVE  j + 1 \in T
  <2>1. PICK f : IsSumOfBits(f, digital, k, j)
    OBVIOUS
  <2> DEFINE g == [i \in 0..j + 1 |-> IF i <= j THEN f[i] ELSE Plus(f[j], j + 1)]
  <2>2. j \in Nat /\ \A i \in 0..j : f[i] = IF i = 0 THEN 0 ELSE Plus(f[i - 1], i)
    BY <1>0, <2>1
  <2>3. \A i \in 0..j + 1 : g[i] = IF i = 0 THEN 0 ELSE Plus(g[i - 1], i)
    <3> SUFFICES ASSUME NEW i \in 0..j + 1
                 PROVE  g[i] = IF i = 0 THEN 0 ELSE Plus(g[i - 1], i)
      OBVIOUS
    <3>1. CASE i <= j
      <4>1. i # 0 => i - 1 \in 0..j + 1 /\ i - 1 <= j
        BY <2>2, <3>1
      <4> QED
        BY <2>2, <3>1, <4>1
    <3>2. CASE ~(i <= j)
      <4>1. i = j + 1 /\ i - 1 = j /\ j \in 0..j + 1 /\ i # 0
        BY <2>2, <3>2
      <4> QED
        BY <2>2, <3>2, <4>1
    <3> QED
      BY <3>1, <3>2
  <2>4. g = [n \in 0..j + 1 |-> IF n = 0 THEN 0 ELSE Plus(g[n - 1], n)]
    BY <2>3
  <2> HIDE DEF g
  <2>5. IsSumOfBits(g, digital, k, j + 1)
    BY <1>0, <2>2, <2>4
  <2> QED
    BY <2>2, <2>5
<1>3. m \in T
  BY <1>1, <1>2, SetInduction
<1> QED
  BY <1>3

\* The bits of a byte of digital channels are the channels.
LEMMA BitRoundTrip ==
  ASSUME NEW digital, NEW k \in Nat, NEW m \in 0..ByteBits - 1
  PROVE  (DigitalByte(digital, k) \div Pow2[m]) % 2 = BitOf(digital, k * ByteBits + (m + 1))
<1>0. \E f : IsSumOfBits(f, digital, k, ByteBits)
  BY SumOfBitsExists, Bits
<1> DEFINE f == CHOOSE h : IsSumOfBits(h, digital, k, ByteBits)
<1>1. IsSumOfBits(f, digital, k, ByteBits)
  BY <1>0
<1>2. DigitalByte(digital, k) = f[ByteBits]
  BY DEF DigitalByte, IsSumOfBits
<1> HIDE DEF f
<1> DEFINE bit(n) == BitOf(digital, k * ByteBits + n)
           B == ByteBits
<1>3. f[0] = 0 /\ \A n \in 1..B : f[n] = f[n - 1] + bit(n) * Pow2[n - 1]
  BY <1>1, Bits DEF IsSumOfBits
<1>4. \A n \in 1..B : bit(n) \in {0, 1}
  BY DEF BitOf
<1>5. /\ Pow2[0] = 1
      /\ \A n \in 0..B : Pow2[n] \in Nat /\ Pow2[n] > 0
      /\ \A n \in 1..B : Pow2[n] = 2 * Pow2[n - 1]
  BY PowIs, PowType, Bits
<1>6. B \in Nat /\ B > 0
  BY Bits
<1> HIDE DEF bit, B
<1>7. \A n \in 0..B : f[n] \in 0..Pow2[n] - 1
  <2> DEFINE T == {n \in Nat : n <= B => f[n] \in 0..Pow2[n] - 1}
  <2>1. 0 \in T
    BY <1>3, <1>5
  <2>2. ASSUME NEW n \in T
        PROVE  n + 1 \in T
    <3> SUFFICES ASSUME n + 1 <= B
                 PROVE  f[n + 1] \in 0..Pow2[n + 1] - 1
      OBVIOUS
    <3>1. n \in Nat /\ n <= B /\ n + 1 \in 1..B /\ (n + 1) - 1 = n /\ n \in 0..B
      BY <1>6
    <3>2. /\ f[n + 1] = f[n] + bit(n + 1) * Pow2[n] /\ Pow2[n + 1] = 2 * Pow2[n]
          /\ bit(n + 1) \in {0, 1}
      BY <1>3, <1>4, <1>5, <3>1
    <3>3. f[n] \in 0..Pow2[n] - 1 /\ Pow2[n] \in Nat
      BY <1>5, <3>1
    <3> QED
      BY <3>2, <3>3
  <2>3. \A n \in Nat : n \in T
    BY <2>1, <2>2, SetInduction
  <2> QED
    BY <1>6, <2>3
<1>8. \A n \in 0..B : n >= m + 1 => \E y \in Nat : f[n] = f[m + 1] + Pow2[m + 1] * y
  <2> DEFINE T == {n \in Nat : (m + 1) + n <= B => \E y \in Nat, z \in Nat :
                                /\ f[(m + 1) + n] = f[m + 1] + Pow2[m + 1] * y
                                /\ Pow2[(m + 1) + n] = Pow2[m + 1] * z}
  <2>0. m \in Nat /\ m + 1 \in 1..B /\ m + 1 \in 0..B /\ f[m + 1] \in Nat
        /\ Pow2[m + 1] \in Nat
    BY <1>5, <1>6, <1>7 DEF B
  <2>1. 0 \in T
    <3>1. f[(m + 1) + 0] = f[m + 1] + Pow2[m + 1] * 0 /\ Pow2[(m + 1) + 0] = Pow2[m + 1] * 1
      BY <2>0
    <3> QED
      BY <3>1
  <2>2. ASSUME NEW n \in T
        PROVE  n + 1 \in T
    <3> SUFFICES ASSUME (m + 1) + (n + 1) <= B
                 PROVE  \E y \in Nat, z \in Nat :
                          /\ f[(m + 1) + (n + 1)] = f[m + 1] + Pow2[m + 1] * y
                          /\ Pow2[(m + 1) + (n + 1)] = Pow2[m + 1] * z
      OBVIOUS
    <3> DEFINE i == (m + 1) + n
    <3>1. n \in Nat /\ i <= B /\ i + 1 \in 1..B /\ (i + 1) - 1 = i
          /\ (m + 1) + (n + 1) = i + 1
      BY <1>6, <2>0
    <3>2. PICK y \in Nat, z \in Nat : f[i] = f[m + 1] + Pow2[m + 1] * y
                                      /\ Pow2[i] = Pow2[m + 1] * z
      BY <3>1
    <3> HIDE DEF i
    <3>3. f[i + 1] = f[i] + bit(i + 1) * Pow2[i] /\ Pow2[i + 1] = 2 * Pow2[i]
          /\ bit(i + 1) \in {0, 1}
      BY <1>3, <1>4, <1>5, <3>1
    <3>4. bit(i + 1) * Pow2[i] = Pow2[m + 1] * (bit(i + 1) * z)
      BY <2>0, <3>2, <3>3
    <3>5. Pow2[m + 1] * y + Pow2[m + 1] * (bit(i + 1) * z)
            = Pow2[m + 1] * (y + bit(i + 1) * z)
      BY <2>0, <3>3
    <3>6. Pow2[i + 1] = Pow2[m + 1] * (2 * z)
      BY <2>0, <3>2, <3>3
    <3>7. f[i + 1] = f[m + 1] + Pow2[m + 1] * (y + bit(i + 1) * z)
      BY <2>0, <3>2, <3>3, <3>4, <3>5
    <3>8. y + bit(i + 1) * z \in Nat /\ 2 * z \in Nat
      BY <3>3
    <3> QED
      BY <3>1, <3>6, <3>7, <3>8
  <2>3. \A n \in Nat : n \in T
    BY <2>1, <2>2, SetInduction
  <2> SUFFICES ASSUME NEW n \in 0..B, n >= m + 1
               PROVE  \E y \in Nat : f[n] = f[m + 1] + Pow2[m + 1] * y
    OBVIOUS
  <2>4. n - (m + 1) \in Nat /\ (m + 1) + (n - (m + 1)) = n /\ n <= B
    BY <1>6, <2>0
  <2>5. n - (m + 1) \in T
    BY <2>3, <2>4
  <2> QED
    BY <2>4, <2>5
<1>9. m \in 0..B /\ m + 1 \in 1..B /\ (m + 1) - 1 = m /\ B \in 0..B /\ B >= m + 1 /\ m \in Nat
  BY <1>6 DEF B
<1>10. PICK y \in Nat : f[B] = f[m + 1] + Pow2[m + 1] * y
  BY <1>8, <1>9
<1> DEFINE p == Pow2[m]
           c == bit(m + 1)
           r == f[m]
<1>11. p \in Nat /\ p > 0 /\ c \in {0, 1} /\ r \in 0..p - 1
  BY <1>4, <1>5, <1>7, <1>9
<1>12. f[m + 1] = r + c * p /\ Pow2[m + 1] = 2 * p
  BY <1>3, <1>5, <1>9
<1> HIDE DEF p, c, r
<1>13. c * p + (2 * p) * y = p * (c + 2 * y)
  BY <1>11
<1>14. f[B] = r + p * (c + 2 * y) /\ c + 2 * y \in Nat
  BY <1>10, <1>11, <1>12, <1>13
<1>15. f[B] \div p = c + 2 * y
  BY <1>11, <1>14, Division
<1>16. (c + 2 * y) % 2 = c
  BY <1>11
<1> QED
  BY <1>2, <1>15, <1>16 DEF p, c, bit, B
-----------------------------------------------------------------------------
(* Where the modules lie in the image                                      *)

LEMMA Stored ==
  ASSUME NEW S, NEW k \in Nat, NEW s \in [1..k -> S]
  PROVE  s \in Seq(S) /\ Len(s) = k
OBVIOUS

\* f[n] is the sum of the first n sizes.
IsSums(f, sizes, k) ==
  f = [n \in 0..k |-> IF n = 0 THEN 0 ELSE f[n - 1] + sizes[n]]

LEMMA SumsExist ==
  ASSUME NEW sizes, NEW k \in Nat
  PROVE  \E f : IsSums(f, sizes, k)
<1> DEFINE T == {j \in Nat : \E f : IsSums(f, sizes, j)}
<1>1. 0 \in T
  <2>1. IsSums([i \in 0..0 |-> 0], sizes, 0)
    BY DEF IsSums
  <2> QED
    BY <2>1
<1>2. ASSUME NEW j \in T
      PROVE  j + 1 \in T
  <2>1. PICK f : IsSums(f, sizes, j)
    OBVIOUS
  <2> DEFINE g == [i \in 0..j + 1 |-> IF i <= j THEN f[i] ELSE f[j] + sizes[j + 1]]
  <2>2. j \in Nat /\ \A i \in 0..j : f[i] = IF i = 0 THEN 0 ELSE f[i - 1] + sizes[i]
    BY <2>1 DEF IsSums
  <2>3. \A i \in 0..j + 1 : g[i] = IF i = 0 THEN 0 ELSE g[i - 1] + sizes[i]
    <3> SUFFICES ASSUME NEW i \in 0..j + 1
                 PROVE  g[i] = IF i = 0 THEN 0 ELSE g[i - 1] + sizes[i]
      OBVIOUS
    <3>1. CASE i <= j
      <4>1. i # 0 => i - 1 \in 0..j + 1 /\ i - 1 <= j
        BY <2>2, <3>1
      <4> QED
        BY <2>2, <3>1, <4>1
    <3>2. CASE ~(i <= j)
      <4>1. i = j + 1 /\ i - 1 = j /\ j \in 0..j + 1 /\ i # 0
        BY <2>2, <3>2
      <4> QED
        BY <2>2, <3>2, <4>1
    <3> QED
      BY <3>1, <3>2
  <2>4. IsSums(g, sizes, j + 1)
    BY <2>3 DEF IsSums
  <2> QED
    BY <2>2, <2>4
<1>3. k \in T
  BY <1>1, <1>2, SetInduction
<1> QED
  BY <1>3

\* Sums adds one size after the other.
LEMMA SumsFacts ==
  ASSUME NEW k \in Nat, NEW s \in [1..k -> Nat]
  PROVE  /\ Sums(s)[0] = 0
         /\ \A n \in 1..k : Sums(s)[n] = Sums(s)[n - 1] + s[n]
         /\ \A n \in 0..k : Sums(s)[n] \in Nat
<1>1. Len(s) = k
  BY Stored
<1> DEFINE h == CHOOSE f : IsSums(f, s, k)
<1>2. IsSums(h, s, k)
  BY SumsExist
<1>3. Sums(s) = h
  BY <1>1 DEF Sums, IsSums
<1> HIDE DEF h
<1>4. h[0] = 0 /\ \A n \in 1..k : h[n] = h[n - 1] + s[n]
  BY <1>2 DEF IsSums
<1> DEFINE T == {n \in Nat : n <= k => h[n] \in Nat}
<1>5. 0 \in T
  BY <1>4
<1>6. ASSUME NEW n \in T
      PROVE  n + 1 \in T
  <2> SUFFICES ASSUME n + 1 <= k
               PROVE  h[n + 1] \in Nat
    OBVIOUS
  <2>1. n \in Nat /\ n <= k /\ n + 1 \in 1..k /\ (n + 1) - 1 = n
    OBVIOUS
  <2>2. h[n + 1] = h[n] + s[n + 1] /\ s[n + 1] \in Nat
    BY <1>4, <2>1
  <2> QED
    BY <2>1, <2>2
<1>7. \A n \in Nat : n \in T
  BY <1>5, <1>6, SetInduction
<1> QED
  BY <1>3, <1>4, <1>7

\* The sums do not decrease.
LEMMA SumsGrow ==
  ASSUME NEW k \in Nat, NEW s \in [1..k -> Nat], NEW i \in 0..k, NEW j \in 0..k, i <= j
  PROVE  Sums(s)[i] <= Sums(s)[j]
<1> DEFINE h == Sums(s)
<1>1. /\ \A n \in 1..k : h[n] = h[n - 1] + s[n]
      /\ \A n \in 0..k : h[n] \in Nat
  BY SumsFacts
<1> HIDE DEF h
<1> DEFINE T == {n \in Nat : i + n <= k => h[i] <= h[i + n]}
<1>2. 0 \in T
  BY <1>1
<1>3. ASSUME NEW n \in T
      PROVE  n + 1 \in T
  <2> SUFFICES ASSUME i + (n + 1) <= k
               PROVE  h[i] <= h[i + (n + 1)]
    OBVIOUS
  <2>1. /\ n \in Nat /\ i + n <= k /\ i + (n + 1) \in 1..k /\ (i + (n + 1)) - 1 = i + n
        /\ i + n \in 0..k
    OBVIOUS
  <2>2. h[i + (n + 1)] = h[i + n] + s[i + (n + 1)] /\ s[i + (n + 1)] \in Nat
    BY <1>1, <2>1
  <2>3. h[i] <= h[i + n] /\ h[i] \in Nat /\ h[i + n] \in Nat
    BY <1>1, <2>1
  <2> QED
    BY <2>2, <2>3
<1>4. \A n \in Nat : n \in T
  BY <1>2, <1>3, SetInduction
<1>5. j - i \in Nat /\ i + (j - i) = j /\ j <= k
  OBVIOUS
<1>6. j - i \in T
  BY <1>4, <1>5
<1> QED
  BY <1>5, <1>6 DEF h

\* A module lies between two neighbouring sums.
LEMMA OffsetIs ==
  ASSUME NEW k \in Nat, NEW s \in [1..k -> Nat], NEW j \in 1..k, Offsets(s)[j] # None
  PROVE  /\ Offsets(s)[j] = Sums(s)[j - 1] /\ Offsets(s)[j] + s[j] = Sums(s)[j]
         /\ j - 1 \in 0..k /\ j \in 0..k
<1>1. Len(s) = k
  BY Stored
<1>2. Offsets(s)[j] = Sums(s)[j - 1] /\ j - 1 \in 0..k /\ j \in 0..k
  BY <1>1 DEF Offsets
<1>3. Sums(s)[j] = Sums(s)[j - 1] + s[j]
  BY SumsFacts
<1> QED
  BY <1>2, <1>3

\* A module that has bytes has a place in the image, and has it for itself.
LEMMA OwnBytes ==
  ASSUME NEW k \in Nat, NEW s \in [1..k -> Nat], NEW i \in 1..k, NEW x \in Nat, x < s[i]
  PROVE  /\ Offsets(s)[i] # None /\ Offsets(s)[i] \in Nat
         /\ Offsets(s)[i] + x < Sums(s)[k]
<1>1. Len(s) = k
  BY Stored
<1>2. s[i] # 0 /\ s[i] \in Nat /\ i - 1 \in 0..k /\ i \in 0..k /\ k \in 0..k
  OBVIOUS
<1>3. Offsets(s)[i] = Sums(s)[i - 1]
  BY <1>1, <1>2 DEF Offsets
<1>4. /\ Sums(s)[i - 1] \in Nat /\ Sums(s)[i] \in Nat /\ Sums(s)[k] \in Nat
      /\ Sums(s)[i] = Sums(s)[i - 1] + s[i]
  BY <1>2, SumsFacts
<1>5. Sums(s)[i] <= Sums(s)[k]
  BY <1>2, SumsGrow
<1> QED
  BY <1>2, <1>3, <1>4, <1>5 DEF None

\* A byte of the image belongs to one module.
LEMMA OthersBytes ==
  ASSUME NEW k \in Nat, NEW s \in [1..k -> Nat], NEW i \in 1..k, NEW j \in 1..k,
         Offsets(s)[i] # None, Offsets(s)[j] # None, NEW b \in Nat,
         b >= Offsets(s)[i], b < Offsets(s)[i] + s[i],
         b >= Offsets(s)[j], b < Offsets(s)[j] + s[j]
  PROVE  j = i
<1>1. /\ i - 1 \in 0..k /\ i \in 0..k /\ j - 1 \in 0..k /\ j \in 0..k
      /\ b >= Sums(s)[i - 1] /\ b < Sums(s)[i] /\ b >= Sums(s)[j - 1] /\ b < Sums(s)[j]
  BY OffsetIs
<1>2. /\ Sums(s)[i - 1] \in Nat /\ Sums(s)[i] \in Nat
      /\ Sums(s)[j - 1] \in Nat /\ Sums(s)[j] \in Nat
  BY <1>1, SumsFacts
<1>3. CASE j < i
  <2>1. j <= i - 1
    BY <1>3
  <2>2. Sums(s)[j] <= Sums(s)[i - 1]
    BY <1>1, <2>1, SumsGrow
  <2> QED
    BY <1>1, <1>2, <2>2
<1>4. CASE i < j
  <2>1. i <= j - 1
    BY <1>4
  <2>2. Sums(s)[i] <= Sums(s)[j - 1]
    BY <1>1, <2>1, SumsGrow
  <2> QED
    BY <1>1, <1>2, <2>2
<1> QED
  BY <1>3, <1>4

\* The byte x of the module i in an image that holds all modules
LEMMA ImageByte ==
  ASSUME NEW k \in Nat, NEW s \in [1..k -> Nat], NEW vals, Len(vals) = k,
         NEW n \in Nat, Sums(s)[k] <= n, NEW i \in 1..k, NEW x \in Nat, x < s[i]
  PROVE  ByteAt(Encode(vals, Offsets(s), s, n), Offsets(s)[i] + x) = ModuleByte(vals[i], x)
<1> DEFINE at == Offsets(s)
           mine(b) == {j \in 1..k : at[j] # None /\ b - 1 >= at[j] /\ b - 1 < at[j] + s[j]}
           image == [b \in 1..n |-> IF mine(b) = {} THEN 0
                                    ELSE LET j == MaxOf(mine(b))
                                         IN ModuleByte(vals[j], b - 1 - at[j])]
           c == (at[i] + x) + 1
<1>1. Encode(vals, at, s, n) = SubSeq(image, 1, n)
  BY DEF Encode
<1>2. SubSeq(image, 1, n) = image /\ Len(image) = n
  <2> HIDE DEF mine
  <2> DEFINE S == {image[b] : b \in 1..n}
  <2>1. image \in [1..n -> S]
    OBVIOUS
  <2> HIDE DEF image, S
  <2>2. image \in Seq(S) /\ Len(image) = n
    BY <2>1, Stored
  <2>3. SubSeq(image, 1, n) = [b \in 1..n |-> image[b]]
    BY <2>2
  <2> QED
    BY <2>1, <2>2, <2>3
<1> HIDE DEF image, mine, c
<1>3. k \in 0..k
  OBVIOUS
<1>4. Sums(s)[k] \in Nat
  BY <1>3, SumsFacts
<1>5. at[i] # None /\ at[i] \in Nat /\ at[i] + x < Sums(s)[k]
  BY OwnBytes
<1>6. at[i] + x \in Nat /\ at[i] + x >= at[i] /\ at[i] + x < at[i] + s[i] /\ at[i] + x < n
  BY <1>4, <1>5
<1>7. ASSUME NEW j \in 1..k, at[j] # None, at[i] + x >= at[j], at[i] + x < at[j] + s[j]
      PROVE  j = i
  <2> DEFINE b == at[i] + x
  <2>1. /\ b \in Nat /\ b >= at[i] /\ b < at[i] + s[i] /\ b >= at[j] /\ b < at[j] + s[j]
        /\ at[i] # None /\ at[j] # None
    BY <1>5, <1>6, <1>7
  <2> HIDE DEF b
  <2> QED
    BY <2>1, OthersBytes
<1> HIDE DEF at
<1>8. c \in 1..n /\ c - 1 = at[i] + x /\ (c - 1) - at[i] = x
  <2>1. \A a \in Nat : /\ ((a + x) + 1) - 1 = a + x /\ (((a + x) + 1) - 1) - a = x
                       /\ a + x < n => (a + x) + 1 \in 1..n
    OBVIOUS
  <2> QED
    BY <1>5, <1>6, <2>1 DEF c
<1>9. mine(c) = {i}
  BY <1>5, <1>6, <1>7, <1>8 DEF mine
<1>10. MaxOf(mine(c)) = i /\ mine(c) # {}
  BY <1>9, GreatestIs
<1>11. image[c] = ModuleByte(vals[i], x)
  BY <1>8, <1>10 DEF image
<1> QED
  BY <1>1, <1>2, <1>6, <1>8, <1>11 DEF ByteAt, at, c
-----------------------------------------------------------------------------
(* What one side writes the other side reads                               *)

\* The values of a module with d digital and a analog channels and l bytes
Values(d, a, l) ==
  [digital : [1..d -> BOOLEAN], analog : [1..a -> SignedMin..SignedMax],
   io_link : [1..l -> Byte]]

\* The channels of a value
LEMMA ValuesFields ==
  ASSUME NEW d \in Nat, NEW a \in Nat, NEW l \in Nat, NEW v \in Values(d, a, l)
  PROVE  /\ v.digital \in [1..d -> BOOLEAN] /\ Len(v.digital) = d
         /\ v.analog \in [1..a -> SignedMin..SignedMax] /\ Len(v.analog) = a
         /\ v.io_link \in [1..l -> Byte] /\ Len(v.io_link) = l
         /\ v = [digital |-> v.digital, analog |-> v.analog, io_link |-> v.io_link]
<1>1. /\ v.digital \in [1..d -> BOOLEAN] /\ v.analog \in [1..a -> SignedMin..SignedMax]
      /\ v.io_link \in [1..l -> Byte]
      /\ v = [digital |-> v.digital, analog |-> v.analog, io_link |-> v.io_link]
  BY DEF Values
<1> QED
  BY <1>1, Stored

\* A module gives the byte x of its part of the image; another has its channels.
LEMMA ValuesReturn ==
  ASSUME NEW d \in Nat, NEW a \in Nat, NEW l \in Nat, NEW bytes \in Nat,
         Holds(bytes, d, a, l),
         NEW v \in Values(d, a, l), NEW shape \in Values(d, a, l),
         NEW image, NEW at \in Nat,
         \A x \in 0..bytes - 1 : ByteAt(image, at + x) = ModuleByte(v, x)
  PROVE  Decoded(image, at, shape) = v
<1>0. /\ v.digital \in [1..d -> BOOLEAN] /\ Len(v.digital) = d
      /\ v.analog \in [1..a -> SignedMin..SignedMax] /\ Len(v.analog) = a
      /\ v.io_link \in [1..l -> Byte] /\ Len(v.io_link) = l
      /\ v = [digital |-> v.digital, analog |-> v.analog, io_link |-> v.io_link]
      /\ Len(shape.digital) = d /\ Len(shape.analog) = a /\ Len(shape.io_link) = l
  BY ValuesFields
<1>1. /\ d <= bytes * ByteBits /\ 2 * a <= bytes /\ l <= bytes
      /\ d > 0 => a = 0 /\ l = 0
      /\ a > 0 => l = 0
  BY DEF Holds
<1> DEFINE digital == [c \in 1..d |-> (ByteAt(image, at + (c - 1) \div ByteBits)
                                         \div Pow2[(c - 1) % ByteBits]) % 2 = 1]
           analog == [c \in 1..a |-> FromBytes(ByteAt(image, at + 2 * c - 2),
                                               ByteAt(image, at + 2 * c - 1))]
           iol == [c \in 1..l |-> ByteAt(image, at + c - 1)]
<1>2. Decoded(image, at, shape) = [digital |-> digital, analog |-> analog, io_link |-> iol]
  <2>1. at # None
    BY DEF None
  <2> QED
    BY <1>0, <2>1 DEF Decoded
<1>3. ASSUME NEW c \in 1..d
      PROVE  digital[c] = v.digital[c]
  <2> DEFINE x == (c - 1) \div ByteBits
             m == (c - 1) % ByteBits
  <2>1. c - 1 \in Nat /\ c - 1 < bytes * ByteBits /\ d > 0
    BY <1>1, Bits
  <2>2. m \in 0..ByteBits - 1 /\ x \in Nat /\ c - 1 = m + ByteBits * x
    BY <2>1, Bits, Remainder
  <2> HIDE DEF m, x
  <2>3. x < bytes
    <3> SUFFICES ASSUME x >= bytes
                 PROVE  FALSE
      BY <2>2
    <3>1. ByteBits * x >= ByteBits * bytes
      BY <2>2, Bits
    <3> QED
      BY <2>1, <2>2, <3>1, Bits
  <2>4. ByteAt(image, at + x) = DigitalByte(v.digital, x)
    BY <1>0, <2>1, <2>2, <2>3 DEF ModuleByte
  <2>5. (DigitalByte(v.digital, x) \div Pow2[m]) % 2
          = BitOf(v.digital, x * ByteBits + (m + 1))
    BY <2>2, BitRoundTrip
  <2>6. x * ByteBits + (m + 1) = c
    BY <2>2, Bits
  <2>7. digital[c] = (BitOf(v.digital, c) = 1)
    BY <2>4, <2>5, <2>6 DEF x, m
  <2>8. v.digital[c] \in BOOLEAN /\ c <= Len(v.digital)
    BY <1>0
  <2>9. BitOf(v.digital, c) = IF v.digital[c] THEN 1 ELSE 0
    BY <2>8 DEF BitOf
  <2> DEFINE one == BitOf(v.digital, c) = 1
  <2>10. one = v.digital[c]
    BY <2>8, <2>9
  <2>11. digital[c] = one
    BY <2>7
  <2> HIDE DEF digital, one
  <2> QED
    BY <2>10, <2>11
<1>4. ASSUME NEW c \in 1..a
      PROVE  analog[c] = v.analog[c]
  <2>1. a > 0 /\ Len(v.digital) = 0
    BY <1>0, <1>1
  <2>2. /\ 2 * c - 2 \in 0..bytes - 1 /\ 2 * c - 1 \in 0..bytes - 1
        /\ at + (2 * c - 2) = at + 2 * c - 2 /\ at + (2 * c - 1) = at + 2 * c - 1
        /\ (2 * c - 2) \div 2 = c - 1 /\ (2 * c - 2) % 2 = 0
        /\ (2 * c - 1) \div 2 = c - 1 /\ (2 * c - 1) % 2 = 1
        /\ (c - 1) + 1 = c /\ ~(c - 1 >= a)
    BY <1>1
  <2>3. ByteAt(image, at + 2 * c - 2) = ModuleByte(v, 2 * c - 2)
    BY <2>2
  <2>4. ByteAt(image, at + 2 * c - 1) = ModuleByte(v, 2 * c - 1)
    BY <2>2
  <2>5. ASSUME NEW x, x \div 2 = c - 1
        PROVE  ModuleByte(v, x) = IF x % 2 = 0 THEN LowByte(v.analog[c])
                                               ELSE HighByte(v.analog[c])
    <3>1. Len(v.analog) = a /\ Len(v.analog) > 0 /\ ~(Len(v.digital) > 0)
      BY <1>0, <2>1
    <3>2. ~(x \div 2 >= Len(v.analog)) /\ x \div 2 + 1 = c
      BY <2>2, <2>5, <3>1
    <3> QED
      BY <3>1, <3>2, Zenon DEF ModuleByte
  <2>6. /\ ModuleByte(v, 2 * c - 2) = LowByte(v.analog[c])
        /\ ModuleByte(v, 2 * c - 1) = HighByte(v.analog[c])
    BY <2>2, <2>5
  <2>7. v.analog[c] \in SignedMin..SignedMax
    BY <1>0
  <2> QED
    BY <2>3, <2>4, <2>6, <2>7, WordRoundTrip
<1>5. ASSUME NEW c \in 1..l
      PROVE  iol[c] = v.io_link[c]
  <2>1. Len(v.digital) = 0 /\ Len(v.analog) = 0
    BY <1>0, <1>1
  <2>2. c - 1 \in 0..bytes - 1 /\ at + (c - 1) = at + c - 1 /\ c - 1 < l /\ (c - 1) + 1 = c
    BY <1>1
  <2>3. ByteAt(image, at + c - 1) = ModuleByte(v, c - 1)
    BY <2>2
  <2>4. ModuleByte(v, c - 1) = v.io_link[c]
    BY <1>0, <2>1, <2>2 DEF ModuleByte
  <2> QED
    BY <2>3, <2>4
<1>6. digital = v.digital /\ analog = v.analog /\ iol = v.io_link
  <2>1. DOMAIN digital = 1..d /\ DOMAIN analog = 1..a /\ DOMAIN iol = 1..l
    OBVIOUS
  <2>2. digital = [c \in 1..d |-> digital[c]] /\ analog = [c \in 1..a |-> analog[c]]
        /\ iol = [c \in 1..l |-> iol[c]]
    OBVIOUS
  <2> HIDE DEF digital, analog, iol
  <2> QED
    BY <1>0, <1>3, <1>4, <1>5, <2>1, <2>2
<1> HIDE DEF digital, analog, iol
<1> QED
  BY <1>0, <1>2, <1>6

\* The modules of an image, each read at its offset
\* Module i reads its own value back from an image of n bytes.
ReturnsOwn(vals, s, n, i, shape) ==
  Decoded(Encode(vals, Offsets(s), s, n), Offsets(s)[i], shape) = vals[i]

LEMMA ImageReturns ==
  ASSUME NEW k \in Nat, NEW s \in [1..k -> Nat], NEW vals, Len(vals) = k,
         NEW n \in Nat, Sums(s)[k] <= n, NEW i \in 1..k,
         NEW d \in Nat, NEW a \in Nat, NEW l \in Nat, Holds(s[i], d, a, l),
         vals[i] \in Values(d, a, l), NEW shape \in Values(d, a, l)
  PROVE  ReturnsOwn(vals, s, n, i, shape)
<1> SUFFICES Decoded(Encode(vals, Offsets(s), s, n), Offsets(s)[i], shape) = vals[i]
  BY DEF ReturnsOwn
<1> DEFINE image == Encode(vals, Offsets(s), s, n)
<1>1. s[i] \in Nat
  OBVIOUS
<1>2. CASE s[i] = 0
  <2>1. d = 0 /\ a = 0 /\ l = 0
    BY <1>2, Bits DEF Holds
  <2>2. Offsets(s)[i] = None
    <3>1. Len(s) = k
      BY Stored
    <3> QED
      BY <1>2, <3>1 DEF Offsets
  <2>3. vals[i] = shape
    <3>1. \A S : \A f, g \in [1..0 -> S] : f = g
      OBVIOUS
    <3>2. /\ vals[i].digital = shape.digital /\ vals[i].analog = shape.analog
          /\ vals[i].io_link = shape.io_link
      BY <2>1, <3>1, ValuesFields
    <3>3. vals[i] = [digital |-> vals[i].digital, analog |-> vals[i].analog,
                     io_link |-> vals[i].io_link]
      BY DEF Values
    <3>4. shape = [digital |-> shape.digital, analog |-> shape.analog,
                   io_link |-> shape.io_link]
      BY DEF Values
    <3> QED
      BY <3>2, <3>3, <3>4
  <2> QED
    BY <2>2, <2>3 DEF Decoded
<1>3. CASE s[i] > 0
  <2>1. ASSUME NEW x \in Nat, x < s[i]
        PROVE  ByteAt(image, Offsets(s)[i] + x) = ModuleByte(vals[i], x)
    BY <2>1, ImageByte
  <2>2. Offsets(s)[i] \in Nat
    BY <1>1, <1>3, OwnBytes
  <2> DEFINE at == Offsets(s)[i]
             bytes == s[i]
             v == vals[i]
  <2> HIDE DEF image
  <2>3. \A x \in 0..bytes - 1 : ByteAt(image, at + x) = ModuleByte(v, x)
    BY <1>1, <2>1
  <2>4. /\ at \in Nat /\ bytes \in Nat /\ Holds(bytes, d, a, l)
        /\ v \in Values(d, a, l) /\ shape \in Values(d, a, l)
    BY <1>1, <2>2
  <2> HIDE DEF at, bytes, v
  <2>5. Decoded(image, at, shape) = v
    BY <2>3, <2>4, ValuesReturn
  <2> QED
    BY <2>5 DEF image, at, v
<1> QED
  BY <1>1, <1>2, <1>3
-----------------------------------------------------------------------------
(* The modules of an image                                                 *)

InputsOf(t) == Values(EsiCatalog[t].din, EsiCatalog[t].ain, EsiCatalog[t].iolIn)
OutputsOf(t) == Values(EsiCatalog[t].dout, EsiCatalog[t].aout, EsiCatalog[t].iolOut)

\* The inputs and outputs of modules of the given types
AreInputs(v, types) ==
  /\ v = [n \in 1..Len(types) |-> v[n]]
  /\ \A n \in 1..Len(types) : v[n] \in InputsOf(types[n])
AreOutputs(v, types) ==
  /\ v = [n \in 1..Len(types) |-> v[n]]
  /\ \A n \in 1..Len(types) : v[n] \in OutputsOf(types[n])

\* A layout gives its modules the bytes of the catalog, one after the other.
IsLayout(l) ==
  /\ Len(l) \in Nat
  /\ \A n \in 1..Len(l) :
       /\ l[n].type \in DOMAIN EsiCatalog
       /\ l[n].in = EsiCatalog[l[n].type].in /\ l[n].out = EsiCatalog[l[n].type].out
  /\ Field(l, "inAt") = Offsets(Field(l, "in"))
  /\ Field(l, "outAt") = Offsets(Field(l, "out"))

\* What a row of the catalog says
LEMMA EsiRow ==
  ASSUME NEW t \in DOMAIN EsiCatalog
  PROVE  /\ t # Invalid /\ t # IolType
         /\ EsiCatalog[t].in \in Nat /\ EsiCatalog[t].out \in Nat
         /\ EsiCatalog[t].din \in Nat /\ EsiCatalog[t].ain \in Nat /\ EsiCatalog[t].iolIn \in Nat
         /\ EsiCatalog[t].dout \in Nat /\ EsiCatalog[t].aout \in Nat
         /\ EsiCatalog[t].iolOut \in Nat
         /\ Holds(EsiCatalog[t].in, EsiCatalog[t].din, EsiCatalog[t].ain, EsiCatalog[t].iolIn)
         /\ Holds(EsiCatalog[t].out, EsiCatalog[t].dout, EsiCatalog[t].aout,
                  EsiCatalog[t].iolOut)
<1>1. EsiCatalog[t] \in [din : Nat, dout : Nat, ain : Nat, aout : Nat, ports : Nat,
                          iolIn : Nat, iolOut : Nat, in : Nat, out : Nat]
  BY EsiAssumption
<1> QED
  BY <1>1, EsiAssumption

\* Nothing set is a value of the channels.
LEMMA NothingSet ==
  ASSUME NEW t \in DOMAIN EsiCatalog
  PROVE  NoInputs(t) \in InputsOf(t) /\ NoOutputs(t) \in OutputsOf(t)
<1>1. 0 \in SignedMin..SignedMax /\ 0 \in Byte
  BY WordFacts DEF Byte
<1> QED
  BY <1>1 DEF NoInputs, NoOutputs, InputsOf, OutputsOf, Values

\* The columns of a layout
LEMMA LayoutSizes ==
  ASSUME NEW l, IsLayout(l)
  PROVE  /\ Field(l, "in") \in [1..Len(l) -> Nat] /\ Field(l, "out") \in [1..Len(l) -> Nat]
         /\ Field(l, "type") \in [1..Len(l) -> DOMAIN EsiCatalog]
         /\ Len(Field(l, "type")) = Len(l) /\ Len(l) \in Nat
         /\ \A n \in 1..Len(l) : /\ Field(l, "type")[n] = l[n].type
                                 /\ Field(l, "in")[n] = EsiCatalog[l[n].type].in
                                 /\ Field(l, "out")[n] = EsiCatalog[l[n].type].out
<1>1. \A n \in 1..Len(l) :
        /\ l[n].type \in DOMAIN EsiCatalog
        /\ l[n].in = EsiCatalog[l[n].type].in /\ l[n].out = EsiCatalog[l[n].type].out
        /\ l[n].in \in Nat /\ l[n].out \in Nat
  BY EsiRow DEF IsLayout
<1>2. Len(l) \in Nat
  BY DEF IsLayout
<1>3. Field(l, "type") \in [1..Len(l) -> DOMAIN EsiCatalog]
  BY <1>1 DEF Field
<1>4. Len(Field(l, "type")) = Len(l)
  BY <1>2, <1>3, Stored
<1> QED
  BY <1>1, <1>2, <1>3, <1>4 DEF Field

\* Two layouts of the same modules have them at the same places.
LEMMA SameModules ==
  ASSUME NEW l, IsLayout(l), NEW m, IsLayout(m), Field(l, "type") = Field(m, "type")
  PROVE  /\ Len(l) = Len(m)
         /\ Field(l, "in") = Field(m, "in") /\ Field(l, "out") = Field(m, "out")
         /\ Field(l, "inAt") = Field(m, "inAt") /\ Field(l, "outAt") = Field(m, "outAt")
<1>1. Len(l) = Len(m)
  BY LayoutSizes
<1>2. \A n \in 1..Len(l) : l[n].type = m[n].type
  BY <1>1, LayoutSizes
<1>3. Field(l, "in") = Field(m, "in") /\ Field(l, "out") = Field(m, "out")
  <2>1. \A n \in 1..Len(l) : l[n].in = m[n].in /\ l[n].out = m[n].out
    BY <1>1, <1>2 DEF IsLayout
  <2> QED
    BY <1>1, <2>1 DEF Field
<1> QED
  BY <1>1, <1>3 DEF IsLayout

\* What is laid out with the bytes of the catalog is a layout.
LEMMA LayoutIs ==
  ASSUME NEW k \in Nat, NEW mods, Len(mods) = k, NEW sizes,
         \A n \in 1..k : /\ mods[n].type \in DOMAIN EsiCatalog
                         /\ sizes[n].in = EsiCatalog[mods[n].type].in
                         /\ sizes[n].out = EsiCatalog[mods[n].type].out
  PROVE  /\ IsLayout(LayoutOf(mods, sizes))
         /\ Field(LayoutOf(mods, sizes), "type") = [n \in 1..k |-> mods[n].type]
<1> DEFINE ins == [n \in 1..k |-> sizes[n].in]
           outs == [n \in 1..k |-> sizes[n].out]
           inAt == Offsets(ins)
           outAt == Offsets(outs)
           row(n) == [slot |-> mods[n].slot, type |-> mods[n].type,
                      in |-> sizes[n].in, out |-> sizes[n].out,
                      inAt |-> inAt[n], outAt |-> outAt[n]]
           l == [n \in 1..k |-> row(n)]
<1>1. LayoutOf(mods, sizes) = l
  BY DEF LayoutOf
<1>2. inAt = [n \in 1..k |-> inAt[n]] /\ outAt = [n \in 1..k |-> outAt[n]]
  <2>1. ins \in [1..k -> Nat] /\ outs \in [1..k -> Nat]
    BY EsiRow
  <2> HIDE DEF ins, outs
  <2>2. Len(ins) = k /\ Len(outs) = k
    BY <2>1, Stored
  <2> QED
    BY <2>2 DEF Offsets
<1> HIDE DEF inAt, outAt
<1>3. \A n \in 1..k : /\ row(n).type = mods[n].type
                      /\ row(n).in = sizes[n].in /\ row(n).out = sizes[n].out
                      /\ row(n).inAt = inAt[n] /\ row(n).outAt = outAt[n]
  OBVIOUS
<1> HIDE DEF row
<1>4. Len(l) = k
  <2> DEFINE S == {row(n) : n \in 1..k}
  <2>1. l \in [1..k -> S]
    OBVIOUS
  <2> HIDE DEF S, l
  <2> QED
    BY <2>1, Stored
<1>5. \A n \in 1..k : l[n] = row(n)
  OBVIOUS
<1> HIDE DEF l
<1>6. Field(l, "in") = ins /\ Field(l, "out") = outs
  BY <1>3, <1>4, <1>5 DEF Field
<1>7. Field(l, "inAt") = inAt /\ Field(l, "outAt") = outAt
  BY <1>2, <1>3, <1>4, <1>5 DEF Field
<1>8. Field(l, "type") = [n \in 1..k |-> mods[n].type]
  BY <1>3, <1>4, <1>5 DEF Field
<1>9. IsLayout(l)
  <2>1. Field(l, "inAt") = Offsets(Field(l, "in")) /\ Field(l, "outAt") = Offsets(Field(l, "out"))
    BY <1>6, <1>7 DEF inAt, outAt
  <2>2. \A n \in 1..Len(l) :
          /\ l[n].type \in DOMAIN EsiCatalog
          /\ l[n].in = EsiCatalog[l[n].type].in /\ l[n].out = EsiCatalog[l[n].type].out
    BY <1>3, <1>4, <1>5
  <2> HIDE DEF inAt, outAt, ins, outs
  <2> QED
    BY <1>4, <2>1, <2>2 DEF IsLayout
<1> QED
  BY <1>1, <1>8, <1>9
-----------------------------------------------------------------------------
(* The layout of a configuration that is accepted                          *)

\* Sorting by slots keeps the number of modules.
LEMMA SplitLength ==
  ASSUME NEW d \in Declarations
  PROVE  Len(Split(d.modules)) \in Nat
<1> DEFINE k == Len(d.modules)
           S == {Split(d.modules)[n] : n \in 1..k}
<1>1. k \in Nat
  BY StationAssumption
<1>2. Split(d.modules) \in [1..k -> S]
  BY DEF Split
<1> HIDE DEF k, S
<1> QED
  BY <1>1, <1>2, Stored

\* A module that is not refused has a row in the catalog.
LEMMA InfoTypeIs ==
  ASSUME NEW m, NEW ports, InfoType(m, ports) # Invalid
  PROVE  InfoType(m, ports) \in DOMAIN EsiCatalog
<1>1. CASE m.type # IolType
  BY <1>1 DEF InfoType
<1>2. CASE m.type = IolType
  <2>1. InfoType(m, ports) = Variants[VariantBytes(ports, m.slot)]
        /\ VariantBytes(ports, m.slot) # 0
    BY <1>2 DEF InfoType, IolInfo
  <2> DEFINE large == {b \in DOMAIN Variants :
                         MaxOf({p.need : p \in Bound(ports, m.slot)}) <= b}
  <2>2. large # {} /\ VariantBytes(ports, m.slot) = MinOf(large)
    BY <2>1 DEF VariantBytes
  <2>3. large \subseteq DOMAIN Variants /\ large \in SUBSET Nat
    BY StationAssumption
  <2> HIDE DEF large
  <2>4. MinOf(large) \in DOMAIN Variants
    BY <2>2, <2>3, LeastExists
  <2> QED
    BY <2>1, <2>2, <2>4, StationAssumption
<1> QED
  BY <1>1, <1>2

\* A configuration that is accepted is a layout and has fixed images that hold it.
LEMMA BuiltIs ==
  ASSUME NEW d \in Declarations, Built(d) # Rejected
  PROVE  /\ IsLayout(Built(d))
         /\ FixedPdo(Total(Built(d)).in) # 0 /\ FixedPdo(Total(Built(d)).out) # 0
<1> DEFINE items == Split(d.modules)
           k == Len(items)
           types == [n \in 1..k |-> InfoType(items[n], d.ports)]
           mods == [n \in 1..k |-> [slot |-> items[n].slot, type |-> types[n]]]
           sizes == [n \in 1..k |-> EsiSized(types[n])]
           l == LayoutOf(mods, sizes)
<1>1. k \in Nat
  BY SplitLength
<1>2. /\ Built(d) = l /\ Invalid \notin ToSet(types)
      /\ FixedPdo(Total(l).in) # 0 /\ FixedPdo(Total(l).out) # 0
  <2> HIDE DEF types, l
  <2> QED
    BY DEF Built, types, l
<1>3. Len(types) = k /\ Len(mods) = k
  <2> DEFINE S == {types[n] : n \in 1..k}
             R == {mods[n] : n \in 1..k}
  <2>1. types \in [1..k -> S] /\ mods \in [1..k -> R]
    OBVIOUS
  <2> HIDE DEF types, mods, S, R, k
  <2> QED
    BY <1>1, <2>1, Stored
<1>4. \A n \in 1..k : types[n] \in DOMAIN EsiCatalog
  <2> SUFFICES ASSUME NEW n \in 1..k
               PROVE  types[n] \in DOMAIN EsiCatalog
    OBVIOUS
  <2>1. types[n] # Invalid
    BY <1>2 DEF ToSet
  <2>2. types[n] = InfoType(items[n], d.ports)
    OBVIOUS
  <2> HIDE DEF types
  <2> QED
    BY <2>1, <2>2, InfoTypeIs
<1>5. \A n \in 1..k : /\ mods[n].type \in DOMAIN EsiCatalog
                      /\ sizes[n].in = EsiCatalog[mods[n].type].in
                      /\ sizes[n].out = EsiCatalog[mods[n].type].out
  <2> HIDE DEF types, k
  <2> QED
    BY <1>4 DEF EsiSized
<1> HIDE DEF mods, sizes, k
<1>6. IsLayout(l)
  BY <1>1, <1>3, <1>5, LayoutIs
<1> QED
  BY <1>2, <1>6

\* A fixed image holds the bytes it is selected for.
LEMMA FixedPdoHolds ==
  ASSUME NEW b \in Nat, FixedPdo(b) # 0
  PROVE  FixedPdo(b) \in Nat /\ b <= FixedPdo(b)
<1> DEFINE fit == {s \in FixedSizes : s >= b /\ s >= 1}
<1>1. fit # {} /\ FixedPdo(b) = MinOf(fit)
  BY DEF FixedPdo
<1>2. fit \in SUBSET Nat
  BY StationAssumption
<1> HIDE DEF fit
<1>3. MinOf(fit) \in fit
  BY <1>1, <1>2, LeastExists
<1> QED
  BY <1>1, <1>2, <1>3 DEF fit

\* The bytes of all modules
LEMMA TotalIs ==
  ASSUME NEW l, IsLayout(l)
  PROVE  /\ Total(l).in = Sums(Field(l, "in"))[Len(l)] /\ Total(l).in \in Nat
         /\ Total(l).out = Sums(Field(l, "out"))[Len(l)] /\ Total(l).out \in Nat
<1> DEFINE k == Len(l)
           s == Field(l, "in")
           o == Field(l, "out")
<1>1. k \in Nat /\ s \in [1..k -> Nat] /\ o \in [1..k -> Nat]
  BY LayoutSizes
<1>2. Total(l).in = Sums(s)[k] /\ Total(l).out = Sums(o)[k]
  BY DEF Total
<1> HIDE DEF s, o, k
<1>3. Sums(s)[k] \in Nat /\ Sums(o)[k] \in Nat
  <2>1. k \in 0..k
    BY <1>1
  <2> QED
    BY <1>1, <2>1, SumsFacts
<1> QED
  BY <1>2, <1>3 DEF s, o, k
-----------------------------------------------------------------------------
(* The inductive invariant                                                 *)

\* The two sides have a value for every channel of their modules, an image
\* that is exchanged has room for all of them, and what was exchanged agrees.
ShapeInv ==
  /\ phase \in {"configure", "failed", "down", "op"}
  /\ fitted \in Seq(DOMAIN EsiCatalog)
  /\ IsLayout(layout)
  /\ sent \in BOOLEAN /\ received \in BOOLEAN
  /\ writes \in 0..MaxWrites /\ inputs \in 0..MaxInputs
  /\ stationLosses \in 0..MaxStationLosses
ServerInv ==
  /\ AreOutputs(out, Field(layout, "type")) /\ AreInputs(in, Field(layout, "type"))
FittedInv ==
  /\ AreOutputs(devOut, fitted) /\ AreInputs(devIn, fitted)
PdoInv ==
  phase \in {"down", "op"} =>
    FixedPdo(Total(layout).in) # 0 /\ FixedPdo(Total(layout).out) # 0
SizeInv ==
  phase = "op" =>
    /\ Field(layout, "type") = fitted
    /\ size.in \in Nat /\ Total(layout).in <= size.in
    /\ size.out \in Nat /\ Total(layout).out <= size.out
StationInv == ShapeInv /\ ServerInv /\ FittedInv /\ PdoInv /\ SizeInv /\ ImagesAgree

\* Nothing is configured at first.
LEMMA EmptyLayout == IsLayout(<<>>) /\ Field(<<>>, "type") = <<>>
<1>1. Field(<<>>, "type") = <<>> /\ Field(<<>>, "in") = <<>> /\ Field(<<>>, "out") = <<>>
      /\ Field(<<>>, "inAt") = <<>> /\ Field(<<>>, "outAt") = <<>>
  BY DEF Field
<1>2. Offsets(<<>>) = <<>>
  BY DEF Offsets
<1> QED
  BY <1>1, <1>2 DEF IsLayout

\* Modules with nothing set have the values of their channels.
LEMMA AllNothingSet ==
  ASSUME NEW k \in Nat, NEW types, Len(types) = k, \A n \in 1..k : types[n] \in DOMAIN EsiCatalog
  PROVE  /\ AreOutputs([n \in 1..k |-> NoOutputs(types[n])], types)
         /\ AreInputs([n \in 1..k |-> NoInputs(types[n])], types)
BY NothingSet DEF AreOutputs, AreInputs

\* The bounds of the model
LEMMA Bounds == MaxWrites \in Nat /\ MaxInputs \in Nat /\ MaxStationLosses \in Nat
BY StationAssumption

\* The invariant holds at first, and every action keeps it.
LEMMA InitHolds == StationInit => StationInv
<1> SUFFICES ASSUME StationInit
             PROVE  StationInv
  OBVIOUS
<1> USE DEF StationInit
<1>1. fitted \in Seq(DOMAIN EsiCatalog) /\ Len(fitted) \in Nat
      /\ \A n \in 1..Len(fitted) : fitted[n] \in DOMAIN EsiCatalog
  BY StationAssumption
<1>2. ShapeInv
  <2>1. IsLayout(layout)
    BY EmptyLayout
  <2>2. writes \in 0..MaxWrites /\ inputs \in 0..MaxInputs
        /\ stationLosses \in 0..MaxStationLosses
    BY Bounds
  <2> QED
    BY <1>1, <2>1, <2>2 DEF ShapeInv
<1>3. ServerInv
  BY EmptyLayout DEF ServerInv, AreOutputs, AreInputs
<1>4. FittedInv
  BY <1>1, AllNothingSet DEF FittedInv
<1>5. PdoInv /\ SizeInv /\ ImagesAgree
  BY DEF PdoInv, SizeInv, ImagesAgree, OutputsArrive, InputsArrive
<1> QED
  BY <1>2, <1>3, <1>4, <1>5 DEF StationInv

LEMMA ConfiguresHolds ==
  ASSUME StationInv, NEW d \in Declarations, Configures(d)
  PROVE  StationInv'
<1> USE DEF StationInv
<1>1. CASE Built(d) = Rejected
  BY <1>1 DEF Configures, ShapeInv, ServerInv, FittedInv, PdoInv, SizeInv, ImagesAgree,
              OutputsArrive, InputsArrive
<1>2. CASE Built(d) # Rejected
  <2>1. /\ layout' = Built(d) /\ phase' = "down"
        /\ out' = [n \in 1..Len(layout') |-> NoOutputs(layout'[n].type)]
        /\ in' = [n \in 1..Len(layout') |-> NoInputs(layout'[n].type)]
        /\ UNCHANGED <<fitted, size, devOut, devIn, sent, received, writes,
                       inputs, stationLosses>>
    BY <1>2 DEF Configures
  <2>2. IsLayout(layout') /\ FixedPdo(Total(layout').in) # 0 /\ FixedPdo(Total(layout').out) # 0
    BY <1>2, <2>1, BuiltIs
  <2>3. ShapeInv'
    BY <2>1, <2>2 DEF ShapeInv
  <2>4. ServerInv'
    <3> DEFINE l == layout'
               types == Field(l, "type")
    <3>1. Len(l) \in Nat /\ Len(types) = Len(l)
          /\ \A n \in 1..Len(l) : types[n] = l[n].type /\ types[n] \in DOMAIN EsiCatalog
      BY <2>2, LayoutSizes
    <3>2. /\ out' = [n \in 1..Len(l) |-> NoOutputs(types[n])]
          /\ in' = [n \in 1..Len(l) |-> NoInputs(types[n])]
      BY <2>1, <3>1
    <3> HIDE DEF types, l
    <3>3. AreOutputs(out', types) /\ AreInputs(in', types)
      BY <3>1, <3>2, AllNothingSet
    <3> QED
      BY <3>3 DEF ServerInv, types, l
  <2>5. FittedInv'
    BY <2>1 DEF FittedInv
  <2>6. PdoInv' /\ SizeInv' /\ ImagesAgree'
    BY <2>1, <2>2 DEF PdoInv, SizeInv, ImagesAgree, OutputsArrive, InputsArrive
  <2> QED
    BY <2>3, <2>4, <2>5, <2>6
<1> QED
  BY <1>1, <1>2

\* Switching variants keeps the number of modules behind the station.
LEMMA SwitchedIs ==
  ASSUME StationInv, NEW mods \in SUBSET IolModules
  PROVE  /\ Switched(mods) \in Seq(DOMAIN EsiCatalog)
         /\ Len(Switched(mods)) = Len(fitted) /\ Len(fitted) \in Nat
<1>1. /\ Len(fitted) \in Nat /\ \A n \in 1..Len(fitted) : fitted[n] \in DOMAIN EsiCatalog
      /\ \A m \in mods : m.type \in DOMAIN EsiCatalog
  <2>1. \A m \in IolModules : m.type \in DOMAIN EsiCatalog
    BY DEF IolModules, ToSet, StationInv, ShapeInv, IsLayout
  <2> QED
    BY <2>1 DEF StationInv, ShapeInv
<1>2. Switched(mods) \in [1..Len(fitted) -> DOMAIN EsiCatalog]
  BY <1>1 DEF Switched
<1> QED
  BY <1>1, <1>2, Stored

\* The values of the modules of a station whose variants have been switched
LEMMA FittedAnew ==
  ASSUME StationInv, NEW mods \in SUBSET IolModules, fitted' = Switched(mods),
         devOut' = [n \in 1..Len(fitted) |-> NoOutputs(fitted'[n])],
         devIn' = [n \in 1..Len(fitted) |-> NoInputs(fitted'[n])]
  PROVE  FittedInv' /\ (fitted \in Seq(DOMAIN EsiCatalog))'
<1>1. fitted' \in Seq(DOMAIN EsiCatalog) /\ Len(fitted') = Len(fitted) /\ Len(fitted) \in Nat
  BY SwitchedIs
<1>2. \A n \in 1..Len(fitted) : fitted'[n] \in DOMAIN EsiCatalog
  BY <1>1
<1>3. AreOutputs(devOut', fitted') /\ AreInputs(devIn', fitted')
  BY <1>1, <1>2, AllNothingSet
<1> QED
  BY <1>1, <1>3 DEF FittedInv

LEMMA StationConnectsHolds ==
  ASSUME StationInv, NEW modular \in BOOLEAN, StationConnects(modular)
  PROVE  StationInv'
<1> USE DEF StationInv, StationConnects
<1>1. /\ phase' = "op" /\ fitted' = Switched(IolModules) /\ size' = ImageSize(modular)
      /\ devOut' = [n \in 1..Len(fitted) |-> NoOutputs(fitted'[n])]
      /\ devIn' = [n \in 1..Len(fitted) |-> NoInputs(fitted'[n])]
      /\ Field(layout, "type") = fitted'
      /\ sent' = FALSE /\ received' = FALSE
      /\ layout' = layout /\ out' = out /\ in' = in
      /\ writes' = writes /\ inputs' = inputs /\ stationLosses' = stationLosses
  BY DEF IdentsMatch
<1>2. FittedInv' /\ (fitted \in Seq(DOMAIN EsiCatalog))'
  BY <1>1, FittedAnew
<1>3. ShapeInv'
  BY <1>1, <1>2 DEF ShapeInv
<1>4. ServerInv' /\ PdoInv' /\ ImagesAgree'
  BY <1>1 DEF ServerInv, PdoInv, ImagesAgree, OutputsArrive, InputsArrive
<1>5. SizeInv'
  <2> DEFINE i == Total(layout).in
             o == Total(layout).out
  <2>1. i \in Nat /\ o \in Nat
    BY TotalIs DEF ShapeInv
  <2>2. FixedPdo(i) # 0 /\ FixedPdo(o) # 0
    BY DEF PdoInv
  <2>3. /\ FixedPdo(i) \in Nat /\ i <= FixedPdo(i)
        /\ FixedPdo(o) \in Nat /\ o <= FixedPdo(o)
    BY <2>1, <2>2, FixedPdoHolds
  <2>4. \/ size'.in = i /\ size'.out = o
        \/ size'.in = FixedPdo(i) /\ size'.out = FixedPdo(o)
    BY <1>1 DEF ImageSize
  <2> HIDE DEF i, o
  <2>5. size'.in \in Nat /\ size'.out \in Nat /\ i <= size'.in /\ o <= size'.out
    BY <2>1, <2>3, <2>4
  <2> QED
    BY <1>1, <2>5 DEF SizeInv, i, o
<1> QED
  BY <1>2, <1>3, <1>4, <1>5

LEMMA ConnectFailsHolds ==
  ASSUME StationInv, ConnectFails
  PROVE  StationInv'
<1> USE DEF StationInv
<1>1. PICK mods \in SUBSET {m \in IolModules : TakesVariant(m)} :
        /\ fitted' = Switched(mods)
        /\ devOut' = [n \in 1..Len(fitted) |-> NoOutputs(fitted'[n])]
        /\ devIn' = [n \in 1..Len(fitted) |-> NoInputs(fitted'[n])]
  BY DEF ConnectFails
<1>2. mods \in SUBSET IolModules
  OBVIOUS
<1>3. FittedInv' /\ (fitted \in Seq(DOMAIN EsiCatalog))'
  BY <1>1, <1>2, FittedAnew
<1>4. /\ phase = "down" /\ stationLosses < MaxStationLosses
      /\ stationLosses' = stationLosses + 1
      /\ UNCHANGED <<phase, layout, size, out, in, sent, received, writes, inputs>>
  BY DEF ConnectFails
<1>5. ShapeInv'
  BY <1>3, <1>4, Bounds DEF ShapeInv
<1>6. ServerInv' /\ PdoInv' /\ SizeInv' /\ ImagesAgree'
  BY <1>4 DEF ServerInv, PdoInv, SizeInv, ImagesAgree, OutputsArrive, InputsArrive
<1> QED
  BY <1>3, <1>5, <1>6

LEMMA StationIsLostHolds ==
  ASSUME StationInv, StationIsLost
  PROVE  StationInv'
<1> USE DEF StationInv, StationIsLost
<1>1. ShapeInv'
  <2>1. stationLosses' \in 0..MaxStationLosses
    BY Bounds DEF ShapeInv
  <2>2. IsLayout(layout')
    BY DEF ShapeInv
  <2> QED
    BY <2>1, <2>2 DEF ShapeInv
<1>2. FittedInv'
  <2>1. Len(fitted) \in Nat /\ \A n \in 1..Len(fitted) : fitted[n] \in DOMAIN EsiCatalog
    BY DEF ShapeInv
  <2>2. AreOutputs(devOut', fitted)
    BY <2>1, AllNothingSet
  <2> QED
    BY <2>2 DEF FittedInv
<1>3. ServerInv' /\ PdoInv' /\ SizeInv' /\ ImagesAgree'
  BY DEF ServerInv, PdoInv, SizeInv, ImagesAgree, OutputsArrive, InputsArrive
<1> QED
  BY <1>1, <1>2, <1>3

\* Values of a sequence of modules are a sequence as long.
LEMMA ValuesLength ==
  ASSUME NEW types, Len(types) \in Nat, NEW v, v = [n \in 1..Len(types) |-> v[n]]
  PROVE  Len(v) = Len(types)
<1> DEFINE S == {v[n] : n \in 1..Len(types)}
<1>1. v \in [1..Len(types) -> S]
  OBVIOUS
<1> HIDE DEF S
<1> QED
  BY <1>1, Stored

\* The layout the station has of modules that are those of the configuration
LEMMA StationLayoutIs ==
  ASSUME StationInv, phase = "op"
  PROVE  /\ IsLayout(StationLayout) /\ Field(StationLayout, "type") = fitted
         /\ Len(fitted) = Len(layout) /\ Len(StationLayout) = Len(layout)
         /\ Field(StationLayout, "in") = Field(layout, "in")
         /\ Field(StationLayout, "inAt") = Field(layout, "inAt")
         /\ Field(StationLayout, "outAt") = Field(layout, "outAt")
<1> DEFINE k == Len(fitted)
           mods == [n \in 1..k |-> [slot |-> n, type |-> fitted[n]]]
           sizes == [n \in 1..k |-> [in |-> EsiCatalog[fitted[n]].in,
                                     out |-> EsiCatalog[fitted[n]].out]]
           sl == LayoutOf(mods, sizes)
<1>1. k \in Nat /\ (\A n \in 1..k : fitted[n] \in DOMAIN EsiCatalog)
      /\ fitted = [n \in 1..k |-> fitted[n]]
  BY DEF StationInv, ShapeInv
<1>2. StationLayout = sl
  BY DEF StationLayout
<1>3. Len(mods) = k
  <2> DEFINE S == {[slot |-> n, type |-> fitted[n]] : n \in 1..k}
  <2>1. mods \in [1..k -> S]
    OBVIOUS
  <2> HIDE DEF mods, S, k
  <2> QED
    BY <1>1, <2>1, Stored
<1>4. \A n \in 1..k : /\ mods[n].type \in DOMAIN EsiCatalog
                      /\ sizes[n].in = EsiCatalog[mods[n].type].in
                      /\ sizes[n].out = EsiCatalog[mods[n].type].out
  BY <1>1
<1>5. [n \in 1..k |-> mods[n].type] = fitted
  BY <1>1
<1> HIDE DEF k, mods, sizes
<1>6. IsLayout(sl) /\ Field(sl, "type") = fitted
  BY <1>1, <1>3, <1>4, <1>5, LayoutIs
<1> HIDE DEF sl
<1>7. IsLayout(layout) /\ Field(layout, "type") = fitted
  BY DEF StationInv, ShapeInv, SizeInv
<1>8. /\ Len(sl) = Len(layout) /\ Field(sl, "in") = Field(layout, "in")
      /\ Field(sl, "inAt") = Field(layout, "inAt")
      /\ Field(sl, "outAt") = Field(layout, "outAt")
  BY <1>6, <1>7, SameModules
<1>9. Len(fitted) = Len(layout)
  BY <1>7, LayoutSizes
<1> QED
  BY <1>2, <1>6, <1>8, <1>9

\* One exchange makes the two sides agree.
LEMMA ExchangeReturns ==
  ASSUME StationInv, phase = "op", NEW n \in 1..Len(layout)
  PROVE  /\ Consumed(Prepared, StationLayout, n) = out[n]
         /\ Received(Published(StationLayout), n) = devIn[n]
<1> DEFINE k == Len(layout)
           ins == Field(layout, "in")
           outs == Field(layout, "out")
           t == layout[n].type
           c == EsiCatalog[t]
           sl == StationLayout
<1>1. /\ IsLayout(layout) /\ Field(layout, "type") = fitted
      /\ size.in \in Nat /\ Total(layout).in <= size.in
      /\ size.out \in Nat /\ Total(layout).out <= size.out
  BY DEF StationInv, ShapeInv, SizeInv
<1>2. /\ k \in Nat /\ ins \in [1..k -> Nat] /\ outs \in [1..k -> Nat] /\ n \in 1..k
      /\ t \in DOMAIN EsiCatalog /\ fitted[n] = t /\ Len(fitted) = k
      /\ ins[n] = c.in /\ outs[n] = c.out
  BY <1>1, LayoutSizes
<1>3. Sums(ins)[k] <= size.in /\ Sums(outs)[k] <= size.out
  BY <1>1, TotalIs
<1>4. /\ out[n] \in OutputsOf(t) /\ devOut[n] \in OutputsOf(t)
      /\ in[n] \in InputsOf(t) /\ devIn[n] \in InputsOf(t)
  BY <1>1, <1>2 DEF StationInv, ServerInv, FittedInv, AreOutputs, AreInputs
<1>5. Len(out) = k /\ Len(devIn) = k
  BY <1>1, <1>2, ValuesLength DEF StationInv, ServerInv, FittedInv, AreOutputs, AreInputs
<1>6. /\ c.din \in Nat /\ c.ain \in Nat /\ c.iolIn \in Nat
      /\ c.dout \in Nat /\ c.aout \in Nat /\ c.iolOut \in Nat
      /\ Holds(ins[n], c.din, c.ain, c.iolIn) /\ Holds(outs[n], c.dout, c.aout, c.iolOut)
  BY <1>2, EsiRow
<1>7. Field(layout, "inAt") = Offsets(ins) /\ Field(layout, "outAt") = Offsets(outs)
  BY <1>1 DEF IsLayout
<1>8. /\ Field(sl, "in") = ins /\ Field(sl, "inAt") = Offsets(ins)
      /\ Field(sl, "outAt") = Offsets(outs) /\ Len(sl) = k
  BY <1>7, StationLayoutIs
<1>9. layout[n].inAt = Offsets(ins)[n] /\ sl[n].outAt = Offsets(outs)[n]
  <2>1. Field(layout, "inAt")[n] = layout[n].inAt
    BY DEF Field
  <2>2. Field(sl, "outAt")[n] = sl[n].outAt
    BY <1>2, <1>8 DEF Field
  <2> QED
    BY <1>7, <1>8, <2>1, <2>2
<1>10. /\ Prepared = Encode(out, Offsets(outs), outs, size.out)
       /\ Published(sl) = Encode(devIn, Offsets(ins), ins, size.in)
  BY <1>7, <1>8 DEF Prepared, Published
<1>11. /\ out[n] \in Values(c.dout, c.aout, c.iolOut)
       /\ devOut[n] \in Values(c.dout, c.aout, c.iolOut)
       /\ in[n] \in Values(c.din, c.ain, c.iolIn)
       /\ devIn[n] \in Values(c.din, c.ain, c.iolIn)
  BY <1>4 DEF OutputsOf, InputsOf
<1> HIDE DEF k, ins, outs, t, c, sl
<1>12. Decoded(Encode(out, Offsets(outs), outs, size.out), Offsets(outs)[n], devOut[n]) = out[n]
  <2> DEFINE d == c.dout
             a == c.aout
             w == c.iolOut
             shape == devOut[n]
             room == size.out
  <2>1. /\ outs \in [1..k -> Nat] /\ Len(out) = k /\ room \in Nat /\ Sums(outs)[k] <= room
        /\ d \in Nat /\ a \in Nat /\ w \in Nat /\ Holds(outs[n], d, a, w)
        /\ out[n] \in Values(d, a, w) /\ shape \in Values(d, a, w)
    BY <1>1, <1>2, <1>3, <1>5, <1>6, <1>11
  <2> HIDE DEF d, a, w, shape, room
  <2>2. ReturnsOwn(out, outs, room, n, shape)
    BY <1>2, <2>1, ImageReturns
  <2> QED
    BY <2>2 DEF shape, room, ReturnsOwn
<1>13. Decoded(Encode(devIn, Offsets(ins), ins, size.in), Offsets(ins)[n], in[n]) = devIn[n]
  <2> DEFINE d == c.din
             a == c.ain
             w == c.iolIn
             shape == in[n]
             room == size.in
  <2>1. /\ ins \in [1..k -> Nat] /\ Len(devIn) = k /\ room \in Nat /\ Sums(ins)[k] <= room
        /\ d \in Nat /\ a \in Nat /\ w \in Nat /\ Holds(ins[n], d, a, w)
        /\ devIn[n] \in Values(d, a, w) /\ shape \in Values(d, a, w)
    BY <1>1, <1>2, <1>3, <1>5, <1>6, <1>11
  <2> HIDE DEF d, a, w, shape, room
  <2>2. ReturnsOwn(devIn, ins, room, n, shape)
    BY <1>2, <2>1, ImageReturns
  <2> QED
    BY <2>2 DEF shape, room, ReturnsOwn
<1> QED
  BY <1>9, <1>10, <1>12, <1>13 DEF Consumed, Received, sl

\* A cycle keeps the invariant.
LEMMA ExchangeHolds ==
  ASSUME StationInv, Exchange
  PROVE  StationInv'
<1> USE DEF StationInv
<1>1. /\ phase = "op"
      /\ devOut' = [n \in 1..Len(fitted) |-> Consumed(Prepared, StationLayout, n)]
      /\ in' = [n \in 1..Len(layout) |-> Received(Published(StationLayout), n)]
      /\ sent' = TRUE /\ received' = TRUE
      /\ UNCHANGED <<phase, layout, fitted, size, out, devIn, writes, inputs, stationLosses>>
  BY DEF Exchange
<1>2. Len(fitted) = Len(layout) /\ Field(layout, "type") = fitted
      /\ Len(Field(layout, "type")) = Len(layout)
  BY <1>1, StationLayoutIs DEF SizeInv
<1>3. \A n \in 1..Len(layout) : /\ Consumed(Prepared, StationLayout, n) = out[n]
                                /\ Received(Published(StationLayout), n) = devIn[n]
  BY <1>1, ExchangeReturns
<1>4. /\ out = [n \in 1..Len(layout) |-> out[n]]
      /\ devIn = [n \in 1..Len(layout) |-> devIn[n]]
  BY <1>2 DEF ServerInv, FittedInv, AreOutputs, AreInputs
<1>5. devOut' = out /\ in' = devIn
  BY <1>1, <1>2, <1>3, <1>4
<1>6. ServerInv' /\ FittedInv'
  BY <1>1, <1>2, <1>5 DEF ServerInv, FittedInv
<1>7. ShapeInv' /\ PdoInv' /\ SizeInv'
  BY <1>1 DEF ShapeInv, PdoInv, SizeInv
<1>8. ImagesAgree'
  BY <1>1, <1>5 DEF ImagesAgree, OutputsArrive, InputsArrive
<1> QED
  BY <1>6, <1>7, <1>8

\* Inputs set at a module of the station have not been received yet.
LEMMA InputsBecomeHolds ==
  ASSUME StationInv, CanChangeInputs, NEW n \in 1..Len(devIn), NEW v,
         n \in 1..Len(fitted) => v \in InputsOf(fitted[n]), InputsBecome(n, v)
  PROVE  StationInv'
<1> USE DEF StationInv
<1>1. /\ devIn' = [devIn EXCEPT ![n] = v] /\ received' = FALSE
      /\ UNCHANGED <<phase, layout, fitted, size, out, in, devOut, sent, writes,
                     stationLosses>>
      /\ inputs < MaxInputs /\ inputs' = inputs + 1
  BY DEF InputsBecome, CanChangeInputs
<1>2. FittedInv'
  <2>1. Len(fitted) \in Nat
    BY DEF ShapeInv
  <2>2. devIn = [j \in 1..Len(fitted) |-> devIn[j]] /\ Len(devIn) = Len(fitted)
        /\ \A j \in 1..Len(fitted) : devIn[j] \in InputsOf(fitted[j])
    BY <2>1, ValuesLength DEF FittedInv, AreInputs
  <2>3. AreInputs(devIn', fitted)
    BY <1>1, <2>2 DEF AreInputs
  <2> QED
    BY <1>1, <2>3 DEF FittedInv
<1>3. ShapeInv'
  <2>1. inputs' \in 0..MaxInputs
    BY <1>1, Bounds DEF ShapeInv
  <2>2. IsLayout(layout')
    BY <1>1 DEF ShapeInv
  <2> QED
    BY <1>1, <2>1, <2>2 DEF ShapeInv
<1>4. ServerInv' /\ PdoInv' /\ SizeInv' /\ ImagesAgree'
  BY <1>1 DEF ServerInv, PdoInv, SizeInv, ImagesAgree, OutputsArrive, InputsArrive
<1> QED
  BY <1>2, <1>3, <1>4

\* Digital, analog and IO-Link inputs that change, or are reset
LEMMA InputsHold ==
  ASSUME StationInv, NEW n \in 1..Len(devIn),
         \/ \E c \in 1..3 : WriteDigitalInput(n, c)
         \/ \E v \in AnalogValues : WriteAnalogInput(n, 1, v)
         \/ \E p \in Payloads : WriteIolInput(n, p)
         \/ ResetInputs(n)
  PROVE  StationInv'
<1>1. Len(fitted) \in Nat /\ Len(devIn) = Len(fitted)
      /\ fitted[n] \in DOMAIN EsiCatalog /\ devIn[n] \in InputsOf(fitted[n])
  <2>1. Len(fitted) \in Nat /\ \A j \in 1..Len(fitted) : fitted[j] \in DOMAIN EsiCatalog
    BY DEF StationInv, ShapeInv
  <2>2. Len(devIn) = Len(fitted)
    BY <2>1, ValuesLength DEF StationInv, FittedInv, AreInputs
  <2> QED
    BY <2>1, <2>2 DEF StationInv, FittedInv, AreInputs
<1> DEFINE v == devIn[n]
           t == fitted[n]
           e == EsiCatalog[t]
<1>2. e.din \in Nat /\ e.ain \in Nat /\ e.iolIn \in Nat
  BY <1>1, EsiRow
<1>3. v \in Values(e.din, e.ain, e.iolIn)
  BY <1>1 DEF InputsOf
<1>4. Len(v.digital) = e.din /\ Len(v.analog) = e.ain /\ Len(v.io_link) = e.iolIn
  <2> HIDE DEF v, e
  <2> QED
    BY <1>2, <1>3, ValuesFields
<1>5. CASE \E c \in 1..3 : WriteDigitalInput(n, c)
  <2>1. PICK c \in 1..Len(v.digital) :
          CanChangeInputs /\ InputsBecome(n, [v EXCEPT !.digital[c] = ~@])
    BY <1>5 DEF WriteDigitalInput
  <2>2. [v EXCEPT !.digital[c] = ~@] \in InputsOf(t)
    BY <1>3, <1>4 DEF InputsOf, Values
  <2> QED
    BY <1>1, <2>1, <2>2, InputsBecomeHolds
<1>6. CASE \E x \in AnalogValues : WriteAnalogInput(n, 1, x)
  <2>1. PICK x \in AnalogValues :
          /\ CanChangeInputs /\ 1 \in 1..Len(v.analog) /\ AnalogOk(x)
          /\ InputsBecome(n, [v EXCEPT !.analog[1] = x])
    BY <1>6 DEF WriteAnalogInput
  <2>2. [v EXCEPT !.analog[1] = x] \in InputsOf(t)
    BY <1>3, <1>4, <2>1 DEF InputsOf, Values, AnalogOk
  <2> QED
    BY <1>1, <2>1, <2>2, InputsBecomeHolds
<1>7. CASE \E p \in Payloads : WriteIolInput(n, p)
  <2>1. PICK p \in Payloads :
          /\ CanChangeInputs /\ Len(p) = Len(v.io_link)
          /\ InputsBecome(n, [v EXCEPT !.io_link = p])
    BY <1>7 DEF WriteIolInput
  <2>2. p \in [1..e.iolIn -> Byte]
    <3>1. p \in Seq(Byte)
      BY StationAssumption
    <3> QED
      BY <1>4, <2>1, <3>1
  <2>3. [v EXCEPT !.io_link = p] \in InputsOf(t)
    BY <1>3, <2>2 DEF InputsOf, Values
  <2> QED
    BY <1>1, <2>1, <2>3, InputsBecomeHolds
<1>8. CASE ResetInputs(n)
  BY <1>1, <1>8, NothingSet, InputsBecomeHolds DEF ResetInputs
<1> QED
  BY <1>5, <1>6, <1>7, <1>8
-----------------------------------------------------------------------------
(* Output requests                                                         *)

\* The module types of the configuration
Types == Field(layout, "type")

\* They are rows of the catalog.
LEMMA TypesAre ==
  ASSUME StationInv
  PROVE  /\ Len(Types) = Len(layout) /\ Len(layout) \in Nat
         /\ \A n \in 1..Len(layout) : Types[n] \in DOMAIN EsiCatalog
BY LayoutSizes DEF StationInv, ShapeInv, Types

\* The items of a request
LEMMA WriteIs ==
  ASSUME NEW w \in OutputWrites
  PROVE  /\ w.channel \in Nat
         /\ w.kind \in {"digital", "analog"} \/ (w.kind = "io_link" /\ w.value \in Seq(Byte))
<1>1. Payloads \subseteq Seq(Byte)
  BY StationAssumption
<1> QED
  BY <1>1 DEF OutputWrites

\* A write that goes well leaves values of the channels of the modules.
LEMMA PutHolds ==
  ASSUME StationInv, NEW o, AreOutputs(o, Types), NEW w \in OutputWrites, Outcome(o, w) = "ok"
  PROVE  AreOutputs(Put(o, w), Types)
<1> DEFINE n == PlaceOf(w.slot)
           k == Len(layout)
           v == o[n]
           t == Types[n]
           e == EsiCatalog[t]
<1>1. n \in 1..k
  <2>1. \E j \in 1..k : layout[j].slot = w.slot
    BY DEF Outcome, NoSuchOutput
  <2> QED
    BY <2>1 DEF PlaceOf
<1>2. Len(Types) = k /\ k \in Nat /\ t \in DOMAIN EsiCatalog
  BY <1>1, TypesAre
<1>3. /\ o = [j \in 1..k |-> o[j]] /\ \A j \in 1..k : o[j] \in OutputsOf(Types[j])
      /\ v \in OutputsOf(t)
  BY <1>1, <1>2 DEF AreOutputs
<1>4. e.dout \in Nat /\ e.aout \in Nat /\ e.iolOut \in Nat
  BY <1>2, EsiRow
<1>5. v \in Values(e.dout, e.aout, e.iolOut)
  BY <1>3 DEF OutputsOf
<1>6. Len(v.digital) = e.dout /\ Len(v.analog) = e.aout /\ Len(v.io_link) = e.iolOut
  <2> HIDE DEF v, e
  <2> QED
    BY <1>4, <1>5, ValuesFields
<1>7. ASSUME NEW new \in OutputsOf(t), Put(o, w) = [o EXCEPT ![n] = new]
      PROVE  AreOutputs(Put(o, w), Types)
  <2> HIDE DEF n, k, t, v
  <2>1. DOMAIN o = 1..k
    BY <1>3
  <2>2. [o EXCEPT ![n] = new] = [j \in 1..k |-> IF j = n THEN new ELSE o[j]]
    BY <2>1
  <2>3. \A j \in 1..k : [o EXCEPT ![n] = new][j] \in OutputsOf(Types[j])
    BY <1>3, <1>7, <2>2 DEF t
  <2> QED
    BY <1>2, <1>7, <2>2, <2>3 DEF AreOutputs
<1>8. CASE w.kind = "digital"
  <2> DEFINE c == w.channel + 1
             x == w.value[1] = 1
             new == [v EXCEPT !.digital[c] = x]
  <2>1. w.channel < Len(v.digital)
    BY <1>8 DEF Outcome
  <2>2. c \in 1..e.dout
    BY <1>4, <1>6, <2>1, WriteIs
  <2>3. new \in OutputsOf(t)
    <3> HIDE DEF c, v, t
    <3> QED
      BY <1>5, <2>2 DEF OutputsOf, Values
  <2>4. Put(o, w) = [o EXCEPT ![n] = new]
    BY <1>8 DEF Put
  <2> HIDE DEF new, n, t
  <2> QED
    BY <1>7, <2>3, <2>4
<1>9. CASE w.kind = "analog"
  <2> DEFINE c == w.channel + 1
             x == w.value[1]
             new == [v EXCEPT !.analog[c] = x]
  <2>1. w.channel < Len(v.analog) /\ x \in SignedMin..SignedMax
    BY <1>9 DEF Outcome, AnalogOk
  <2>2. c \in 1..e.aout
    BY <1>4, <1>6, <2>1, WriteIs
  <2>3. new \in OutputsOf(t)
    <3> HIDE DEF c, v, t, x
    <3> QED
      BY <1>5, <2>1, <2>2 DEF OutputsOf, Values
  <2>4. Put(o, w) = [o EXCEPT ![n] = new]
    BY <1>9 DEF Put
  <2> HIDE DEF new, n, t
  <2> QED
    BY <1>7, <2>3, <2>4
<1>10. CASE w.kind = "io_link"
  <2> DEFINE new == [v EXCEPT !.io_link = w.value]
  <2>1. Len(w.value) = Len(v.io_link) /\ w.value \in Seq(Byte)
    BY <1>10, WriteIs DEF Outcome
  <2>2. w.value \in [1..e.iolOut -> Byte]
    BY <1>6, <2>1
  <2>3. new \in OutputsOf(t)
    <3> HIDE DEF v, t
    <3> QED
      BY <1>5, <2>2 DEF OutputsOf, Values
  <2>4. Put(o, w) = [o EXCEPT ![n] = new]
    BY <1>10 DEF Put
  <2> HIDE DEF new, n, t
  <2> QED
    BY <1>7, <2>3, <2>4
<1> QED
  BY <1>8, <1>9, <1>10, WriteIs

\* What has become of the items written so far
IsResult(r) ==
  /\ r = [out |-> r.out, done |-> r.done, crash |-> r.crash]
  /\ r.crash \in BOOLEAN /\ r.done \in Seq(BOOLEAN) /\ AreOutputs(r.out, Types)

\* A result from its parts
LEMMA ResultIs ==
  ASSUME NEW x, NEW o, AreOutputs(o, Types), NEW items \in Seq(BOOLEAN), NEW c \in BOOLEAN,
         x = [out |-> o, done |-> items, crash |-> c]
  PROVE  IsResult(x) /\ x.out = o /\ x.done = items /\ x.crash = c
<1>1. x.out = o /\ x.done = items
  OBVIOUS
<1>2. x.crash = c
  OBVIOUS
<1> QED
  BY <1>1, <1>2 DEF IsResult

\* An item is done, or it is refused, or it is the last that is looked at.
LEMMA WrittenIs ==
  ASSUME StationInv, NEW r, IsResult(r), NEW w \in OutputWrites
  PROVE  /\ IsResult(Written(r, w))
         /\ ~Written(r, w).crash =>
              /\ ~r.crash
              /\ \/ /\ Written(r, w).done = Append(r.done, TRUE)
                    /\ Written(r, w).out = Put(r.out, w)
                 \/ /\ Written(r, w).done = Append(r.done, FALSE)
                    /\ Written(r, w).out = r.out
<1> DEFINE x == Written(r, w)
<1>1. CASE r.crash
  <2>1. x = r
    BY <1>1 DEF Written
  <2> QED
    BY <1>1, <2>1
<1>2. CASE ~r.crash /\ Outcome(r.out, w) = "ok"
  <2> DEFINE o == Put(r.out, w)
             items == Append(r.done, TRUE)
  <2>1. x = [out |-> o, done |-> items, crash |-> FALSE]
    BY <1>2 DEF Written
  <2>2. AreOutputs(o, Types)
    BY <1>2, PutHolds DEF IsResult
  <2>3. items \in Seq(BOOLEAN)
    BY DEF IsResult
  <2> HIDE DEF x, o, items
  <2>4. IsResult(x) /\ x.out = o /\ x.done = items
    BY <2>1, <2>2, <2>3, ResultIs
  <2> QED
    BY <1>2, <2>4 DEF x, o, items
<1>3. CASE ~r.crash /\ Outcome(r.out, w) = "invalid"
  <2> DEFINE o == r.out
             items == Append(r.done, FALSE)
             c == r.crash
  <2>1. x = [r EXCEPT !.done = items]
    BY <1>3 DEF Written
  <2>2. x = [out |-> o, done |-> items, crash |-> c]
    BY <2>1 DEF IsResult
  <2>3. items \in Seq(BOOLEAN) /\ AreOutputs(o, Types) /\ c \in BOOLEAN
    BY DEF IsResult
  <2> HIDE DEF x, o, items, c
  <2>4. IsResult(x) /\ x.out = o /\ x.done = items
    BY <2>2, <2>3, ResultIs
  <2> QED
    BY <1>3, <2>4 DEF x, o, items
<1>4. CASE ~r.crash /\ Outcome(r.out, w) \notin {"ok", "invalid"}
  <2>1. x = [r EXCEPT !.crash = TRUE]
    BY <1>4 DEF Written
  <2>2. x = [out |-> r.out, done |-> r.done, crash |-> TRUE]
    BY <2>1 DEF IsResult
  <2> QED
    BY <2>2 DEF IsResult
<1>5. r.crash \in BOOLEAN
  BY DEF IsResult
<1> QED
  BY <1>1, <1>2, <1>3, <1>4, <1>5

\* f[n] is what the first n items of a request have made (write_outputs).
IsRun(f, ws, k) ==
  f = [n \in 0..k |-> IF n = 0 THEN [out |-> out, done |-> <<>>, crash |-> FALSE]
                      ELSE Written(f[n - 1], ws[n])]

LEMMA RunExists ==
  ASSUME NEW ws, NEW k \in Nat
  PROVE  \E f : IsRun(f, ws, k)
<1> DEFINE Then(x, n) == Written(x, ws[n])
           first == [out |-> out, done |-> <<>>, crash |-> FALSE]
           T == {j \in Nat : \E f : IsRun(f, ws, j)}
<1>0. ASSUME NEW f, NEW j \in Nat
      PROVE  IsRun(f, ws, j) <=>
               f = [n \in 0..j |-> IF n = 0 THEN first ELSE Then(f[n - 1], n)]
  BY DEF IsRun
<1> HIDE DEF Then, first
<1>1. 0 \in T
  <2> DEFINE f == [i \in 0..0 |-> first]
  <2>1. f = [n \in 0..0 |-> IF n = 0 THEN first ELSE Then(f[n - 1], n)]
    OBVIOUS
  <2> HIDE DEF f
  <2>2. IsRun(f, ws, 0)
    BY <1>0, <2>1
  <2> QED
    BY <2>2
<1>2. ASSUME NEW j \in T
      PROVE  j + 1 \in T
  <2>1. PICK f : IsRun(f, ws, j)
    OBVIOUS
  <2> DEFINE g == [i \in 0..j + 1 |-> IF i <= j THEN f[i] ELSE Then(f[j], j + 1)]
  <2>2. j \in Nat /\ \A i \in 0..j : f[i] = IF i = 0 THEN first ELSE Then(f[i - 1], i)
    BY <1>0, <2>1
  <2>3. \A i \in 0..j + 1 : g[i] = IF i = 0 THEN first ELSE Then(g[i - 1], i)
    <3> SUFFICES ASSUME NEW i \in 0..j + 1
                 PROVE  g[i] = IF i = 0 THEN first ELSE Then(g[i - 1], i)
      OBVIOUS
    <3>1. CASE i <= j
      <4>1. i # 0 => i - 1 \in 0..j + 1 /\ i - 1 <= j
        BY <2>2, <3>1
      <4> QED
        BY <2>2, <3>1, <4>1
    <3>2. CASE ~(i <= j)
      <4>1. i = j + 1 /\ i - 1 = j /\ j \in 0..j + 1 /\ i # 0
        BY <2>2, <3>2
      <4> QED
        BY <2>2, <3>2, <4>1
    <3> QED
      BY <3>1, <3>2
  <2>4. g = [n \in 0..j + 1 |-> IF n = 0 THEN first ELSE Then(g[n - 1], n)]
    BY <2>3
  <2> HIDE DEF g
  <2>5. IsRun(g, ws, j + 1)
    BY <1>0, <2>2, <2>4
  <2> QED
    BY <2>2, <2>5
<1>3. k \in T
  BY <1>1, <1>2, SetInduction
<1> QED
  BY <1>3

\* f[n] is what those of the first n items make that are listed as done.
IsReplay(f, ws, done, k) ==
  f = [n \in 0..k |-> IF n = 0 THEN out
                      ELSE IF n \in done THEN Put(f[n - 1], ws[n]) ELSE f[n - 1]]

LEMMA ReplayExists ==
  ASSUME NEW ws, NEW done, NEW k \in Nat
  PROVE  \E f : IsReplay(f, ws, done, k)
<1> DEFINE Then(x, n) == IF n \in done THEN Put(x, ws[n]) ELSE x
           T == {j \in Nat : \E f : IsReplay(f, ws, done, j)}
<1>0. ASSUME NEW f, NEW j \in Nat
      PROVE  IsReplay(f, ws, done, j) <=>
               f = [n \in 0..j |-> IF n = 0 THEN out ELSE Then(f[n - 1], n)]
  BY DEF IsReplay
<1> HIDE DEF Then
<1>1. 0 \in T
  <2>1. IsReplay([i \in 0..0 |-> out], ws, done, 0)
    BY <1>0
  <2> QED
    BY <2>1
<1>2. ASSUME NEW j \in T
      PROVE  j + 1 \in T
  <2>1. PICK f : IsReplay(f, ws, done, j)
    OBVIOUS
  <2> DEFINE g == [i \in 0..j + 1 |-> IF i <= j THEN f[i] ELSE Then(f[j], j + 1)]
  <2>2. j \in Nat /\ \A i \in 0..j : f[i] = IF i = 0 THEN out ELSE Then(f[i - 1], i)
    BY <1>0, <2>1
  <2>3. \A i \in 0..j + 1 : g[i] = IF i = 0 THEN out ELSE Then(g[i - 1], i)
    <3> SUFFICES ASSUME NEW i \in 0..j + 1
                 PROVE  g[i] = IF i = 0 THEN out ELSE Then(g[i - 1], i)
      OBVIOUS
    <3>1. CASE i <= j
      <4>1. i # 0 => i - 1 \in 0..j + 1 /\ i - 1 <= j
        BY <2>2, <3>1
      <4> QED
        BY <2>2, <3>1, <4>1
    <3>2. CASE ~(i <= j)
      <4>1. i = j + 1 /\ i - 1 = j /\ j \in 0..j + 1 /\ i # 0
        BY <2>2, <3>2
      <4> QED
        BY <2>2, <3>2, <4>1
    <3> QED
      BY <3>1, <3>2
  <2>4. g = [n \in 0..j + 1 |-> IF n = 0 THEN out ELSE Then(g[n - 1], n)]
    BY <2>3
  <2> HIDE DEF g
  <2>5. IsReplay(g, ws, done, j + 1)
    BY <1>0, <2>2, <2>4
  <2> QED
    BY <2>2, <2>5
<1>3. k \in T
  BY <1>1, <1>2, SetInduction
<1> QED
  BY <1>3

\* A request that does not break off has a result for every item.
LEMMA RunIs ==
  ASSUME StationInv, NEW k \in Nat, NEW ws, \A n \in 1..k : ws[n] \in OutputWrites,
         NEW f, IsRun(f, ws, k)
  PROVE  /\ f[0].out = out /\ \A n \in 1..k : f[n] = Written(f[n - 1], ws[n])
         /\ \A n \in 0..k : IsResult(f[n]) /\ (~f[n].crash => Len(f[n].done) = n)
<1>1. /\ f[0] = [out |-> out, done |-> <<>>, crash |-> FALSE]
      /\ \A n \in 1..k : f[n] = Written(f[n - 1], ws[n])
  <2> DEFINE first == [out |-> out, done |-> <<>>, crash |-> FALSE]
  <2>1. f = [n \in 0..k |-> IF n = 0 THEN first ELSE Written(f[n - 1], ws[n])]
    BY DEF IsRun
  <2> HIDE DEF first
  <2>2. f[0] = first /\ \A n \in 1..k : f[n] = Written(f[n - 1], ws[n])
    BY <2>1
  <2> QED
    BY <2>2 DEF first
<1> DEFINE T == {n \in Nat : n <= k => IsResult(f[n]) /\ (~f[n].crash => Len(f[n].done) = n)}
<1>2. 0 \in T
  <2>1. f[0].out = out /\ f[0].done = <<>> /\ f[0].crash = FALSE
    BY <1>1
  <2>2. AreOutputs(out, Types)
    BY DEF StationInv, ServerInv, Types
  <2>3. IsResult(f[0])
    BY <1>1, <2>1, <2>2 DEF IsResult
  <2> QED
    BY <2>1, <2>3
<1>3. ASSUME NEW n \in T
      PROVE  n + 1 \in T
  <2> SUFFICES ASSUME n + 1 <= k
               PROVE  /\ IsResult(f[n + 1])
                      /\ ~f[n + 1].crash => Len(f[n + 1].done) = n + 1
    OBVIOUS
  <2>1. n \in Nat /\ n <= k /\ n + 1 \in 1..k /\ (n + 1) - 1 = n
    OBVIOUS
  <2> DEFINE r == f[n]
             w == ws[n + 1]
  <2>2. f[n + 1] = Written(r, w) /\ w \in OutputWrites /\ IsResult(r)
        /\ (~r.crash => Len(r.done) = n)
    BY <1>1, <2>1
  <2> HIDE DEF r, w
  <2>3. r.done \in Seq(BOOLEAN)
    BY <2>2 DEF IsResult
  <2>4. Len(Append(r.done, TRUE)) = Len(r.done) + 1 /\ Len(Append(r.done, FALSE)) = Len(r.done) + 1
    BY <2>3
  <2> QED
    BY <2>2, <2>4, WrittenIs
<1>4. \A n \in Nat : n \in T
  BY <1>2, <1>3, SetInduction
<1> QED
  BY <1>1, <1>4

\* The items listed as done make the change of the outputs.
LEMMA RunIsReplay ==
  ASSUME StationInv, NEW k \in Nat, NEW ws, \A n \in 1..k : ws[n] \in OutputWrites,
         NEW f, IsRun(f, ws, k), ~f[k].crash,
         NEW done, done = {n \in 1..k : f[k].done[n]},
         NEW g, IsReplay(g, ws, done, k)
  PROVE  f[k].out = g[k]
<1>1. /\ f[0].out = out /\ \A n \in 1..k : f[n] = Written(f[n - 1], ws[n])
      /\ \A n \in 0..k : IsResult(f[n]) /\ (~f[n].crash => Len(f[n].done) = n)
  BY RunIs
<1>2. ASSUME NEW n \in 1..k, ~f[n].crash
      PROVE  /\ ~f[n - 1].crash
             /\ \A i \in 1..n - 1 : f[n].done[i] = f[n - 1].done[i]
             /\ f[n].done[n] \in BOOLEAN
             /\ f[n].out = IF f[n].done[n] THEN Put(f[n - 1].out, ws[n]) ELSE f[n - 1].out
  <2> DEFINE r == f[n - 1]
             x == f[n]
             w == ws[n]
  <2>1. n - 1 \in 0..k /\ n \in Nat /\ (n - 1) + 1 = n
    OBVIOUS
  <2>2. x = Written(r, w) /\ w \in OutputWrites /\ IsResult(r) /\ ~x.crash
        /\ (~r.crash => Len(r.done) = n - 1)
    BY <1>1, <1>2, <2>1
  <2> HIDE DEF r, x, w
  <2>3. /\ ~r.crash
        /\ \/ x.done = Append(r.done, TRUE) /\ x.out = Put(r.out, w)
           \/ x.done = Append(r.done, FALSE) /\ x.out = r.out
    BY <2>2, WrittenIs
  <2>4. r.done \in Seq(BOOLEAN) /\ Len(r.done) = n - 1
    BY <2>2, <2>3 DEF IsResult
  <2>5. ASSUME NEW b \in BOOLEAN
        PROVE  /\ Append(r.done, b)[n] = b
               /\ \A i \in 1..n - 1 : Append(r.done, b)[i] = r.done[i]
    BY <2>1, <2>4
  <2>6. CASE x.done = Append(r.done, TRUE) /\ x.out = Put(r.out, w)
    BY <2>3, <2>5, <2>6 DEF r, x, w
  <2>7. CASE x.done = Append(r.done, FALSE) /\ x.out = r.out
    BY <2>3, <2>5, <2>7 DEF r, x, w
  <2> QED
    BY <2>3, <2>6, <2>7
<1>3. \A n \in 0..k : ~f[n].crash /\ \A i \in 1..n : f[n].done[i] = f[k].done[i]
  <2> DEFINE T == {j \in Nat : j <= k => /\ ~f[k - j].crash
                                         /\ \A i \in 1..k - j : f[k - j].done[i] = f[k].done[i]}
  <2>1. 0 \in T
    <3>1. k - 0 = k
      OBVIOUS
    <3> QED
      BY <3>1
  <2>2. ASSUME NEW j \in T
        PROVE  j + 1 \in T
    <3> SUFFICES ASSUME j + 1 <= k
                 PROVE  /\ ~f[k - (j + 1)].crash
                        /\ \A i \in 1..k - (j + 1) : f[k - (j + 1)].done[i] = f[k].done[i]
      OBVIOUS
    <3> DEFINE n == k - j
    <3>1. j \in Nat /\ j <= k /\ n \in 1..k /\ k - (j + 1) = n - 1
          /\ \A i \in 1..n - 1 : i \in 1..n
      OBVIOUS
    <3>2. ~f[n].crash /\ \A i \in 1..n : f[n].done[i] = f[k].done[i]
      BY <3>1
    <3> HIDE DEF n
    <3>3. ~f[n - 1].crash /\ \A i \in 1..n - 1 : f[n].done[i] = f[n - 1].done[i]
      BY <1>2, <3>1, <3>2
    <3> QED
      BY <3>1, <3>2, <3>3
  <2>3. \A j \in Nat : j \in T
    BY <2>1, <2>2, SetInduction
  <2> SUFFICES ASSUME NEW n \in 0..k
               PROVE  ~f[n].crash /\ \A i \in 1..n : f[n].done[i] = f[k].done[i]
    OBVIOUS
  <2>4. k - n \in Nat /\ k - n <= k /\ k - (k - n) = n
    OBVIOUS
  <2>5. k - n \in T
    BY <2>3, <2>4
  <2> QED
    BY <2>4, <2>5
<1>4. g[0] = out /\ \A n \in 1..k : g[n] = IF n \in done THEN Put(g[n - 1], ws[n]) ELSE g[n - 1]
  BY DEF IsReplay
<1> DEFINE T == {n \in Nat : n <= k => f[n].out = g[n]}
<1>5. 0 \in T
  BY <1>1, <1>4
<1>6. ASSUME NEW n \in T
      PROVE  n + 1 \in T
  <2> SUFFICES ASSUME n + 1 <= k
               PROVE  f[n + 1].out = g[n + 1]
    OBVIOUS
  <2>1. n \in Nat /\ n <= k /\ n + 1 \in 1..k /\ n + 1 \in 0..k /\ (n + 1) - 1 = n
        /\ n + 1 \in 1..n + 1
    OBVIOUS
  <2>2. ~f[n + 1].crash /\ f[n + 1].done[n + 1] = f[k].done[n + 1]
    BY <1>3, <2>1
  <2>3. f[n + 1].out = IF f[k].done[n + 1] THEN Put(f[n].out, ws[n + 1]) ELSE f[n].out
    BY <1>2, <2>1, <2>2
  <2>4. n + 1 \in done <=> f[k].done[n + 1]
    BY <2>1
  <2>5. g[n + 1] = IF n + 1 \in done THEN Put(g[n], ws[n + 1]) ELSE g[n]
    BY <1>4, <2>1
  <2>6. f[n].out = g[n]
    BY <2>1
  <2> QED
    BY <2>3, <2>4, <2>5, <2>6
<1>7. k \in T
  BY <1>5, <1>6, SetInduction
<1> QED
  BY <1>7

\* A request keeps the invariant, and its answer tells what happened.
LEMMA OutputWriteIs ==
  ASSUME StationInv, NEW ws, Len(ws) \in Nat, \A n \in 1..Len(ws) : ws[n] \in OutputWrites,
         OutputWrite(ws)
  PROVE  /\ StationInv'
         /\ report'.result # "internal" => out' = Applied(report'.items, report'.done)
<1> DEFINE k == Len(ws)
           r == AllWritten(ws)
           done == {n \in 1..k : r.done[n]}
           f == CHOOSE h : IsRun(h, ws, k)
           g == CHOOSE h : IsReplay(h, ws, done, k)
<1>1. IsRun(f, ws, k)
  BY RunExists
<1>2. r = f[k]
  BY DEF AllWritten, IsRun
<1>3. IsReplay(g, ws, done, k)
  <2> HIDE DEF done
  <2> QED
    BY ReplayExists
<1>4. Applied(ws, done) = g[k]
  BY DEF Applied, IsReplay
<1>5. /\ out' = r.out /\ phase = "op" /\ writes < MaxWrites /\ writes' = writes + 1
      /\ report' = [result |-> Result(r), items |-> ws, done |-> IF r.crash THEN {} ELSE done]
      /\ sent' = (sent /\ out' = out)
      /\ UNCHANGED <<phase, layout, fitted, size, in, devOut, devIn, received,
                     inputs, stationLosses>>
  BY DEF OutputWrite
<1> HIDE DEF f, g, r, k
<1>6. k \in Nat /\ \A n \in 1..k : ws[n] \in OutputWrites
  BY DEF k
<1>7. AreOutputs(r.out, Types)
  <2>1. k \in 0..k
    BY <1>6
  <2>2. IsResult(f[k])
    BY <1>1, <1>6, <2>1, RunIs
  <2> QED
    BY <1>2, <2>2 DEF IsResult
<1>8. StationInv'
  <2> USE DEF StationInv
  <2>1. ShapeInv'
    <3>1. writes' \in 0..MaxWrites
      BY <1>5, Bounds DEF ShapeInv
    <3>2. sent' \in BOOLEAN
      BY <1>5
    <3> QED
      BY <1>5, <3>1, <3>2 DEF ShapeInv
  <2>2. ServerInv'
    BY <1>5, <1>7 DEF ServerInv, Types
  <2>3. FittedInv' /\ PdoInv' /\ SizeInv'
    BY <1>5 DEF FittedInv, PdoInv, SizeInv
  <2>4. ImagesAgree'
    <3>1. OutputsArrive'
      <4>1. sent' => sent /\ out' = out
        BY <1>5
      <4> QED
        BY <1>5, <4>1 DEF ImagesAgree, OutputsArrive
    <3>2. InputsArrive'
      BY <1>5 DEF ImagesAgree, InputsArrive
    <3> QED
      BY <3>1, <3>2 DEF ImagesAgree
  <2> QED
    BY <2>1, <2>2, <2>3, <2>4
<1>9. ASSUME report'.result # "internal"
      PROVE  out' = Applied(report'.items, report'.done)
  <2>1. ~r.crash
    <3>1. report'.result = Result(r)
      BY <1>5
    <3> QED
      BY <1>9, <3>1 DEF Result
  <2>2. report'.items = ws /\ report'.done = done
    <3> HIDE DEF done
    <3>1. report'.items = ws /\ report'.done = IF r.crash THEN {} ELSE done
      BY <1>5
    <3> QED
      BY <2>1, <3>1
  <2>3. done = {n \in 1..k : f[k].done[n]}
    BY <1>2
  <2>4. ~f[k].crash
    BY <1>2, <2>1
  <2> HIDE DEF done
  <2>5. f[k].out = g[k]
    BY <1>1, <1>3, <1>6, <2>3, <2>4, RunIsReplay
  <2> QED
    BY <1>2, <1>4, <1>5, <2>2, <2>5
<1> QED
  BY <1>8, <1>9

\* Requests of one item and of two
LEMMA OutputWritesHold ==
  ASSUME StationInv,
         \/ \E w \in OutputWrites : OutputWrite(<<w>>)
         \/ \E w1, w2 \in OutputWrites : OutputWrite(<<w1, w2>>)
  PROVE  /\ StationInv'
         /\ report'.result # "internal" => out' = Applied(report'.items, report'.done)
<1>1. CASE \E w \in OutputWrites : OutputWrite(<<w>>)
  <2>1. PICK w \in OutputWrites : OutputWrite(<<w>>)
    BY <1>1
  <2> DEFINE ws == <<w>>
  <2>2. Len(ws) \in Nat /\ \A n \in 1..Len(ws) : ws[n] \in OutputWrites
    OBVIOUS
  <2>3. OutputWrite(ws)
    BY <2>1
  <2> HIDE DEF ws
  <2> QED
    BY <2>2, <2>3, OutputWriteIs
<1>2. CASE \E w1, w2 \in OutputWrites : OutputWrite(<<w1, w2>>)
  <2>1. PICK w1 \in OutputWrites, w2 \in OutputWrites : OutputWrite(<<w1, w2>>)
    BY <1>2
  <2> DEFINE ws == <<w1, w2>>
  <2>2. Len(ws) \in Nat /\ \A n \in 1..Len(ws) : ws[n] \in OutputWrites
    <3>1. Len(ws) = 2 /\ ws[1] = w1 /\ ws[2] = w2
      OBVIOUS
    <3> HIDE DEF ws
    <3>2. \A n \in 1..2 : n = 1 \/ n = 2
      OBVIOUS
    <3> QED
      BY <3>1, <3>2
  <2>3. OutputWrite(ws)
    BY <2>1
  <2> HIDE DEF ws
  <2> QED
    BY <2>2, <2>3, OutputWriteIs
<1> QED
  BY <1>1, <1>2
-----------------------------------------------------------------------------
(* The results                                                             *)

\* Nothing happens.
LEMMA UnchangedHolds ==
  ASSUME StationInv, UNCHANGED stationVars
  PROVE  StationInv'
BY DEF stationVars, StationInv, ShapeInv, ServerInv, FittedInv, PdoInv, SizeInv, ImagesAgree,
       OutputsArrive, InputsArrive

\* Every step keeps the invariant.
LEMMA NextHolds ==
  ASSUME StationInv, [StationNext]_stationVars
  PROVE  StationInv'
<1>1. CASE \E d \in Declarations : Configures(d)
  BY <1>1, ConfiguresHolds
<1>2. CASE \E modular \in BOOLEAN : StationConnects(modular)
  BY <1>2, StationConnectsHolds
<1>3. CASE ConnectFails
  BY <1>3, ConnectFailsHolds
<1>4. CASE StationIsLost
  BY <1>4, StationIsLostHolds
<1>5. CASE Exchange
  BY <1>5, ExchangeHolds
<1>6. CASE \/ \E w \in OutputWrites : OutputWrite(<<w>>)
           \/ \E w1, w2 \in OutputWrites : OutputWrite(<<w1, w2>>)
  BY <1>6, OutputWritesHold
<1>7. CASE \E n \in 1..Len(devIn) :
             \/ \E c \in 1..3 : WriteDigitalInput(n, c)
             \/ \E v \in AnalogValues : WriteAnalogInput(n, 1, v)
             \/ \E p \in Payloads : WriteIolInput(n, p)
             \/ ResetInputs(n)
  BY <1>7, InputsHold
<1>8. CASE UNCHANGED stationVars
  BY <1>8, UnchangedHolds
<1> QED
  BY <1>1, <1>2, <1>3, <1>4, <1>5, <1>6, <1>7, <1>8 DEF StationNext

(* The two sides of a station have a value for every channel of their      *)
(* modules, the mapped image has room for all of them, and what has been   *)
(* exchanged agrees (CPXApIEcDeviceProfile and the PDO codec).             *)
THEOREM StationInvariant == StationSpec => []StationInv
<1>1. StationInit => StationInv
  BY InitHolds
<1>2. StationInv /\ [StationNext]_stationVars => StationInv'
  BY NextHolds
<1> QED
  BY <1>1, <1>2, PTL DEF StationSpec

(* Whatever modules are configured, and however their channels fill the    *)
(* bytes of the image, after an exchange each module drives exactly what   *)
(* was written for it, and the server reads what is at its inputs          *)
(* (assign_process_image_offsets, encode_rxpdo, decode_txpdo).             *)
THEOREM StationImages == StationSpec => []ImagesAgree
<1>1. StationInv => ImagesAgree
  BY DEF StationInv
<1> QED
  BY <1>1, StationInvariant, PTL

\* The invariant gives the shape of the state and the match of the modules.
LEMMA InvMatches ==
  ASSUME StationInv
  PROVE  StationMatches
<1> USE DEF StationInv
<1>1. ConnectedMatches
  BY DEF SizeInv, ConnectedMatches
<1>2. /\ Len(Types) = Len(layout) /\ Len(layout) \in Nat
      /\ \A n \in 1..Len(layout) : Types[n] \in DOMAIN EsiCatalog
  BY TypesAre
<1>3. Len(out) = Len(layout) /\ Len(in) = Len(layout)
  BY <1>2, ValuesLength DEF ServerInv, AreOutputs, AreInputs, Types
<1>4. Len(devOut) = Len(fitted) /\ Len(devIn) = Len(fitted)
  <2>1. Len(fitted) \in Nat
    BY DEF ShapeInv
  <2> QED
    BY <2>1, ValuesLength DEF FittedInv, AreOutputs, AreInputs
<1>5. ASSUME NEW n \in 1..Len(layout)
      PROVE  /\ layout[n].type \in DOMAIN EsiCatalog
             /\ \A c \in 1..Len(out[n].analog) : out[n].analog[c] \in SignedMin..SignedMax
             /\ \A c \in 1..Len(out[n].io_link) : out[n].io_link[c] \in Byte
  <2> DEFINE e == EsiCatalog[Types[n]]
             v == out[n]
  <2>1. v \in Values(e.dout, e.aout, e.iolOut)
    BY <1>2 DEF ServerInv, AreOutputs, OutputsOf, Types
  <2>2. e.dout \in Nat /\ e.aout \in Nat /\ e.iolOut \in Nat
    BY <1>2, EsiRow
  <2>3. layout[n].type \in DOMAIN EsiCatalog
    BY DEF ShapeInv, IsLayout
  <2> HIDE DEF e, v
  <2>4. /\ v.analog \in [1..e.aout -> SignedMin..SignedMax] /\ Len(v.analog) = e.aout
        /\ v.io_link \in [1..e.iolOut -> Byte] /\ Len(v.io_link) = e.iolOut
    BY <2>1, <2>2, ValuesFields
  <2> QED
    BY <2>3, <2>4 DEF v
<1>6. StationTypeOK
  BY <1>3, <1>4, <1>5 DEF StationTypeOK, ShapeInv
<1> QED
  BY <1>1, <1>6 DEF StationMatches

(* The server's view of the station has its shape, and the station is      *)
(* operational only with the modules of the configuration in their order   *)
(* (build_cpx_io_config, configure_ap_module_idents).                      *)
THEOREM StationModules == StationSpec => []StationMatches
BY InvMatches, StationInvariant, PTL

\* No other step serves a request.
LEMMA OthersServeNone ==
  ASSUME \/ \E d \in Declarations : Configures(d)
         \/ \E modular \in BOOLEAN : StationConnects(modular)
         \/ ConnectFails \/ StationIsLost \/ Exchange
         \/ \E n \in 1..Len(devIn) :
              \/ \E c \in 1..3 : WriteDigitalInput(n, c)
              \/ \E v \in AnalogValues : WriteAnalogInput(n, 1, v)
              \/ \E p \in Payloads : WriteIolInput(n, p)
              \/ ResetInputs(n)
         \/ UNCHANGED stationVars
  PROVE  writes' = writes
BY DEF Configures, StationConnects, ConnectFails, StationIsLost, Exchange, WriteDigitalInput,
       WriteAnalogInput, WriteIolInput, ResetInputs, InputsBecome, stationVars

(* The items that the answer to an output request lists as done make, in   *)
(* their order, exactly the change of the outputs (write_outputs).         *)
THEOREM StationAnswers == StationSpec => AnswerIsExact
<1> DEFINE Exact == writes' # writes /\ report'.result # "internal"
                    => out' = Applied(report'.items, report'.done)
<1>1. ASSUME StationInv, [StationNext]_stationVars
      PROVE  [Exact]_stationVars
  <2>1. CASE \/ \E w \in OutputWrites : OutputWrite(<<w>>)
             \/ \E w1, w2 \in OutputWrites : OutputWrite(<<w1, w2>>)
    BY <1>1, <2>1, OutputWritesHold
  <2>2. CASE \/ \E d \in Declarations : Configures(d)
             \/ \E modular \in BOOLEAN : StationConnects(modular)
             \/ ConnectFails \/ StationIsLost \/ Exchange
             \/ \E n \in 1..Len(devIn) :
                  \/ \E c \in 1..3 : WriteDigitalInput(n, c)
                  \/ \E v \in AnalogValues : WriteAnalogInput(n, 1, v)
                  \/ \E p \in Payloads : WriteIolInput(n, p)
                  \/ ResetInputs(n)
             \/ UNCHANGED stationVars
    BY <2>2, OthersServeNone
  <2> QED
    BY <1>1, <2>1, <2>2 DEF StationNext
<1> HIDE DEF Exact
<1>2. StationSpec => [][Exact]_stationVars
  BY <1>1, StationInvariant, PTL DEF StationSpec
<1> QED
  BY <1>2 DEF AnswerIsExact, Exact
=============================================================================
