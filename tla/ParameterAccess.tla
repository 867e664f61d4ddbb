-------------------------- MODULE ParameterAccess --------------------------
(***************************************************************************)
(* Access to single parameters: objects of a drive or station (od), AP     *)
(* parameters of the modules (ap) and ISDU parameters of IO-Link devices   *)
(* (iol), handlers/parameter_access.                                       *)
(*                                                                         *)
(* AP and ISDU parameters are reached through a gateway of the station:    *)
(* the handler writes the address, the length and the data into registers  *)
(* by one SDO each, starts the transfer with the direction register and    *)
(* polls a status register until it is not busy or a second has passed.    *)
(* Every SDO may fail, with or without effect, and the gateway takes its   *)
(* own time.  The handlers run one after the other in the server's loop.   *)
(*                                                                         *)
(* The gateway itself is external: a transfer that is started replaces one *)
(* that has not been carried out, and a wrong length is rejected.          *)
(***************************************************************************)
EXTENDS Naturals, Sequences, FiniteSets

CONSTANTS
  Device,       \* parameter -> [gw, head, size, access]; gw is od, ap or iol
  TypeSize,     \* numeric data type -> bytes
  Base,         \* values of a byte
  Requests,     \* the requests of clients: [kind, par, type, len, value]
  Expert,       \* expert_mode
  MaxRequests,  \* bound: requests served
  MaxFaults     \* bound: SDOs that fail

Params == DOMAIN Device
Gateways == {"ap", "iol"}
Raw == "raw"             \* bytes, hex, char, string...
Byte == 0..Base - 1

\* An address names one parameter; it takes two registers.
ASSUME AccessAssumption ==
  /\ \A p \in Params : /\ Device[p].gw \in Gateways \cup {"od"}
                       /\ Device[p].head \in [1..2 -> Nat]
                       /\ Device[p].size \in Nat \ {0}
                       /\ Device[p].access \subseteq {"read", "write"}
  /\ \A p, q \in Params :
       Device[p].gw = Device[q].gw /\ Device[p].head = Device[q].head => p = q
  /\ \A t \in DOMAIN TypeSize : TypeSize[t] \in Nat \ {0} /\ t # Raw
  /\ Base \in Nat \ {0, 1} /\ Expert \in BOOLEAN
  /\ MaxRequests \in Nat /\ MaxFaults \in Nat

\* A number comes with a numeric type, bytes with the others.
ASSUME RequestAssumption ==
  \A r \in Requests :
    /\ r.kind \in {"read", "write"} /\ r.len \in Nat
    /\ r.kind = "write" /\ r.type \in DOMAIN TypeSize =>
         r.value \in Seq(Nat) /\ Len(r.value) = 1
    /\ r.kind = "write" /\ r.type = Raw => r.value \in Seq(Byte)

VARIABLES
  pc,       \* 0, or the step of the handler
  req,      \* the request being served
  got,      \* what the handler has read: length and data
  gw,       \* gw[g]: registers of the gateway and the transfer it carries out
  store,    \* store[p]: the bytes of parameter p in its device
  cache,    \* RuntimeParameterCache
  doubt,    \* history: parameters that may have changed past the cache
  late,     \* history: an earlier transfer was not over when the request began
  answer,   \* the last request, when it was answered with success
  served, faults

vars == <<pc, req, got, gw, store, cache, doubt, late, answer, served, faults>>

NoJob == [dir |-> "none", head |-> <<>>, data |-> <<>>]
NoAnswer == [ok |-> FALSE, par |-> "none", kind |-> "none", data |-> <<>>]
NoValue == [type |-> "none", data |-> <<>>, value |-> <<>>]
Nothing == [len |-> 0, data |-> <<>>]
-----------------------------------------------------------------------------
(* Requests: parsing, encoding and the checks before any SDO               *)

IsPrefix(s, t) == Len(s) <= Len(t) /\ SubSeq(t, 1, Len(s)) = s
Least(a, b) == IF a < b THEN a ELSE b

Numeric(t) == t \in DOMAIN TypeSize

\* n without its lowest 0, 1, ... size digits
Shifted(n, size) ==
  LET f[i \in 0..size] == IF i = 0 THEN n ELSE f[i - 1] \div Base
  IN f

\* struct.pack has room for n (else it raises struct.error).
Fits(n, size) == Shifted(n, size)[size] = 0

\* struct.pack and struct.unpack, little endian; the highest byte counts first.
Pack(n, size) == [i \in 1..size |-> Shifted(n, size)[i - 1] % Base]
Unpack(data, size) ==
  LET f[i \in 0..size] == IF i = 0 THEN 0 ELSE data[size + 1 - i] + Base * f[i - 1]
  IN f[size]

\* validate_ap_length: a numeric type fixes the length.
NumericLengthOk(r) == Numeric(r.type) => r.len = TypeSize[r.type]

\* validate_raw_isdu_length: a raw read has to say how much it wants.
RawLengthOk(r) == r.type = Raw /\ r.kind = "read" => r.len > 0

\* encode_ap_payload, encode_isdu_payload: the value fits its type and length.
PayloadOk(r) ==
  \/ Numeric(r.type) /\ Fits(r.value[1], TypeSize[r.type])
  \/ r.type = Raw /\ (r.len > 0 => Len(r.value) <= r.len)

\* A number that does not fit its type has bytes that are none.
EncodedNumber(n, size) ==
  IF Fits(n, size) THEN Pack(n, size) ELSE [Pack(0, size) EXCEPT ![1] = n]

\* ap_write_payload: raw bytes are filled up to the length of the request.
Padding(r) ==
  [i \in 1..(IF r.len > Len(r.value) THEN r.len - Len(r.value) ELSE 0) |-> 0]

\* The bytes to write.
Payload(r) ==
  IF Numeric(r.type) THEN EncodedNumber(r.value[1], TypeSize[r.type])
  ELSE r.value \o Padding(r)

\* validate_isdu_request_against_iodd; AP and object access have no such rights.
Allowed(p, kind) == Device[p].gw = "iol" => kind \in Device[p].access

\* An object is read and written with a type the server knows.
TypeKnown(r) == Device[r.par].gw = "od" => Numeric(r.type) \/ r.type = Raw

\* An address that exists, whichever command it comes with.
TargetOk(r) == r.par \in Params

Valid(r) ==
  /\ TargetOk(r) /\ Allowed(r.par, r.kind) /\ TypeKnown(r)
  /\ NumericLengthOk(r) /\ RawLengthOk(r)
  /\ r.kind = "write" => PayloadOk(r)
-----------------------------------------------------------------------------
(* The SDOs of a request, in their order                                   *)

\* Mutant: a register of the address that is zero is left alone.
HeadStepsNonZero(p) ==
  SelectSeq([i \in 1..Len(Device[p].head) |-> <<"head", i>>],
            LAMBDA s : Device[p].head[s[2]] # 0)

\* write_ap_access_header, write_isdu_header
HeadSteps(p) == [i \in 1..Len(Device[p].head) |-> <<"head", i>>]

\* _read_ap_parameter, _read_iol_parameter
ReadSteps(p) == HeadSteps(p) \o
  << <<"dir", 0>>, <<"poll", 0>>, <<"length", 0>>, <<"data", 0>> >>

\* _write_ap_parameter, _write_iol_parameter: the direction comes last.
WriteSteps(p) == HeadSteps(p) \o
  << <<"len", 0>>, <<"put", 0>>, <<"dir", 0>>, <<"poll", 0>> >>

\* _read_io_parameter, _write_io_parameter: one SDO
ObjectSteps(kind) ==
  IF kind = "read" THEN << <<"get", 0>> >> ELSE << <<"set", 0>> >>

Steps(r) ==
  IF Device[r.par].gw = "od" THEN ObjectSteps(r.kind)
  ELSE IF r.kind = "read" THEN ReadSteps(r.par) ELSE WriteSteps(r.par)

At(name) == pc > 0 /\ pc <= Len(Steps(req)) /\ Steps(req)[pc][1] = name
AtRegister == At("head") \/ At("len") \/ At("put") \/ At("dir")

\* _dispatch_ap_request, _dispatch_isdu_request
JobOf(g) ==
  [dir |-> g.dir, head |-> g.head,
   data |-> IF g.dir = "read" THEN <<>>
            ELSE SubSeq(g.data, 1, Least(g.len, Len(g.data)))]

Dispatched(g) == [g EXCEPT !.status = "busy", !.job = JobOf(g)]

\* The gateway g after the register write s of request r.
Register(g, s, r) ==
  CASE s[1] = "head" -> [g EXCEPT !.head[s[2]] = Device[r.par].head[s[2]]]
    [] s[1] = "len" -> [g EXCEPT !.len = Len(Payload(r))]
    [] s[1] = "put" -> [g EXCEPT !.data = Payload(r)]
    [] s[1] = "dir" -> Dispatched([g EXCEPT !.dir = r.kind])
-----------------------------------------------------------------------------
Init ==
  /\ pc = 0 /\ req = <<>> /\ got = Nothing
  /\ gw = [g \in Gateways |->
             [head |-> <<0, 0>>, len |-> 0, data |-> <<>>, dir |-> "read",
              status |-> "ok", job |-> NoJob]]
  /\ store = [p \in Params |-> [i \in 1..Device[p].size |-> 0]]
  /\ cache = [p \in Params |-> NoValue]
  /\ doubt = {} /\ late = FALSE /\ answer = NoAnswer /\ served = 0 /\ faults = 0

Serves == pc = 0 /\ served < MaxRequests /\ served' = served + 1

Accepts(r) ==
  /\ Serves /\ Valid(r)
  /\ pc' = 1 /\ req' = r /\ got' = Nothing /\ answer' = NoAnswer
  /\ late' = (Device[r.par].gw \in Gateways /\ gw[Device[r.par].gw].job # NoJob)
  /\ UNCHANGED <<gw, store, cache, doubt, faults>>

Refuses(r) ==
  /\ Serves /\ ~Valid(r)
  /\ answer' = NoAnswer
  /\ UNCHANGED <<pc, req, got, gw, store, cache, doubt, late, faults>>

\* A register is written; an SDO repeated after a lost answer writes the same.
WritesRegister ==
  /\ AtRegister
  /\ LET g == Device[req.par].gw
     IN gw' = [gw EXCEPT ![g] = Register(@, Steps(req)[pc], req)]
  /\ pc' = pc + 1
  /\ UNCHANGED <<req, got, store, cache, doubt, late, answer, served, faults>>

\* The answer is an error.
Ends(maybe) ==
  /\ pc' = 0 /\ answer' = NoAnswer
  /\ doubt' = IF maybe THEN doubt \cup {req.par} ELSE doubt

\* The write may be under way when the step that starts it has been tried.
MayBeWritten ==
  /\ req.kind = "write"
  /\ \E i \in 1..Least(pc, Len(Steps(req))) : Steps(req)[i][1] \in {"dir", "set"}

\* An SDO fails; done tells whether it took effect all the same.
SdoFails(done) ==
  /\ pc > 0 /\ pc <= Len(Steps(req))
  /\ faults < MaxFaults /\ faults' = faults + 1
  /\ gw' = IF done /\ AtRegister
           THEN [gw EXCEPT ![Device[req.par].gw] = Register(@, Steps(req)[pc], req)]
           ELSE gw
  /\ store' = IF done /\ At("set") /\ Len(Payload(req)) = Device[req.par].size
              THEN [store EXCEPT ![req.par] = Payload(req)] ELSE store
  /\ Ends(MayBeWritten)
  /\ UNCHANGED <<req, got, cache, late, served>>

Status == gw[Device[req.par].gw].status

\* poll_ap_status, poll_isdu_status and require_..._success
Polled ==
  /\ At("poll") /\ Status = "ok"
  /\ pc' = pc + 1
  /\ UNCHANGED <<req, got, gw, store, cache, doubt, late, answer, served, faults>>

Rejected ==
  /\ At("poll") /\ Status = "error"
  /\ Ends(FALSE)
  /\ UNCHANGED <<req, got, gw, store, cache, late, served, faults>>

\* Mutant: nobody looks at the clock.
TimesOutNever ==
  /\ FALSE
  /\ UNCHANGED vars

\* Mutant: after a second the transfer is taken as done.
TimesOutDone ==
  /\ At("poll") /\ Status = "busy"
  /\ pc' = pc + 1
  /\ UNCHANGED <<req, got, gw, store, cache, doubt, late, answer, served, faults>>

TimesOut ==
  /\ At("poll") /\ Status = "busy"
  /\ Ends(MayBeWritten)
  /\ UNCHANGED <<req, got, gw, store, cache, late, served, faults>>

ReadsLength ==
  /\ At("length")
  /\ got' = [got EXCEPT !.len = gw[Device[req.par].gw].len]
  /\ pc' = pc + 1
  /\ UNCHANGED <<req, gw, store, cache, doubt, late, answer, served, faults>>

ReadsData ==
  /\ At("data")
  /\ LET data == gw[Device[req.par].gw].data
     IN got' = [got EXCEPT !.data =
                  SubSeq(data, 1, Least(Least(req.len, got.len), Len(data)))]
  /\ pc' = pc + 1
  /\ UNCHANGED <<req, gw, store, cache, doubt, late, answer, served, faults>>

\* read_sdo_value: the device gives the object or refuses a short buffer.
ReadsObject ==
  /\ At("get")
  /\ IF req.len >= Device[req.par].size
     THEN pc' = pc + 1 /\ got' = [len |-> req.len, data |-> store[req.par]]
          /\ UNCHANGED <<answer, doubt>>
     ELSE Ends(FALSE) /\ got' = got
  /\ UNCHANGED <<req, gw, store, cache, late, served, faults>>

\* write_sdo_value: the device takes the object or refuses its length.
WritesObject ==
  /\ At("set")
  /\ IF Len(Payload(req)) = Device[req.par].size
     THEN /\ pc' = pc + 1 /\ store' = [store EXCEPT ![req.par] = Payload(req)]
          /\ UNCHANGED <<answer, doubt>>
     ELSE Ends(FALSE) /\ store' = store
  /\ UNCHANGED <<req, got, gw, cache, late, served, faults>>

\* decode_ap_payload, decode_isdu_payload
Decodable(data, t) ==
  \/ t = Raw
  \/ Numeric(t) /\ Len(data) >= TypeSize[t]
Decoded(data, t) == IF t = Raw THEN data ELSE <<Unpack(data, TypeSize[t])>>

\* Mutant: the key of the cache leaves out the last part of the address.
SameKeyShort(p, q) ==
  Device[p].gw = Device[q].gw /\ Device[p].head[1] = Device[q].head[1]

\* runtime_parameter_key
SameKey(p, q) == Device[p].gw = Device[q].gw /\ Device[p].head = Device[q].head

\* register refuses a key whose data type has been another one.
Registered == cache[req.par].type \in {"none", req.type}

Cached(data, value) ==
  cache' = [p \in Params |->
              IF SameKey(p, req.par)
              THEN [type |-> req.type, data |-> data, value |-> value] ELSE cache[p]]

AtEnd == pc > 0 /\ pc = Len(Steps(req)) + 1
Data == IF req.kind = "read" THEN got.data ELSE Payload(req)

Succeeds ==
  /\ AtEnd /\ Decodable(Data, req.type) /\ Registered
  /\ Cached(Data, IF req.kind = "read" THEN Decoded(Data, req.type) ELSE req.value)
  /\ answer' = [ok |-> TRUE, par |-> req.par, kind |-> req.kind, data |-> Data]
  /\ pc' = 0
  /\ doubt' = IF late /\ req.kind = "write" THEN doubt \cup {req.par}
              ELSE doubt \ {req.par}
  /\ UNCHANGED <<req, got, gw, store, late, served, faults>>

\* A payload that is too short, an unknown type, or another type than before:
\* the transfer has been made, the cache keeps what it had.
FailsAfterwards ==
  /\ AtEnd /\ ~(Decodable(Data, req.type) /\ Registered)
  /\ Ends(MayBeWritten)
  /\ UNCHANGED <<req, got, gw, store, cache, late, served, faults>>

\* validate_io_parameter_access
RawAllowed(g) == g = "iol" => Expert

\* param_write on a register of a gateway, as if it were any object.
RawWrite(g, s, r) ==
  /\ Serves /\ RawAllowed(g)
  /\ gw' = [gw EXCEPT ![g] = Register(@, s, r)]
  /\ answer' = NoAnswer
  /\ doubt' = IF gw'[g].job.dir = "write"
              THEN doubt \cup {p \in Params : Device[p].gw = g /\
                                              Device[p].head = gw'[g].job.head}
              ELSE doubt
  /\ UNCHANGED <<pc, req, got, store, cache, late, faults>>
-----------------------------------------------------------------------------
(* The gateway                                                             *)

Target(g) == {p \in Params : Device[p].gw = g /\ Device[p].head = gw[g].job.head}

Answers(g, status, data) ==
  gw' = [gw EXCEPT ![g].status = status, ![g].len = Len(data),
                   ![g].data = data, ![g].job = NoJob]

\* Whatever is asked is carried out: protecting a parameter is the server's.
CarriesOut(g) ==
  /\ gw[g].job # NoJob
  /\ LET job == gw[g].job
     IN \/ /\ Target(g) = {} /\ Answers(g, "error", <<>>) /\ store' = store
        \/ \E p \in Target(g) :
             \/ /\ job.dir = "read" /\ Answers(g, "ok", store[p]) /\ store' = store
             \/ /\ job.dir = "write" /\ Len(job.data) = Device[p].size
                /\ Answers(g, "ok", <<>>) /\ store' = [store EXCEPT ![p] = job.data]
             \/ /\ job.dir = "write" /\ Len(job.data) # Device[p].size
                /\ Answers(g, "error", <<>>) /\ store' = store
  /\ UNCHANGED <<pc, req, got, cache, doubt, late, answer, served, faults>>
-----------------------------------------------------------------------------
\* Bound: raw accesses use the register writes of the requests.
RawSteps(r) == {s \in {Steps(r)[i] : i \in 1..Len(Steps(r))} :
                  s[1] \in {"head", "len", "put", "dir"}}

Handler ==
  \/ WritesRegister \/ Polled \/ Rejected \/ TimesOut
  \/ ReadsLength \/ ReadsData \/ ReadsObject \/ WritesObject
  \/ Succeeds \/ FailsAfterwards

Next ==
  \/ /\ pc = 0 /\ served < MaxRequests
     /\ \E r \in Requests :
          \/ Accepts(r) \/ Refuses(r)
          \/ /\ Valid(r) /\ Device[r.par].gw \in Gateways
             /\ \E s \in RawSteps(r) : RawWrite(Device[r.par].gw, s, r)
  \/ pc > 0 /\ Handler
  \/ pc > 0 /\ faults < MaxFaults /\ \E done \in BOOLEAN : SdoFails(done)
  \/ \E g \in Gateways : CarriesOut(g)

Spec == Init /\ [][Next]_vars /\ WF_vars(Handler)
-----------------------------------------------------------------------------
(* Properties                                                              *)

Job == [dir : {"read", "write"}, head : [1..2 -> Nat], data : Seq(Byte)]
Gateway == [head : [1..2 -> Nat], len : Nat, data : Seq(Byte), dir : {"read", "write"},
            status : {"ok", "busy", "error"}, job : Job \cup {NoJob}]

(* Registers, transfers and stored parameters have their shape; a byte is  *)
(* never out of range, and only a valid request is served.                 *)
TypeOK ==
  /\ pc \in 0..7 /\ (pc > 0 => req \in Requests /\ Valid(req))
  /\ got \in [len : Nat, data : Seq(Byte)]
  /\ gw \in [Gateways -> Gateway]
  /\ DOMAIN store = Params
  /\ \A p \in Params : store[p] \in [1..Device[p].size -> Byte]
  /\ doubt \subseteq Params /\ late \in BOOLEAN /\ answer.ok \in BOOLEAN
  /\ served \in 0..MaxRequests /\ faults \in 0..MaxFaults

(* A transfer the handler waits for is the one its request asks for, also  *)
(* when earlier requests broke off between two registers: no address,      *)
(* length or byte of theirs gets into it.  A write is at the mercy of a    *)
(* transfer that was still running when it began: its answer comes into    *)
(* the registers that the write has already filled.                        *)
JobIsAsked ==
  At("poll") /\ ~(late /\ req.kind = "write") /\ gw[Device[req.par].gw].job # NoJob =>
    gw[Device[req.par].gw].job =
      [dir |-> req.kind, head |-> Device[req.par].head,
       data |-> IF req.kind = "read" THEN <<>> ELSE Payload(req)]

(* An answer with success is true: the value read is in the device, the    *)
(* value written has arrived there, and no late transfer undoes it (but    *)
(* for the writes that JobIsAsked leaves out).                             *)
AnswerIsReal ==
  answer.ok => IF answer.kind = "write" THEN late \/ store[answer.par] = answer.data
               ELSE IsPrefix(answer.data, store[answer.par])

(* TD-025: the cache holds what was read or written with success.  Unless  *)
(* a later access to the parameter ended in doubt, the device has it       *)
(* between requests.                                                       *)
CacheIsHonest ==
  \A p \in Params : pc = 0 /\ cache[p] # NoValue /\ p \notin doubt =>
    /\ IsPrefix(cache[p].data, store[p])
    /\ Numeric(cache[p].type) =>
         cache[p].value = Decoded(cache[p].data, cache[p].type)

(* Without expert mode no transfer is started that the IODD of the device  *)
(* does not allow, through whichever command.                              *)
RightsAreKept ==
  ~Expert /\ gw["iol"].job # NoJob =>
    \A p \in Target("iol") : gw["iol"].job.dir \in Device[p].access

(* What a gateway carries out is what the handler's request asks for, byte *)
(* for byte, and what the device allows.                                   *)
TransferIsAsked == TypeOK /\ JobIsAsked /\ RightsAreKept

(* Every request is answered, whether or not the gateway ever is.          *)
RequestEnds == pc > 0 ~> pc = 0
=============================================================================
