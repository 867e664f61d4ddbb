----------------------- MODULE ParameterAccess_proofs -----------------------
(***************************************************************************)
(* Proofs about ParameterAccess, for any parameters, requests and number   *)
(* of failing SDOs.                                                        *)
(*                                                                         *)
(* AccessInv, the inductive invariant, says what the registers hold at     *)
(* each step of the handler (RegistersFit, TransferFits, ResultFits), that *)
(* a gateway is busy exactly while it has a transfer (BusyFits), and that  *)
(* a write nobody waits for leaves its parameter in doubt                  *)
(* (PendingIsDoubted).                                                     *)
(***************************************************************************)
EXTENDS ParameterAccess, SequenceTheorems, WellFoundedInduction, TLAPS

(* The request being served goes through a gateway: G, with address d.     *)
ByGateway == Device[req.par].gw \in Gateways
G == gw[Device[req.par].gw]
Address == Device[req.par].head

\* The step that starts the transfer
DirStep == IF req.kind = "read" THEN 3 ELSE 5

(* Up to the start the handler fills the registers one by one.  Unless an  *)
(* earlier transfer was under way nobody else writes them.                 *)
RegistersFit ==
  pc > 0 /\ ByGateway =>
    /\ pc > 1 => G.head[1] = Address[1]
    /\ pc > 2 => G.head[2] = Address[2]
    /\ ~late /\ pc <= DirStep => G.job = NoJob
    /\ ~late /\ req.kind = "write" /\ pc \in {4, 5} => G.len = Len(Payload(req))
    /\ ~late /\ req.kind = "write" /\ pc = 5 => G.data = Payload(req)

(* After the start the transfer is the one asked for; once it is over its  *)
(* result is there.                                                        *)
TransferFits ==
  pc > 0 /\ ByGateway /\ pc > DirStep =>
    /\ G.job # NoJob =>
         /\ G.job.dir = req.kind /\ G.job.head = Address
         /\ req.kind = "read" => G.job.data = <<>>
         /\ req.kind = "write" /\ ~late => G.job.data = Payload(req)
    /\ req.kind = "read" /\ G.status = "ok" => G.data = store[req.par]
    /\ req.kind = "write" /\ ~late /\ G.status = "ok" => store[req.par] = Payload(req)
    /\ pc > DirStep + 1 => G.status = "ok"

(* What the handler has got at its end                                     *)
ResultFits ==
  /\ pc > 0 => pc <= IF ByGateway THEN 7 ELSE 2
  /\ pc = 7 /\ req.kind = "read" => IsPrefix(got.data, store[req.par])
  /\ pc = 2 /\ ~ByGateway =>
       IF req.kind = "read" THEN got.data = store[req.par]
       ELSE store[req.par] = Payload(req)

BusyFits == \A g \in Gateways : gw[g].status = "busy" <=> gw[g].job # NoJob

(* Where a write may still arrive                                          *)
InTransfer(p) == pc > 0 /\ p = req.par /\ ByGateway /\ pc > DirStep

PendingIsDoubted ==
  \A g \in Gateways : gw[g].job.dir = "write" =>
    \A p \in Target(g) : p \in doubt \/ InTransfer(p)

(* The parameter that a write is about to change or has changed            *)
Touched(p) ==
  /\ pc > 0 /\ p = req.par /\ req.kind = "write"
  /\ IF ByGateway THEN pc > DirStep /\ G.status = "ok" ELSE pc = 2

CacheFits ==
  \A p \in Params : cache[p] # NoValue =>
    /\ p \notin doubt /\ ~Touched(p) => IsPrefix(cache[p].data, store[p])
    /\ Numeric(cache[p].type) =>
         cache[p].value = Decoded(cache[p].data, cache[p].type)

(* The last answer stands: nothing is under way that could change it.      *)
AnswerFits ==
  answer.ok =>
    /\ pc = 0 /\ answer.par \in Params
    /\ Device[answer.par].gw \in Gateways => gw[Device[answer.par].gw].job = NoJob
    /\ AnswerIsReal

AccessInv ==
  /\ TypeOK /\ RegistersFit /\ TransferFits /\ ResultFits /\ BusyFits
  /\ PendingIsDoubted /\ CacheFits /\ AnswerFits /\ RightsAreKept
-----------------------------------------------------------------------------
(* Sequences of bytes                                                      *)

LEMMA PrefixOfItself ==
  ASSUME NEW S, NEW s \in Seq(S)
  PROVE  IsPrefix(s, s)
BY DEF IsPrefix

LEMMA PrefixTaken ==
  ASSUME NEW S, NEW s \in Seq(S), NEW k \in 0..Len(s)
  PROVE  SubSeq(s, 1, k) \in Seq(S) /\ IsPrefix(SubSeq(s, 1, k), s)
<1>1. SubSeq(s, 1, k) \in Seq(S) /\ Len(SubSeq(s, 1, k)) = k
  OBVIOUS
<1> QED
  BY <1>1 DEF IsPrefix

LEMMA WholeTaken ==
  ASSUME NEW S, NEW s \in Seq(S)
  PROVE  SubSeq(s, 1, Least(Len(s), Len(s))) = s
BY DEF Least

LEMMA StoredBytes ==
  ASSUME NEW n \in Nat, NEW S, NEW f \in [1..n -> S]
  PROVE  f \in Seq(S) /\ Len(f) = n
OBVIOUS

LEMMA BytesStored ==
  ASSUME NEW S, NEW s \in Seq(S)
  PROVE  s \in [1..Len(s) -> S]
OBVIOUS

LEMMA ByteFacts == 0 \in Byte /\ <<>> \in Seq(Byte)
BY AccessAssumption DEF Byte

-----------------------------------------------------------------------------
(* Numbers and their bytes                                                 *)

(* Induction over the naturals, for a set of them                          *)
LEMMA SetInduction ==
  ASSUME NEW T \in SUBSET Nat, 0 \in T, \A n \in T : n + 1 \in T
  PROVE  \A n \in Nat : n \in T
<1> SUFFICES ASSUME NEW m \in Nat, m \notin T
             PROVE  FALSE
  OBVIOUS
<1> DEFINE R == OpToRel(<, Nat)
           U == Nat \ T
<1>1. \A x, y \in Nat : <<x, y>> \in R <=> x < y
  BY DEF OpToRel
<1>2. IsWellFoundedOn(R, Nat)
  BY NatLessThanWellFounded
<1>3. U \subseteq Nat /\ U # {}
  OBVIOUS
<1> HIDE DEF R, U
<1>4. PICK x \in U : \A y \in U : ~(<<y, x>> \in R)
  BY <1>2, <1>3, WFMin
<1>5. x \in Nat /\ x \notin T
  BY DEF U
<1>6. x - 1 \in Nat /\ x - 1 < x /\ (x - 1) + 1 = x
  BY <1>5
<1>7. x - 1 \in T
  BY <1>1, <1>4, <1>5, <1>6 DEF U
<1> QED
  BY <1>5, <1>6, <1>7

LEMMA BaseFacts ==
  /\ Base \in Nat /\ Base > 1
  /\ \A n \in Nat : n \div Base \in Nat /\ n % Base \in Byte
  /\ \A n \in Nat : (n % Base) + Base * (n \div Base) = n
<1>1. Base \in Nat /\ Base > 1
  BY AccessAssumption
<1>2. \A n \in Nat : n \div Base \in Nat /\ n % Base \in Byte
  BY <1>1 DEF Byte
<1>3. \A n \in Nat : (n % Base) + Base * (n \div Base) = n
  BY <1>1
<1> QED
  BY <1>1, <1>2, <1>3

(* The recursion of Shifted defines a function of naturals.                *)
IsShifted(f, n, k) == f = [i \in 0..k |-> IF i = 0 THEN n ELSE f[i - 1] \div Base]

LEMMA ShiftedIs ==
  ASSUME NEW n \in Nat, NEW k \in Nat
  PROVE  IsShifted(Shifted(n, k), n, k)
<1> DEFINE T == {j \in Nat : \E f : IsShifted(f, n, j)}
<1>1. 0 \in T
  <2>1. IsShifted([i \in 0..0 |-> n], n, 0)
    BY DEF IsShifted
  <2> QED
    BY <2>1
<1>2. ASSUME NEW j \in T
      PROVE  j + 1 \in T
  <2>1. PICK f : IsShifted(f, n, j)
    OBVIOUS
  <2> DEFINE g == [i \in 0..j + 1 |-> IF i <= j THEN f[i] ELSE f[j] \div Base]
  <2>2. j \in Nat /\ \A i \in 0..j : f[i] = IF i = 0 THEN n ELSE f[i - 1] \div Base
    BY <2>1 DEF IsShifted
  <2>3. \A i \in 0..j + 1 : g[i] = IF i = 0 THEN n ELSE g[i - 1] \div Base
    <3> SUFFICES ASSUME NEW i \in 0..j + 1
                 PROVE  g[i] = IF i = 0 THEN n ELSE g[i - 1] \div Base
      OBVIOUS
    <3>1. CASE i <= j
      <4>1. i # 0 => i - 1 \in 0..j + 1 /\ i - 1 <= j
        BY <2>2, <3>1
      <4> QED
        BY <2>2, <3>1, <4>1
    <3>2. CASE ~(i <= j)
      <4>1. i = j + 1 /\ i - 1 = j /\ j \in 0..j + 1 /\ i # 0
        BY <2>2, <3>2
      <4> QED
        BY <2>2, <3>2, <4>1
    <3> QED
      BY <3>1, <3>2
  <2>4. IsShifted(g, n, j + 1)
    BY <2>3 DEF IsShifted
  <2> QED
    BY <2>2, <2>4
<1>3. k \in T
  BY <1>1, <1>2, SetInduction
<1>4. PICK f : IsShifted(f, n, k)
  BY <1>3
<1> QED
  BY <1>4 DEF IsShifted, Shifted

LEMMA ShiftedFacts ==
  ASSUME NEW n \in Nat, NEW k \in Nat
  PROVE  /\ Shifted(n, k)[0] = n
         /\ \A i \in 0..k : Shifted(n, k)[i] \in Nat
         /\ \A i \in 1..k : Shifted(n, k)[i] = Shifted(n, k)[i - 1] \div Base
<1> DEFINE f == Shifted(n, k)
           T == {i \in Nat : i <= k => f[i] \in Nat}
<1>1. f = [i \in 0..k |-> IF i = 0 THEN n ELSE f[i - 1] \div Base]
  BY ShiftedIs DEF IsShifted
<1> HIDE DEF f
<1>2. f[0] = n /\ \A i \in 1..k : f[i] = f[i - 1] \div Base
  BY <1>1
<1>3. 0 \in T
  BY <1>2
<1>4. ASSUME NEW i \in T
      PROVE  i + 1 \in T
  <2>1. i + 1 <= k => i + 1 \in 1..k /\ i <= k /\ (i + 1) - 1 = i
    OBVIOUS
  <2>2. i + 1 <= k => f[i + 1] = f[i] \div Base /\ f[i] \in Nat
    BY <1>2, <2>1
  <2> QED
    BY <2>2, BaseFacts
<1>5. \A i \in 0..k : f[i] \in Nat
  <2>1. \A i \in Nat : i \in T
    BY <1>3, <1>4, SetInduction
  <2> QED
    BY <2>1
<1> QED
  BY <1>2, <1>5 DEF f

LEMMA PackFits ==
  ASSUME NEW n \in Nat, NEW k \in Nat
  PROVE  Pack(n, k) \in [1..k -> Byte]
<1>1. \A i \in 1..k : Shifted(n, k)[i - 1] \in Nat
  BY ShiftedFacts
<1> QED
  BY <1>1, BaseFacts DEF Pack

(* The same for Unpack                                                     *)
IsUnpacked(f, data, size, k) ==
  f = [i \in 0..k |-> IF i = 0 THEN 0 ELSE data[size + 1 - i] + Base * f[i - 1]]

LEMMA UnpackIs ==
  ASSUME NEW data, NEW size \in Nat
  PROVE  \E f : IsUnpacked(f, data, size, size) /\ Unpack(data, size) = f[size]
<1> DEFINE T == {j \in Nat : \E f : IsUnpacked(f, data, size, j)}
<1>1. 0 \in T
  <2>1. IsUnpacked([i \in 0..0 |-> 0], data, size, 0)
    BY DEF IsUnpacked
  <2> QED
    BY <2>1
<1>2. ASSUME NEW j \in T
      PROVE  j + 1 \in T
  <2>1. PICK f : IsUnpacked(f, data, size, j)
    OBVIOUS
  <2> DEFINE v(i) == data[size + 1 - i]
             g == [i \in 0..j + 1 |-> IF i <= j THEN f[i] ELSE v(j + 1) + Base * f[j]]
  <2>2. j \in Nat /\ \A i \in 0..j : f[i] = IF i = 0 THEN 0 ELSE v(i) + Base * f[i - 1]
    BY <2>1 DEF IsUnpacked
  <2> HIDE DEF v
  <2>3. \A i \in 0..j + 1 : g[i] = IF i = 0 THEN 0 ELSE v(i) + Base * g[i - 1]
    <3> SUFFICES ASSUME NEW i \in 0..j + 1
                 PROVE  g[i] = IF i = 0 THEN 0 ELSE v(i) + Base * g[i - 1]
      OBVIOUS
    <3>1. CASE i <= j
      <4>1. i # 0 => i - 1 \in 0..j + 1 /\ i - 1 <= j
        BY <2>2, <3>1
      <4> QED
        BY <2>2, <3>1, <4>1
    <3>2. CASE ~(i <= j)
      <4>1. i = j + 1 /\ i - 1 = j /\ j \in 0..j + 1 /\ i # 0
        BY <2>2, <3>2
      <4> QED
        BY <2>2, <3>2, <4>1
    <3> QED
      BY <3>1, <3>2
  <2>4. IsUnpacked(g, data, size, j + 1)
    BY <2>3 DEF IsUnpacked, v
  <2> QED
    BY <2>2, <2>4
<1>3. size \in T
  BY <1>1, <1>2, SetInduction
<1>4. PICK f : IsUnpacked(f, data, size, size)
  BY <1>3
<1> DEFINE h == CHOOSE g : g = [i \in 0..size |-> IF i = 0 THEN 0
                                  ELSE data[size + 1 - i] + Base * g[i - 1]]
<1>5. IsUnpacked(h, data, size, size)
  BY <1>4 DEF IsUnpacked
<1>6. Unpack(data, size) = h[size]
  BY DEF Unpack
<1> QED
  BY <1>5, <1>6

(* What struct packs it unpacks again, for any base, size and number that  *)
(* fits (encode_ap_payload, decode_ap_payload): read from the highest byte *)
(* on, i bytes give the number without its size - i lowest digits.         *)
THEOREM RoundTrip ==
  ASSUME NEW n \in Nat, NEW size \in Nat, Fits(n, size)
  PROVE  Unpack(Pack(n, size), size) = n
<1> DEFINE s == Shifted(n, size)
           d == Pack(n, size)
<1>1. PICK f : IsUnpacked(f, d, size, size) /\ Unpack(d, size) = f[size]
  BY UnpackIs
<1>2. /\ s[0] = n /\ s[size] = 0
      /\ \A i \in 0..size : s[i] \in Nat
      /\ \A i \in 1..size : s[i] = s[i - 1] \div Base
      /\ \A i \in 1..size : d[i] = s[i - 1] % Base
  BY ShiftedFacts DEF Pack, Fits
<1> HIDE DEF s, d
<1>3. f[0] = 0 /\ \A i \in 1..size : f[i] = d[size + 1 - i] + Base * f[i - 1]
  BY <1>1 DEF IsUnpacked
<1> DEFINE T == {i \in Nat : i <= size => f[i] = s[size - i]}
<1>4. 0 \in T
  BY <1>2, <1>3
<1>5. ASSUME NEW i \in T
      PROVE  i + 1 \in T
  <2> SUFFICES ASSUME i + 1 <= size
               PROVE  f[i + 1] = s[size - (i + 1)]
    OBVIOUS
  <2> DEFINE j == size - i
  <2>1. j \in 1..size /\ j - 1 \in 0..size /\ i + 1 \in 1..size /\ size + 1 - (i + 1) = j
        /\ (i + 1) - 1 = i /\ size - (i + 1) = j - 1
    OBVIOUS
  <2>2. f[i] = s[j]
    BY <2>1
  <2> HIDE DEF j
  <2>3. f[i + 1] = d[j] + Base * f[i]
    BY <1>3, <2>1
  <2>4. d[j] = s[j - 1] % Base /\ s[j] = s[j - 1] \div Base /\ s[j - 1] \in Nat
    BY <1>2, <2>1
  <2>5. f[i + 1] = (s[j - 1] % Base) + Base * (s[j - 1] \div Base)
    BY <2>2, <2>3, <2>4
  <2> QED
    BY <2>1, <2>4, <2>5, BaseFacts
<1>6. size \in T
  BY <1>4, <1>5, SetInduction
<1>7. f[size] = s[0]
  BY <1>6
<1> QED
  BY <1>1, <1>2, <1>7 DEF d
-----------------------------------------------------------------------------
(* The bytes of a valid write, and that they mean the value written        *)
LEMMA PayloadIsBytes ==
  ASSUME NEW r \in Requests, Valid(r), r.kind = "write"
  PROVE  /\ Payload(r) \in Seq(Byte)
         /\ Numeric(r.type) => r.value = Decoded(Payload(r), r.type)
<1>1. PayloadOk(r)
  BY DEF Valid
<1>2. CASE Numeric(r.type)
  <2> DEFINE n == r.value[1]
             k == TypeSize[r.type]
  <2>1. r.value \in Seq(Nat) /\ Len(r.value) = 1
    BY <1>2, RequestAssumption DEF Numeric
  <2>2. n \in Nat /\ r.value = <<n>>
    BY <2>1
  <2>3. r.type \in DOMAIN TypeSize /\ k \in Nat \ {0} /\ r.type # Raw
    BY <1>2, AccessAssumption DEF Numeric
  <2>4. Fits(n, k)
    BY <1>1, <2>3 DEF PayloadOk
  <2>5. Payload(r) = Pack(n, k)
    BY <1>2, <2>4 DEF Payload, EncodedNumber
  <2> HIDE DEF n, k
  <2>8. Pack(n, k) \in [1..k -> Byte] /\ Unpack(Pack(n, k), k) = n
    BY <2>2, <2>3, <2>4, PackFits, RoundTrip
  <2>9. Payload(r) \in Seq(Byte)
    BY <2>3, <2>5, <2>8, StoredBytes
  <2>10. Decoded(Payload(r), r.type) = <<n>>
    BY <2>3, <2>5, <2>8 DEF Decoded, k
  <2> QED
    BY <2>2, <2>9, <2>10
<1>3. CASE ~Numeric(r.type)
  <2>1. r.type = Raw
    BY <1>1, <1>3 DEF PayloadOk
  <2>2. r.value \in Seq(Byte) /\ r.len \in Nat
    BY <2>1, RequestAssumption
  <2>3. Padding(r) \in Seq(Byte)
    <3> DEFINE k == IF r.len > Len(r.value) THEN r.len - Len(r.value) ELSE 0
    <3>1. k \in Nat
      BY <2>2
    <3>2. Padding(r) = [i \in 1..k |-> 0]
      BY DEF Padding
    <3> HIDE DEF k
    <3>3. [i \in 1..k |-> 0] \in [1..k -> Byte]
      BY ByteFacts
    <3> QED
      BY <3>1, <3>2, <3>3, StoredBytes
  <2>4. Payload(r) = r.value \o Padding(r)
    BY <1>3 DEF Payload
  <2>5. Payload(r) \in Seq(Byte)
    BY <2>2, <2>3, <2>4
  <2> QED
    BY <1>3, <2>5
<1> QED
  BY <1>2, <1>3
-----------------------------------------------------------------------------
(* The steps of the handler                                                *)

LEMMA TargetFacts ==
  ASSUME NEW r \in Requests, Valid(r)
  PROVE  /\ r.par \in Params /\ r.kind \in {"read", "write"}
         /\ Device[r.par].gw \in {"ap", "iol", "od"}
         /\ Device[r.par].head \in [1..2 -> Nat]
         /\ Device[r.par].size \in Nat
BY AccessAssumption, RequestAssumption DEF Valid, TargetOk, Gateways

LEMMA HeadStepsAre ==
  ASSUME NEW p \in Params
  PROVE  HeadSteps(p) = << <<"head", 1>>, <<"head", 2>> >>
<1>1. Device[p].head \in [1..2 -> Nat]
  BY AccessAssumption
<1>2. Len(Device[p].head) = 2
  BY <1>1, StoredBytes
<1> QED
  BY <1>2 DEF HeadSteps

LEMMA StepsAre ==
  ASSUME NEW r \in Requests, Valid(r)
  PROVE  /\ Device[r.par].gw = "od" =>
              Steps(r) = IF r.kind = "read" THEN << <<"get", 0>> >> ELSE << <<"set", 0>> >>
         /\ Device[r.par].gw # "od" /\ r.kind = "read" =>
              Steps(r) = << <<"head", 1>>, <<"head", 2>>, <<"dir", 0>>, <<"poll", 0>>,
                            <<"length", 0>>, <<"data", 0>> >>
         /\ Device[r.par].gw # "od" /\ r.kind = "write" =>
              Steps(r) = << <<"head", 1>>, <<"head", 2>>, <<"len", 0>>, <<"put", 0>>,
                            <<"dir", 0>>, <<"poll", 0>> >>
<1>0. r.par \in Params /\ r.kind \in {"read", "write"}
  BY TargetFacts
<1>1. HeadSteps(r.par) = << <<"head", 1>>, <<"head", 2>> >>
  BY <1>0, HeadStepsAre
<1>2. Device[r.par].gw # "od" /\ r.kind = "read" => Steps(r) =
        << <<"head", 1>>, <<"head", 2>> >> \o
        << <<"dir", 0>>, <<"poll", 0>>, <<"length", 0>>, <<"data", 0>> >>
  BY <1>1 DEF Steps, ReadSteps
<1>3. Device[r.par].gw # "od" /\ r.kind = "write" => Steps(r) =
        << <<"head", 1>>, <<"head", 2>> >> \o
        << <<"len", 0>>, <<"put", 0>>, <<"dir", 0>>, <<"poll", 0>> >>
  BY <1>0, <1>1 DEF Steps, WriteSteps
<1>4. \A a, b, c, d, e, f : <<a, b>> \o <<c, d, e, f>> = <<a, b, c, d, e, f>>
  <2> SUFFICES ASSUME NEW a, NEW b, NEW c, NEW d, NEW e, NEW f
               PROVE  <<a, b>> \o <<c, d, e, f>> = <<a, b, c, d, e, f>>
    OBVIOUS
  <2> DEFINE S == {a, b, c, d, e, f}
             s == <<a, b>>
             t == <<c, d, e, f>>
  <2>1. s \in Seq(S) /\ t \in Seq(S) /\ Len(s) = 2 /\ Len(t) = 4
    OBVIOUS
  <2>2. s \o t \in Seq(S) /\ Len(s \o t) = 6
    BY <2>1
  <2>3. \A i \in 1..6 : (s \o t)[i] = IF i <= 2 THEN s[i] ELSE t[i - 2]
    BY <2>1
  <2>4. \A i \in 1..6 : (s \o t)[i] = <<a, b, c, d, e, f>>[i]
    BY <2>3
  <2>5. <<a, b, c, d, e, f>> \in Seq(S) /\ Len(<<a, b, c, d, e, f>>) = 6
    OBVIOUS
  <2> QED
    BY <2>2, <2>4, <2>5, SeqEqual
<1>5. Device[r.par].gw = "od" =>
        Steps(r) = IF r.kind = "read" THEN << <<"get", 0>> >> ELSE << <<"set", 0>> >>
  BY DEF Steps, ObjectSteps
<1> QED
  BY <1>2, <1>3, <1>4, <1>5

(* Where the handler is, step by step                                      *)
Places ==
  /\ At("head") <=> ByGateway /\ pc \in {1, 2}
  /\ At("len") <=> ByGateway /\ req.kind = "write" /\ pc = 3
  /\ At("put") <=> ByGateway /\ req.kind = "write" /\ pc = 4
  /\ At("dir") <=> ByGateway /\ pc = DirStep
  /\ At("poll") <=> ByGateway /\ pc = DirStep + 1
  /\ At("length") <=> ByGateway /\ req.kind = "read" /\ pc = 5
  /\ At("data") <=> ByGateway /\ req.kind = "read" /\ pc = 6
  /\ At("get") <=> ~ByGateway /\ req.kind = "read" /\ pc = 1
  /\ At("set") <=> ~ByGateway /\ req.kind = "write" /\ pc = 1
  /\ AtEnd <=> pc = IF ByGateway THEN 7 ELSE 2
  /\ MayBeWritten <=> req.kind = "write" /\ (ByGateway => pc >= 5)
  /\ pc <= Len(Steps(req)) <=> pc < IF ByGateway THEN 7 ELSE 2

LEMMA PlacesAre ==
  ASSUME TypeOK, ResultFits, pc > 0
  PROVE  Places
<1>0. req \in Requests /\ Valid(req) /\ pc \in Nat /\ pc # 0
  BY DEF TypeOK
<1>1. /\ req.kind \in {"read", "write"} /\ Device[req.par].gw \in {"ap", "iol", "od"}
      /\ ByGateway <=> Device[req.par].gw # "od"
  BY <1>0, TargetFacts DEF ByGateway, Gateways
<1>2. pc <= IF ByGateway THEN 7 ELSE 2
  BY DEF ResultFits
<1>3. CASE ~ByGateway /\ req.kind = "read"
  <2>1. Steps(req) = << <<"get", 0>> >>
    BY <1>0, <1>1, <1>3, StepsAre
  <2>2. Len(Steps(req)) = 1 /\ Steps(req)[1][1] = "get" /\ pc \in {1, 2}
    BY <1>0, <1>2, <1>3, <2>1
  <2> QED
    BY <1>3, <2>2 DEF Places, At, AtEnd, MayBeWritten
<1>4. CASE ~ByGateway /\ req.kind = "write"
  <2>1. Steps(req) = << <<"set", 0>> >>
    BY <1>0, <1>1, <1>4, StepsAre
  <2>2. Len(Steps(req)) = 1 /\ Steps(req)[1][1] = "set" /\ pc \in {1, 2}
    BY <1>0, <1>2, <1>4, <2>1
  <2>3. MayBeWritten
    BY <1>4, <2>2 DEF MayBeWritten, Least
  <2> QED
    BY <1>4, <2>2, <2>3 DEF Places, At, AtEnd
<1>5. CASE ByGateway /\ req.kind = "read"
  <2>1. Steps(req) = << <<"head", 1>>, <<"head", 2>>, <<"dir", 0>>, <<"poll", 0>>,
                        <<"length", 0>>, <<"data", 0>> >>
    BY <1>0, <1>1, <1>5, StepsAre
  <2>2. /\ Len(Steps(req)) = 6 /\ pc \in {1, 2, 3, 4, 5, 6, 7}
        /\ Steps(req)[1][1] = "head" /\ Steps(req)[2][1] = "head" /\ Steps(req)[3][1] = "dir"
        /\ Steps(req)[4][1] = "poll" /\ Steps(req)[5][1] = "length" /\ Steps(req)[6][1] = "data"
    BY <1>0, <1>2, <1>5, <2>1
  <2> QED
    BY <1>5, <2>2 DEF Places, At, AtEnd, MayBeWritten, DirStep
<1>6. CASE ByGateway /\ req.kind = "write"
  <2>1. Steps(req) = << <<"head", 1>>, <<"head", 2>>, <<"len", 0>>, <<"put", 0>>,
                        <<"dir", 0>>, <<"poll", 0>> >>
    BY <1>0, <1>1, <1>6, StepsAre
  <2>2. /\ Len(Steps(req)) = 6 /\ pc \in {1, 2, 3, 4, 5, 6, 7}
        /\ Steps(req)[1][1] = "head" /\ Steps(req)[2][1] = "head" /\ Steps(req)[3][1] = "len"
        /\ Steps(req)[4][1] = "put" /\ Steps(req)[5][1] = "dir" /\ Steps(req)[6][1] = "poll"
    BY <1>0, <1>2, <1>6, <2>1
  <2>3. MayBeWritten <=> pc >= 5
    <3>1. pc >= 5 => 5 \in 1..Least(pc, 6)
      BY <2>2 DEF Least
    <3>2. pc < 5 => \A i \in 1..Least(pc, 6) : i \in {1, 2, 3, 4}
      BY <2>2 DEF Least
    <3> QED
      BY <1>6, <2>2, <3>1, <3>2 DEF MayBeWritten
  <2> QED
    BY <1>6, <2>2, <2>3 DEF Places, At, AtEnd, DirStep
<1> QED
  BY <1>1, <1>3, <1>4, <1>5, <1>6

LEMMA RegisterStepIs ==
  ASSUME TypeOK, ResultFits, AtRegister
  PROVE  /\ pc > 0 /\ pc <= DirStep /\ ByGateway
         /\ pc = 1 => Steps(req)[pc] = <<"head", 1>>
         /\ pc = 2 => Steps(req)[pc] = <<"head", 2>>
         /\ pc = DirStep => Steps(req)[pc] = <<"dir", 0>>
         /\ pc = 3 /\ req.kind = "write" => Steps(req)[pc] = <<"len", 0>>
         /\ pc = 4 => req.kind = "write" /\ Steps(req)[pc] = <<"put", 0>>
         /\ pc \in {1, 2, 3, 4, 5}
<1>1. pc > 0
  BY DEF AtRegister, At
<1>2. req \in Requests /\ Valid(req) /\ pc \in Nat
  BY <1>1 DEF TypeOK
<1>3. req.kind \in {"read", "write"} /\ (ByGateway <=> Device[req.par].gw # "od")
  BY <1>2, TargetFacts DEF ByGateway, Gateways
<1>4. /\ ByGateway
      /\ pc \in {1, 2} \/ (req.kind = "write" /\ pc \in {3, 4}) \/ pc = DirStep
  BY <1>1, PlacesAre DEF Places, AtRegister
<1>5. CASE req.kind = "read"
  <2>1. Steps(req) = << <<"head", 1>>, <<"head", 2>>, <<"dir", 0>>, <<"poll", 0>>,
                        <<"length", 0>>, <<"data", 0>> >>
    BY <1>2, <1>3, <1>4, <1>5, StepsAre
  <2> QED
    BY <1>1, <1>4, <1>5, <2>1 DEF DirStep
<1>6. CASE req.kind = "write"
  <2>1. Steps(req) = << <<"head", 1>>, <<"head", 2>>, <<"len", 0>>, <<"put", 0>>,
                        <<"dir", 0>>, <<"poll", 0>> >>
    BY <1>2, <1>3, <1>4, <1>6, StepsAre
  <2> QED
    BY <1>1, <1>4, <1>6, <2>1 DEF DirStep
<1> QED
  BY <1>3, <1>5, <1>6

(* The register writes of a request                                        *)
RegisterSteps(r) ==
  { <<"head", 1>>, <<"head", 2>>, <<"dir", 0>> } \cup
  (IF r.kind = "write" THEN { <<"len", 0>>, <<"put", 0>> } ELSE {})

(* What a register write does to the gateway: h is g afterwards.           *)
RegisterEffect(g, s, r, h) ==
  /\ h \in Gateway
  /\ s = <<"dir", 0>> =>
       /\ h.status = "busy" /\ h.job # NoJob /\ h.head = g.head
       /\ h.job.dir = r.kind /\ h.job.head = g.head
       /\ h.job.data = IF r.kind = "read" THEN <<>>
                       ELSE SubSeq(g.data, 1, Least(g.len, Len(g.data)))
  /\ s # <<"dir", 0>> => h.status = g.status /\ h.job = g.job
  /\ s = <<"head", 1>> => h.head = [g.head EXCEPT ![1] = Device[r.par].head[1]]
  /\ s = <<"head", 2>> => h.head = [g.head EXCEPT ![2] = Device[r.par].head[2]]
  /\ s \in { <<"len", 0>>, <<"put", 0>> } => h.head = g.head
  /\ s = <<"len", 0>> => h.len = Len(Payload(r))
  /\ s = <<"put", 0>> => h.data = Payload(r) /\ h.len = g.len

LEMMA RegisterFits ==
  ASSUME NEW g \in Gateway, NEW r \in Requests, Valid(r), NEW s \in RegisterSteps(r)
  PROVE  RegisterEffect(g, s, r, Register(g, s, r))
<1>0. /\ r.par \in Params /\ r.kind \in {"read", "write"}
      /\ Device[r.par].head \in [1..2 -> Nat]
  BY TargetFacts
<1> DEFINE h == Register(g, s, r)
<1>1. CASE s = <<"head", 1>>
  <2>1. h = [g EXCEPT !.head[1] = Device[r.par].head[1]]
    BY <1>1 DEF Register
  <2>2. [g.head EXCEPT ![1] = Device[r.par].head[1]] \in [1..2 -> Nat]
    BY <1>0 DEF Gateway
  <2>3. /\ h \in Gateway /\ h.head = [g.head EXCEPT ![1] = Device[r.par].head[1]]
        /\ h.status = g.status /\ h.job = g.job
    BY <2>1, <2>2 DEF Gateway
  <2> QED
    BY <1>1, <2>3 DEF RegisterEffect
<1>2. CASE s = <<"head", 2>>
  <2>1. h = [g EXCEPT !.head[2] = Device[r.par].head[2]]
    BY <1>2 DEF Register
  <2>2. [g.head EXCEPT ![2] = Device[r.par].head[2]] \in [1..2 -> Nat]
    BY <1>0 DEF Gateway
  <2>3. /\ h \in Gateway /\ h.head = [g.head EXCEPT ![2] = Device[r.par].head[2]]
        /\ h.status = g.status /\ h.job = g.job
    BY <2>1, <2>2 DEF Gateway
  <2> QED
    BY <1>2, <2>3 DEF RegisterEffect
<1>3. CASE s = <<"len", 0>>
  <2>1. Payload(r) \in Seq(Byte)
    BY <1>3, PayloadIsBytes DEF RegisterSteps
  <2>2. h = [g EXCEPT !.len = Len(Payload(r))]
    BY <1>3 DEF Register
  <2>3. /\ h \in Gateway /\ h.head = g.head /\ h.len = Len(Payload(r))
        /\ h.status = g.status /\ h.job = g.job
    BY <2>1, <2>2 DEF Gateway
  <2> QED
    BY <1>3, <2>3 DEF RegisterEffect
<1>4. CASE s = <<"put", 0>>
  <2>1. Payload(r) \in Seq(Byte)
    BY <1>4, PayloadIsBytes DEF RegisterSteps
  <2>2. h = [g EXCEPT !.data = Payload(r)]
    BY <1>4 DEF Register
  <2>3. /\ h \in Gateway /\ h.head = g.head /\ h.len = g.len /\ h.data = Payload(r)
        /\ h.status = g.status /\ h.job = g.job
    BY <2>1, <2>2 DEF Gateway
  <2> QED
    BY <1>4, <2>3 DEF RegisterEffect
<1>5. CASE s = <<"dir", 0>>
  <2> DEFINE e == [g EXCEPT !.dir = r.kind]
             D == IF r.kind = "read" THEN <<>>
                  ELSE SubSeq(g.data, 1, Least(g.len, Len(g.data)))
             j == [dir |-> r.kind, head |-> g.head, data |-> D]
  <2>1. h = Dispatched(e)
    BY <1>5 DEF Register
  <2>2. e \in Gateway /\ e.dir = r.kind /\ e.head = g.head /\ e.len = g.len /\ e.data = g.data
    BY <1>0 DEF Gateway
  <2>3. JobOf(e) = j
    BY <2>2 DEF JobOf
  <2>4. h = [e EXCEPT !.status = "busy", !.job = j]
    BY <2>1, <2>3 DEF Dispatched
  <2>5. D \in Seq(Byte)
    <3>1. g.data \in Seq(Byte) /\ Least(g.len, Len(g.data)) \in 0..Len(g.data)
      BY DEF Gateway, Least
    <3> QED
      BY <3>1, PrefixTaken, ByteFacts
  <2>6. g.head \in [1..2 -> Nat]
    BY DEF Gateway
  <2> HIDE DEF D, e
  <2>7. j \in Job /\ j # NoJob /\ j.dir = r.kind /\ j.head = g.head /\ j.data = D
    BY <1>0, <2>5, <2>6 DEF Job, NoJob
  <2> HIDE DEF j
  <2>8. h \in Gateway /\ h.status = "busy" /\ h.job = j /\ h.head = g.head
    BY <2>2, <2>4, <2>7 DEF Gateway
  <2> QED
    BY <1>5, <2>7, <2>8 DEF RegisterEffect, D
<1> QED
  BY <1>1, <1>2, <1>3, <1>4, <1>5 DEF RegisterSteps
-----------------------------------------------------------------------------
(* Steps that leave the gateways, the devices and the cache alone          *)

LEMMA NoAnswerIsNone == NoAnswer.ok \in BOOLEAN /\ ~NoAnswer.ok
BY DEF NoAnswer

(* The handler ends; what it leaves behind is in doubt.                    *)
LEMMA EndKeeps ==
  ASSUME AccessInv, pc' = 0, got' = got, answer' = NoAnswer, late' = late,
         gw' \in [Gateways -> Gateway], DOMAIN store' = Params,
         \A p \in Params : store'[p] \in [1..Device[p].size -> Byte],
         doubt' \subseteq Params, served' \in 0..MaxRequests, faults' \in 0..MaxFaults,
         BusyFits', PendingIsDoubted', CacheFits', RightsAreKept'
  PROVE  AccessInv'
<1>1. TypeOK'
  <2>1. got' \in [len : Nat, data : Seq(Byte)] /\ late' \in BOOLEAN
    BY DEF AccessInv, TypeOK
  <2>2. pc' \in 0..7 /\ ~(pc' > 0)
    OBVIOUS
  <2>3. answer'.ok \in BOOLEAN
    BY NoAnswerIsNone
  <2> QED
    BY <2>1, <2>2, <2>3 DEF TypeOK
<1>2. RegistersFit' /\ TransferFits' /\ ResultFits'
  BY <1>1 DEF RegistersFit, TransferFits, ResultFits
<1>3. AnswerFits'
  BY NoAnswerIsNone DEF AnswerFits
<1> QED
  BY <1>1, <1>2, <1>3 DEF AccessInv

LEMMA NoJobIsNone == NoJob.dir = "none" /\ NoJob \notin Job
BY DEF NoJob, Job

(* One parameter has an address.                                           *)
LEMMA OneTarget ==
  ASSUME NEW p \in Params, NEW q \in Params,
         Device[p].gw = Device[q].gw, Device[p].head = Device[q].head
  PROVE  p = q
BY AccessAssumption

(* The handler breaks off between two SDOs, or is refused.                 *)
LEMMA EndsFits ==
  ASSUME AccessInv, pc > 0, NEW maybe \in BOOLEAN, Ends(maybe),
         Touched(req.par) => maybe,
         ByGateway /\ pc > DirStep /\ G.job.dir = "write" => maybe,
         gw' = gw, store' = store, cache' = cache, got' = got, late' = late,
         served' = served, faults' \in 0..MaxFaults
  PROVE  AccessInv'
<1>1. req \in Requests /\ Valid(req) /\ req.par \in Params
  BY TargetFacts DEF AccessInv, TypeOK
<1>2. pc' = 0 /\ answer' = NoAnswer /\ doubt \subseteq doubt' /\ doubt' \subseteq Params
      /\ (maybe => req.par \in doubt')
  BY <1>1 DEF Ends, AccessInv, TypeOK
<1>3. BusyFits' /\ RightsAreKept'
  BY DEF AccessInv, BusyFits, RightsAreKept, Target
<1>4. PendingIsDoubted'
  <2> SUFFICES ASSUME NEW g \in Gateways, gw[g].job.dir = "write", NEW p \in Target(g)
               PROVE  p \in doubt'
    BY DEF PendingIsDoubted, Target
  <2>1. p \in doubt \/ InTransfer(p)
    BY DEF AccessInv, PendingIsDoubted
  <2>2. InTransfer(p) => G.job.dir = "write" /\ ByGateway /\ pc > DirStep /\ p = req.par
    BY DEF InTransfer, G, Target
  <2> QED
    BY <1>2, <2>1, <2>2
<1>5. CacheFits'
  <2> SUFFICES ASSUME NEW p \in Params, cache[p] # NoValue
               PROVE  /\ p \notin doubt' => IsPrefix(cache[p].data, store[p])
                      /\ Numeric(cache[p].type) =>
                           cache[p].value = Decoded(cache[p].data, cache[p].type)
    BY DEF CacheFits
  <2>1. Touched(p) => p \in doubt'
    BY <1>2 DEF Touched
  <2> QED
    BY <1>2, <2>1 DEF AccessInv, CacheFits
<1>6. /\ gw' \in [Gateways -> Gateway] /\ DOMAIN store' = Params
      /\ (\A p \in Params : store'[p] \in [1..Device[p].size -> Byte])
      /\ served' \in 0..MaxRequests
  BY DEF AccessInv, TypeOK
<1> QED
  BY <1>2, <1>3, <1>4, <1>5, <1>6, EndKeeps

LEMMA AcceptsStep ==
  ASSUME AccessInv, NEW r \in Requests, Accepts(r)
  PROVE  AccessInv'
<1>1. /\ pc = 0 /\ pc' = 1 /\ req' = r /\ got' = Nothing /\ answer' = NoAnswer /\ Valid(r)
      /\ late' = (Device[r.par].gw \in Gateways /\ gw[Device[r.par].gw].job # NoJob)
      /\ gw' = gw /\ store' = store /\ cache' = cache /\ doubt' = doubt /\ faults' = faults
      /\ served < MaxRequests /\ served' = served + 1
  BY DEF Accepts, Serves
<1>2. TypeOK'
  <2>1. got' \in [len : Nat, data : Seq(Byte)]
    BY <1>1, ByteFacts DEF Nothing
  <2>2. late' \in BOOLEAN /\ answer'.ok \in BOOLEAN
    BY <1>1, NoAnswerIsNone
  <2>3. served' \in 0..MaxRequests
    BY <1>1, AccessAssumption DEF AccessInv, TypeOK
  <2> QED
    BY <1>1, <2>1, <2>2, <2>3 DEF AccessInv, TypeOK
<1>3. RegistersFit' /\ TransferFits' /\ ResultFits'
  <2>1. ~late' /\ ByGateway' => G'.job = NoJob
    BY <1>1 DEF ByGateway, G
  <2>2. DirStep' \in {3, 5}
    BY DEF DirStep
  <2>3. RegistersFit'
    BY <1>1, <2>1 DEF RegistersFit
  <2>4. TransferFits'
    BY <1>1, <2>2 DEF TransferFits
  <2>5. ResultFits'
    BY <1>1 DEF ResultFits
  <2> QED
    BY <2>3, <2>4, <2>5
<1>4. BusyFits' /\ RightsAreKept'
  BY <1>1 DEF AccessInv, BusyFits, RightsAreKept, Target
<1>5. PendingIsDoubted'
  BY <1>1 DEF AccessInv, PendingIsDoubted, InTransfer, Target
<1>6. CacheFits'
  BY <1>1 DEF AccessInv, CacheFits, Touched
<1>7. AnswerFits'
  BY <1>1, NoAnswerIsNone DEF AnswerFits
<1> QED
  BY <1>2, <1>3, <1>4, <1>5, <1>6, <1>7 DEF AccessInv

LEMMA RefusesStep ==
  ASSUME AccessInv, NEW r, Refuses(r)
  PROVE  AccessInv'
<1>1. /\ pc = 0 /\ pc' = pc /\ got' = got /\ answer' = NoAnswer /\ late' = late
      /\ gw' = gw /\ store' = store /\ cache' = cache /\ doubt' = doubt /\ faults' = faults
      /\ req' = req /\ served < MaxRequests /\ served' = served + 1
  BY DEF Refuses, Serves
<1>2. served' \in 0..MaxRequests
  BY <1>1, AccessAssumption DEF AccessInv, TypeOK
<1>3. BusyFits' /\ RightsAreKept' /\ PendingIsDoubted' /\ CacheFits'
  BY <1>1 DEF AccessInv, BusyFits, RightsAreKept, Target, PendingIsDoubted, InTransfer,
              CacheFits, Touched
<1> QED
  BY <1>1, <1>2, <1>3, EndKeeps DEF AccessInv, TypeOK

LEMMA RawStepsAre ==
  ASSUME NEW r \in Requests, Valid(r), Device[r.par].gw \in Gateways, NEW s \in RawSteps(r)
  PROVE  s \in RegisterSteps(r)
<1>1. r.kind \in {"read", "write"} /\ Device[r.par].gw # "od"
  BY TargetFacts DEF Gateways
<1>2. PICK i \in 1..Len(Steps(r)) : s = Steps(r)[i]
  BY DEF RawSteps
<1>3. s[1] \in {"head", "len", "put", "dir"}
  BY DEF RawSteps
<1>4. CASE r.kind = "read"
  <2>1. Steps(r) = << <<"head", 1>>, <<"head", 2>>, <<"dir", 0>>, <<"poll", 0>>,
                        <<"length", 0>>, <<"data", 0>> >>
    BY <1>1, <1>4, StepsAre
  <2>2. i \in {1, 2, 3, 4, 5, 6}
    BY <2>1
  <2> QED
    BY <1>2, <1>3, <2>1, <2>2 DEF RegisterSteps
<1>5. CASE r.kind = "write"
  <2>1. Steps(r) = << <<"head", 1>>, <<"head", 2>>, <<"len", 0>>, <<"put", 0>>,
                        <<"dir", 0>>, <<"poll", 0>> >>
    BY <1>1, <1>5, StepsAre
  <2>2. i \in {1, 2, 3, 4, 5, 6}
    BY <2>1
  <2> QED
    BY <1>2, <1>3, <1>5, <2>1, <2>2 DEF RegisterSteps
<1> QED
  BY <1>1, <1>4, <1>5

LEMMA RawWriteStep ==
  ASSUME AccessInv, NEW r \in Requests, Valid(r), Device[r.par].gw \in Gateways,
         NEW s \in RawSteps(r), RawWrite(Device[r.par].gw, s, r)
  PROVE  AccessInv'
<1>0. PICK g \in Gateways : g = Device[r.par].gw
  OBVIOUS
<1>1. /\ pc = 0 /\ pc' = 0 /\ got' = got /\ answer' = NoAnswer /\ late' = late
      /\ store' = store /\ cache' = cache /\ faults' = faults /\ (g = "iol" => Expert)
      /\ served < MaxRequests /\ served' = served + 1
      /\ gw' = [gw EXCEPT ![g] = Register(@, s, r)]
      /\ doubt' = IF gw'[g].job.dir = "write"
                  THEN doubt \cup {p \in Params : Device[p].gw = g /\
                                                  Device[p].head = gw'[g].job.head}
                  ELSE doubt
  BY <1>0 DEF RawWrite, Serves, RawAllowed
<1>2. gw \in [Gateways -> Gateway] /\ doubt \subseteq Params
  BY DEF AccessInv, TypeOK
<1>3. RegisterEffect(gw[g], s, r, Register(gw[g], s, r))
  BY <1>2, RawStepsAre, RegisterFits
<1> DEFINE h == Register(gw[g], s, r)
<1>4. h \in Gateway /\ (h.status = "busy" <=> h.job # NoJob)
  <2>1. gw[g].status = "busy" <=> gw[g].job # NoJob
    BY DEF AccessInv, BusyFits
  <2> QED
    BY <1>3, <2>1 DEF RegisterEffect
<1> HIDE DEF h
<1>5. gw' \in [Gateways -> Gateway] /\ gw'[g] = h /\ \A k \in Gateways \ {g} : gw'[k] = gw[k]
  BY <1>1, <1>2, <1>4 DEF h
<1>6. doubt \subseteq doubt' /\ doubt' \subseteq Params
      /\ (gw'[g].job.dir = "write" => \A p \in Params : Device[p].gw = g /\
             Device[p].head = gw'[g].job.head => p \in doubt')
  BY <1>1, <1>2
<1>7. BusyFits'
  BY <1>4, <1>5 DEF AccessInv, BusyFits
<1>8. PendingIsDoubted'
  <2> SUFFICES ASSUME NEW k \in Gateways, gw'[k].job.dir = "write", NEW p \in Params,
                      Device[p].gw = k, Device[p].head = gw'[k].job.head
               PROVE  p \in doubt'
    BY DEF PendingIsDoubted, Target
  <2>1. CASE k = g
    BY <1>6, <2>1
  <2>2. CASE k # g
    BY <1>1, <1>5, <1>6, <2>2 DEF AccessInv, PendingIsDoubted, InTransfer, Target
  <2> QED
    BY <2>1, <2>2
<1>9. CacheFits'
  BY <1>1, <1>6 DEF AccessInv, CacheFits, Touched
<1>10. RightsAreKept'
  <2>1. ~Expert => gw'["iol"] = gw["iol"]
    BY <1>1, <1>5 DEF Gateways
  <2> QED
    BY <2>1 DEF AccessInv, RightsAreKept, Target
<1>11. served' \in 0..MaxRequests /\ faults' \in 0..MaxFaults /\ DOMAIN store' = Params
       /\ (\A p \in Params : store'[p] \in [1..Device[p].size -> Byte])
  BY <1>1, AccessAssumption DEF AccessInv, TypeOK
<1> QED
  BY <1>1, <1>5, <1>6, <1>7, <1>8, <1>9, <1>10, <1>11, EndKeeps
-----------------------------------------------------------------------------
(* The handler writes its registers                                        *)

(* What a register write of the handler leaves, whether or not its answer  *)
(* arrives                                                                 *)
RegisterIsWritten ==
  /\ gw' \in [Gateways -> Gateway]
  /\ BusyFits' /\ RightsAreKept'
  /\ \A k \in Gateways : k # Device[req.par].gw => gw'[k] = gw[k]
  /\ RegisterEffect(G, Steps(req)[pc], req, gw'[Device[req.par].gw])
  /\ pc = DirStep => G.head = Address

LEMMA RegisterWritten ==
  ASSUME AccessInv, AtRegister,
         gw' = [gw EXCEPT ![Device[req.par].gw] = Register(@, Steps(req)[pc], req)]
  PROVE  RegisterIsWritten
<1> DEFINE g == Device[req.par].gw
           s == Steps(req)[pc]
           h == Register(gw[g], s, req)
<1>1. /\ pc > 0 /\ pc <= DirStep /\ ByGateway /\ pc \in {1, 2, 3, 4, 5}
      /\ s \in RegisterSteps(req) /\ (s = <<"dir", 0>> => pc = DirStep)
      /\ (pc = DirStep => s = <<"dir", 0>>)
  <2>1. TypeOK /\ ResultFits
    BY DEF AccessInv
  <2>2. pc > 0
    BY <2>1, RegisterStepIs
  <2>3. req.kind \in {"read", "write"}
    BY <2>1, <2>2, TargetFacts DEF TypeOK
  <2> QED
    BY <2>1, <2>2, <2>3, RegisterStepIs DEF RegisterSteps, DirStep
<1>2. req \in Requests /\ Valid(req) /\ g \in Gateways /\ gw \in [Gateways -> Gateway]
      /\ req.par \in Params /\ req.kind \in {"read", "write"} /\ Address \in [1..2 -> Nat]
  BY <1>1, TargetFacts DEF AccessInv, TypeOK, ByGateway, Address
<1>3. RegisterEffect(gw[g], s, req, h)
  BY <1>1, <1>2, RegisterFits
<1>4. h \in Gateway /\ (h.status = "busy" <=> h.job # NoJob)
  <2>1. gw[g].status = "busy" <=> gw[g].job # NoJob
    BY <1>2 DEF AccessInv, BusyFits
  <2> QED
    BY <1>3, <2>1 DEF RegisterEffect
<1> HIDE DEF h, s
<1>5. /\ gw' \in [Gateways -> Gateway] /\ gw'[g] = h
      /\ \A k \in Gateways : k # g => gw'[k] = gw[k]
  BY <1>2, <1>4 DEF h, s
<1>6. BusyFits'
  BY <1>4, <1>5 DEF AccessInv, BusyFits
<1>7. pc = DirStep => G.head = Address
  <2>1. G.head \in [1..2 -> Nat]
    BY <1>2 DEF G, Gateway
  <2>2. pc = DirStep => G.head[1] = Address[1] /\ G.head[2] = Address[2]
    BY <1>1 DEF AccessInv, RegistersFit, DirStep
  <2> QED
    BY <1>2, <2>1, <2>2
<1>8. RightsAreKept'
  <2> SUFFICES ASSUME ~Expert, gw'["iol"].job # NoJob, NEW p \in Params,
                      Device[p].gw = "iol", Device[p].head = gw'["iol"].job.head
               PROVE  gw'["iol"].job.dir \in Device[p].access
    BY DEF RightsAreKept, Target
  <2>1. CASE gw'["iol"].job = gw["iol"].job
    BY <2>1 DEF AccessInv, RightsAreKept, Target
  <2>2. CASE gw'["iol"].job # gw["iol"].job
    <3>1. g = "iol"
      BY <1>5, <2>2 DEF Gateways
    <3>2. s = <<"dir", 0>>
      BY <1>3, <1>5, <2>2, <3>1 DEF RegisterEffect
    <3>3. h.job.head = Address /\ h.job.dir = req.kind
      BY <1>1, <1>3, <1>7, <3>2 DEF RegisterEffect, G, s
    <3>4. p = req.par
      BY <1>2, <1>5, <3>1, <3>3, OneTarget DEF Address
    <3>5. req.kind \in Device[req.par].access
      BY <1>2, <3>1 DEF Valid, Allowed
    <3> QED
      BY <1>5, <3>1, <3>3, <3>4, <3>5
  <2> QED
    BY <2>1, <2>2
<1> QED
  BY <1>3, <1>5, <1>6, <1>7, <1>8 DEF RegisterIsWritten, G, s

LEMMA WritesRegisterStep ==
  ASSUME AccessInv, WritesRegister
  PROVE  AccessInv'
<1>1. /\ AtRegister /\ pc' = pc + 1 /\ req' = req /\ got' = got /\ store' = store
      /\ cache' = cache /\ doubt' = doubt /\ late' = late /\ answer' = answer
      /\ served' = served /\ faults' = faults
      /\ gw' = [gw EXCEPT ![Device[req.par].gw] = Register(@, Steps(req)[pc], req)]
  BY DEF WritesRegister
<1>2. RegisterIsWritten
  BY <1>1, RegisterWritten
<1>3. /\ pc > 0 /\ pc <= DirStep /\ ByGateway /\ pc \in {1, 2, 3, 4, 5}
      /\ pc = 1 => Steps(req)[pc] = <<"head", 1>>
      /\ pc = 2 => Steps(req)[pc] = <<"head", 2>>
      /\ pc = DirStep => Steps(req)[pc] = <<"dir", 0>>
      /\ pc = 3 /\ req.kind = "write" => Steps(req)[pc] = <<"len", 0>>
      /\ pc = 4 => req.kind = "write" /\ Steps(req)[pc] = <<"put", 0>>
  BY <1>1, RegisterStepIs DEF AccessInv
<1>4. req \in Requests /\ Valid(req) /\ req.par \in Params /\ req.kind \in {"read", "write"}
      /\ DirStep = IF req.kind = "read" THEN 3 ELSE 5
  BY <1>3, TargetFacts DEF AccessInv, TypeOK, DirStep
<1>5. /\ ByGateway' /\ DirStep' = DirStep /\ Address' = Address
      /\ Payload(req)' = Payload(req)
  BY <1>1, <1>3 DEF ByGateway, DirStep, Address,
                    Payload, EncodedNumber, Padding, Numeric, Fits, Pack, Shifted
<1>6. /\ G \in Gateway /\ G' \in Gateway /\ G' = gw'[Device[req.par].gw]
      /\ RegisterEffect(G, Steps(req)[pc], req, G')
  BY <1>1, <1>2, <1>3 DEF RegisterIsWritten, G, ByGateway, AccessInv, TypeOK
<1>7. TypeOK'
  BY <1>1, <1>2, <1>3 DEF AccessInv, TypeOK, RegisterIsWritten
<1>8. pc = DirStep =>
        /\ G'.status = "busy" /\ G'.job # NoJob /\ G'.head = G.head
        /\ G'.job.dir = req.kind /\ G'.job.head = Address
        /\ G'.job.data = IF req.kind = "read" THEN <<>>
                         ELSE SubSeq(G.data, 1, Least(G.len, Len(G.data)))
  BY <1>2, <1>3, <1>6 DEF RegisterEffect, RegisterIsWritten
<1>9. pc # DirStep => G'.status = G.status /\ G'.job = G.job
  <2>1. pc # DirStep => Steps(req)[pc] # <<"dir", 0>>
    BY <1>3, <1>4
  <2> QED
    BY <1>6, <2>1 DEF RegisterEffect
<1>10. RegistersFit'
  <2>1. CASE pc = 1
    <3>1. G'.head = [G.head EXCEPT ![1] = Address[1]]
      BY <1>3, <1>6, <2>1 DEF RegisterEffect, Address
    <3>2. G'.head[1] = Address[1]
      BY <3>1, <1>6 DEF Gateway
    <3>3. ~late => G'.job = NoJob
      BY <1>3, <1>4, <1>9, <2>1 DEF AccessInv, RegistersFit
    <3> QED
      BY <1>1, <1>5, <2>1, <3>2, <3>3 DEF RegistersFit
  <2>2. CASE pc = 2
    <3>1. G'.head = [G.head EXCEPT ![2] = Address[2]]
      BY <1>3, <1>6, <2>2 DEF RegisterEffect, Address
    <3>2. G'.head[1] = Address[1] /\ G'.head[2] = Address[2]
      BY <3>1, <1>3, <1>6, <2>2 DEF Gateway, AccessInv, RegistersFit
    <3>3. ~late => G'.job = NoJob
      BY <1>3, <1>4, <1>9, <2>2 DEF AccessInv, RegistersFit
    <3> QED
      BY <1>1, <1>5, <2>2, <3>2, <3>3 DEF RegistersFit
  <2>3. CASE pc = DirStep
    <3>1. G'.head[1] = Address[1] /\ G'.head[2] = Address[2]
      BY <1>3, <1>4, <1>8, <2>3 DEF AccessInv, RegistersFit
    <3>2. ~(pc' <= DirStep) /\ ~(req.kind = "write" /\ pc' \in {4, 5})
      BY <1>1, <1>4, <2>3
    <3> QED
      BY <1>1, <1>5, <3>1, <3>2 DEF RegistersFit
  <2>4. CASE pc = 3 /\ req.kind = "write"
    <3>0. Steps(req)[pc] = <<"len", 0>> /\ pc # DirStep
      BY <1>3, <1>4, <2>4
    <3>1. G'.head = G.head /\ G'.len = Len(Payload(req)) /\ G'.job = G.job
      <4>1. RegisterEffect(G, <<"len", 0>>, req, G')
        BY <1>6, <3>0
      <4>2. <<"len", 0>> \in { <<"len", 0>>, <<"put", 0>> }
        OBVIOUS
      <4> QED
        BY <1>9, <3>0, <4>1, <4>2 DEF RegisterEffect
    <3>2. G.head[1] = Address[1] /\ G.head[2] = Address[2] /\ (~late => G.job = NoJob)
      BY <1>3, <1>4, <2>4 DEF AccessInv, RegistersFit
    <3> QED
      BY <1>1, <1>5, <2>4, <3>1, <3>2 DEF RegistersFit
  <2>5. CASE pc = 4
    <3>0. Steps(req)[pc] = <<"put", 0>> /\ pc # DirStep
      BY <1>3, <1>4, <2>5
    <3>1. G'.head = G.head /\ G'.len = G.len /\ G'.data = Payload(req) /\ G'.job = G.job
      <4>1. RegisterEffect(G, <<"put", 0>>, req, G')
        BY <1>6, <3>0
      <4>2. <<"put", 0>> \in { <<"len", 0>>, <<"put", 0>> }
        OBVIOUS
      <4> QED
        BY <1>9, <3>0, <4>1, <4>2 DEF RegisterEffect
    <3>2. /\ G.head[1] = Address[1] /\ G.head[2] = Address[2]
          /\ ~late => G.job = NoJob /\ G.len = Len(Payload(req))
      BY <1>3, <1>4, <2>5 DEF AccessInv, RegistersFit
    <3> QED
      BY <1>1, <1>5, <2>5, <3>1, <3>2 DEF RegistersFit
  <2> QED
    BY <1>3, <1>4, <2>1, <2>2, <2>3, <2>4, <2>5
<1>11. TransferFits'
  <2>1. pc' > DirStep => pc = DirStep /\ pc' = DirStep + 1
    BY <1>1, <1>3, <1>4
  <2>2. pc = DirStep /\ req.kind = "write" /\ ~late => G'.job.data = Payload(req)
    <3> SUFFICES ASSUME pc = DirStep, req.kind = "write", ~late
                 PROVE  G'.job.data = Payload(req)
      OBVIOUS
    <3>1. G.len = Len(Payload(req)) /\ G.data = Payload(req)
      BY <1>3, <1>4 DEF AccessInv, RegistersFit
    <3>2. Payload(req) \in Seq(Byte)
      BY <1>4, PayloadIsBytes
    <3> QED
      BY <1>8, <3>1, <3>2, WholeTaken
  <2> QED
    BY <1>1, <1>4, <1>5, <1>8, <2>1, <2>2 DEF TransferFits
<1>12. ResultFits'
  <2>1. pc' \in {2, 3, 4, 5, 6}
    BY <1>1, <1>3
  <2> QED
    BY <1>5, <2>1 DEF ResultFits
<1>13. PendingIsDoubted'
  <2> SUFFICES ASSUME NEW k \in Gateways, gw'[k].job.dir = "write", NEW p \in Params,
                      Device[p].gw = k, Device[p].head = gw'[k].job.head
               PROVE  p \in doubt \/ InTransfer(p)'
    BY <1>1 DEF PendingIsDoubted, Target
  <2>0. ~InTransfer(p)
    BY <1>3, <1>4 DEF InTransfer
  <2>1. CASE gw'[k].job = gw[k].job
    BY <2>0, <2>1 DEF AccessInv, PendingIsDoubted, Target
  <2>2. CASE gw'[k].job # gw[k].job
    <3>1. k = Device[req.par].gw
      BY <1>2, <2>2 DEF RegisterIsWritten
    <3>2. pc = DirStep
      BY <1>6, <1>9, <2>2, <3>1 DEF G
    <3>3. p = req.par
      BY <1>4, <1>6, <1>8, <3>1, <3>2, OneTarget DEF Address
    <3> QED
      BY <1>1, <1>3, <1>4, <1>5, <3>2, <3>3 DEF InTransfer
  <2> QED
    BY <2>1, <2>2
<1>14. CacheFits'
  <2>1. \A p \in Params : ~Touched(p)
    BY <1>3, <1>4 DEF Touched
  <2> QED
    BY <1>1, <2>1 DEF AccessInv, CacheFits
<1>15. AnswerFits'
  BY <1>1, <1>3 DEF AccessInv, AnswerFits
<1> QED
  BY <1>2, <1>7, <1>10, <1>11, <1>12, <1>13, <1>14, <1>15 DEF AccessInv, RegisterIsWritten
-----------------------------------------------------------------------------
(* An SDO fails, or the transfer does not come to an end                   *)

(* What the handler may have changed is in doubt when it breaks off.       *)
LEMMA MayBeWrittenFits ==
  ASSUME AccessInv, pc > 0
  PROVE  /\ Touched(req.par) => MayBeWritten
         /\ ByGateway /\ pc > DirStep /\ G.job.dir = "write" => MayBeWritten
<1>1. MayBeWritten <=> req.kind = "write" /\ (ByGateway => pc >= 5)
  BY PlacesAre DEF Places, AccessInv
<1>2. req.kind = "write" /\ pc > DirStep => pc >= 5
  BY DEF AccessInv, TypeOK, DirStep
<1>3. Touched(req.par) => MayBeWritten
  BY <1>1, <1>2 DEF Touched
<1>4. ByGateway /\ pc > DirStep /\ G.job.dir = "write" => req.kind = "write"
  BY NoJobIsNone DEF AccessInv, TransferFits
<1> QED
  BY <1>1, <1>2, <1>3, <1>4

LEMMA BreaksOff ==
  ASSUME AccessInv, pc > 0, Ends(MayBeWritten),
         gw' = gw, store' = store, cache' = cache, got' = got, late' = late,
         served' = served, faults' \in 0..MaxFaults
  PROVE  AccessInv'
<1>1. CASE MayBeWritten
  <2>1. Ends(TRUE)
    BY <1>1 DEF Ends
  <2> QED
    BY <2>1, EndsFits
<1>2. CASE ~MayBeWritten
  <2>1. Ends(FALSE)
    BY <1>2 DEF Ends
  <2>2. ~Touched(req.par) /\ ~(ByGateway /\ pc > DirStep /\ G.job.dir = "write")
    BY <1>2, MayBeWrittenFits
  <2> QED
    BY <2>1, <2>2, EndsFits
<1> QED
  BY <1>1, <1>2

LEMMA TimesOutStep ==
  ASSUME AccessInv, TimesOut \/ FailsAfterwards
  PROVE  AccessInv'
<1>1. /\ pc > 0 /\ Ends(MayBeWritten) /\ gw' = gw /\ store' = store /\ cache' = cache
      /\ got' = got /\ late' = late /\ served' = served /\ faults' = faults
  BY DEF TimesOut, FailsAfterwards, At, AtEnd
<1> QED
  BY <1>1, BreaksOff DEF AccessInv, TypeOK

LEMMA RejectedStep ==
  ASSUME AccessInv, Rejected
  PROVE  AccessInv'
<1>1. /\ pc > 0 /\ At("poll") /\ Status = "error" /\ Ends(FALSE) /\ gw' = gw
      /\ store' = store /\ cache' = cache
      /\ got' = got /\ late' = late /\ served' = served /\ faults' = faults
  BY DEF Rejected, At
<1>2. ByGateway
  BY <1>1, PlacesAre DEF Places, AccessInv
<1>3. G.status = "error" /\ G.job = NoJob
  BY <1>1, <1>2 DEF Status, G, ByGateway, AccessInv, BusyFits
<1>4. ~Touched(req.par) /\ G.job.dir # "write"
  BY <1>2, <1>3, NoJobIsNone DEF Touched
<1> QED
  BY <1>1, <1>4, EndsFits DEF AccessInv, TypeOK

LEMMA SdoFailsStep ==
  ASSUME AccessInv, NEW done \in BOOLEAN, SdoFails(done)
  PROVE  AccessInv'
<1>1. /\ pc > 0 /\ pc <= Len(Steps(req)) /\ Ends(MayBeWritten) /\ req' = req
      /\ got' = got /\ cache' = cache /\ late' = late /\ served' = served
  BY DEF SdoFails
<1>2. faults' \in 0..MaxFaults /\ served' \in 0..MaxRequests
  BY <1>1, AccessAssumption DEF SdoFails, AccessInv, TypeOK
<1>3. req \in Requests /\ Valid(req) /\ req.par \in Params /\ req.kind \in {"read", "write"}
  BY <1>1, TargetFacts DEF AccessInv, TypeOK
<1>4. /\ pc' = 0 /\ answer' = NoAnswer /\ doubt \subseteq doubt' /\ doubt' \subseteq Params
      /\ MayBeWritten => req.par \in doubt'
  BY <1>1, <1>3 DEF Ends, AccessInv, TypeOK
<1>5. Places
  BY <1>1, PlacesAre DEF AccessInv
<1>6. CASE done /\ AtRegister
  <2>1. gw' = [gw EXCEPT ![Device[req.par].gw] = Register(@, Steps(req)[pc], req)]
    BY <1>6 DEF SdoFails
  <2>2. store' = store
    <3>1. ~At("set")
      BY <1>5, <1>6 DEF Places, AtRegister
    <3> QED
      BY <3>1 DEF SdoFails
  <2>3. RegisterIsWritten
    BY <1>6, <2>1, RegisterWritten
  <2>4. pc <= DirStep /\ ByGateway /\ (pc = DirStep => Steps(req)[pc] = <<"dir", 0>>)
        /\ (pc # DirStep => Steps(req)[pc] # <<"dir", 0>>)
    BY <1>3, <1>6, RegisterStepIs DEF AccessInv, DirStep
  <2>5. PendingIsDoubted'
    <3> SUFFICES ASSUME NEW k \in Gateways, gw'[k].job.dir = "write", NEW p \in Params,
                        Device[p].gw = k, Device[p].head = gw'[k].job.head
                 PROVE  p \in doubt'
      BY DEF PendingIsDoubted, Target
    <3>0. ~InTransfer(p)
      BY <1>3, <2>4 DEF InTransfer, DirStep, AccessInv, TypeOK
    <3>1. CASE gw'[k].job = gw[k].job
      BY <1>4, <3>0, <3>1 DEF AccessInv, PendingIsDoubted, Target
    <3>2. CASE gw'[k].job # gw[k].job
      <4>1. k = Device[req.par].gw
        BY <2>3, <3>2 DEF RegisterIsWritten
      <4>2. pc = DirStep
        BY <2>3, <2>4, <3>2, <4>1 DEF RegisterIsWritten, RegisterEffect, G
      <4>3. gw'[k].job.head = Address /\ gw'[k].job.dir = req.kind
        BY <2>3, <2>4, <4>1, <4>2 DEF RegisterIsWritten, RegisterEffect
      <4>4. p = req.par
        BY <1>3, <4>1, <4>3, OneTarget DEF Address
      <4>5. MayBeWritten
        BY <1>5, <4>2, <4>3 DEF Places, DirStep
      <4> QED
        BY <1>4, <4>4, <4>5
    <3> QED
      BY <3>1, <3>2
  <2>6. CacheFits'
    <3>1. \A p \in Params : ~Touched(p)
      BY <1>3, <2>4 DEF Touched, DirStep, AccessInv, TypeOK
    <3> QED
      BY <1>1, <1>4, <2>2, <3>1 DEF AccessInv, CacheFits
  <2>7. DOMAIN store' = Params /\ \A p \in Params : store'[p] \in [1..Device[p].size -> Byte]
    BY <2>2 DEF AccessInv, TypeOK
  <2> QED
    BY <1>1, <1>2, <1>4, <2>3, <2>5, <2>6, <2>7, EndKeeps DEF RegisterIsWritten
<1>7. CASE done /\ At("set") /\ Len(Payload(req)) = Device[req.par].size
  <2>1. ~ByGateway /\ req.kind = "write" /\ pc = 1 /\ MayBeWritten /\ ~AtRegister
    BY <1>5, <1>7 DEF Places, AtRegister
  <2>2. gw' = gw /\ store' = [store EXCEPT ![req.par] = Payload(req)]
    BY <1>7, <2>1 DEF SdoFails
  <2>3. Payload(req) \in [1..Device[req.par].size -> Byte]
    BY <1>3, <1>7, <2>1, PayloadIsBytes, BytesStored
  <2>4. DOMAIN store' = Params /\ \A p \in Params : store'[p] \in [1..Device[p].size -> Byte]
    BY <2>2, <2>3 DEF AccessInv, TypeOK
  <2>5. BusyFits' /\ RightsAreKept' /\ gw' \in [Gateways -> Gateway]
    BY <2>2 DEF AccessInv, BusyFits, RightsAreKept, Target, TypeOK
  <2>6. PendingIsDoubted'
    BY <1>4, <2>1, <2>2 DEF AccessInv, PendingIsDoubted, Target, InTransfer
  <2>7. CacheFits'
    <3> SUFFICES ASSUME NEW p \in Params, cache[p] # NoValue
                 PROVE  /\ p \notin doubt' => IsPrefix(cache[p].data, store'[p])
                        /\ Numeric(cache[p].type) =>
                             cache[p].value = Decoded(cache[p].data, cache[p].type)
      BY <1>1 DEF CacheFits
    <3>1. ~Touched(p)
      BY <2>1 DEF Touched
    <3>2. p \notin doubt' => store'[p] = store[p]
      BY <1>4, <2>1, <2>2 DEF AccessInv, TypeOK
    <3> QED
      BY <1>4, <3>1, <3>2 DEF AccessInv, CacheFits
  <2> QED
    BY <1>1, <1>2, <1>4, <2>4, <2>5, <2>6, <2>7, EndKeeps
<1>8. CASE /\ ~(done /\ AtRegister)
           /\ ~(done /\ At("set") /\ Len(Payload(req)) = Device[req.par].size)
  <2>1. gw' = gw /\ store' = store
    BY <1>8 DEF SdoFails
  <2> QED
    BY <1>1, <1>2, <2>1, BreaksOff
<1> QED
  BY <1>6, <1>7, <1>8
-----------------------------------------------------------------------------
(* The handler fetches the result                                          *)

(* Once the transfer is over the handler goes on without touching anything *)
(* but what it has got.                                                    *)
LEMMA GoesOn ==
  ASSUME AccessInv, pc > 0, ByGateway, pc > DirStep, G.status = "ok",
         pc < 7, pc' = pc + 1, got' \in [len : Nat, data : Seq(Byte)],
         pc' = 7 /\ req.kind = "read" => IsPrefix(got'.data, store[req.par]),
         UNCHANGED <<req, gw, store, cache, doubt, late, answer, served, faults>>
  PROVE  AccessInv'
<1>1. pc \in Nat /\ req.kind \in {"read", "write"} /\ DirStep \in {3, 5}
  BY TargetFacts DEF AccessInv, TypeOK, DirStep
<1>2. ByGateway' /\ DirStep' = DirStep /\ G' = G /\ Address' = Address
  BY DEF ByGateway, DirStep, G, Address
<1>3. TypeOK'
  BY DEF AccessInv, TypeOK
<1>4. RegistersFit'
  <2>1. DirStep = IF req.kind = "read" THEN 3 ELSE 5
    BY DEF DirStep
  <2>2. pc > 2 /\ ~(pc' <= DirStep) /\ ~(req.kind = "write" /\ pc' \in {4, 5})
    BY <1>1, <2>1
  <2>3. G.head[1] = Address[1] /\ G.head[2] = Address[2]
    BY <2>2, <1>1 DEF AccessInv, RegistersFit
  <2> QED
    BY <1>2, <2>2, <2>3 DEF RegistersFit
<1>5. TransferFits'
  <2>1. Payload(req)' = Payload(req)
    BY DEF Payload, EncodedNumber, Padding, Numeric, Fits, Pack, Shifted
  <2> QED
    BY <1>1, <1>2, <2>1 DEF AccessInv, TransferFits
<1>6. ResultFits'
  BY <1>1, <1>2 DEF ResultFits
<1>7. BusyFits' /\ RightsAreKept'
  BY DEF AccessInv, BusyFits, RightsAreKept, Target
<1>8. PendingIsDoubted'
  <2>1. \A p : InTransfer(p) => InTransfer(p)'
    BY <1>1, <1>2 DEF InTransfer
  <2> QED
    BY <2>1 DEF AccessInv, PendingIsDoubted, Target
<1>9. CacheFits'
  <2>1. \A p : Touched(p) => Touched(p)'
    BY <1>1, <1>2 DEF Touched
  <2> QED
    BY <2>1 DEF AccessInv, CacheFits
<1>10. AnswerFits'
  BY DEF AccessInv, AnswerFits
<1> QED
  BY <1>3, <1>4, <1>5, <1>6, <1>7, <1>8, <1>9, <1>10 DEF AccessInv

LEMMA PolledStep ==
  ASSUME AccessInv, Polled
  PROVE  AccessInv'
<1>1. /\ At("poll") /\ Status = "ok" /\ pc' = pc + 1 /\ pc > 0 /\ got' = got
      /\ UNCHANGED <<req, gw, store, cache, doubt, late, answer, served, faults>>
  BY DEF Polled, At
<1>2. ByGateway /\ pc = DirStep + 1
  BY <1>1, PlacesAre DEF Places, AccessInv
<1>3. DirStep = IF req.kind = "read" THEN 3 ELSE 5
  BY DEF DirStep
<1>4. pc > DirStep /\ pc < 7 /\ ~(pc' = 7 /\ req.kind = "read")
  BY <1>1, <1>2, <1>3
<1>5. got' \in [len : Nat, data : Seq(Byte)] /\ G.status = "ok"
  BY <1>1 DEF AccessInv, TypeOK, G, Status
<1> QED
  BY <1>1, <1>2, <1>4, <1>5, GoesOn

LEMMA ReadsLengthStep ==
  ASSUME AccessInv, ReadsLength
  PROVE  AccessInv'
<1>1. /\ At("length") /\ got' = [got EXCEPT !.len = G.len] /\ pc' = pc + 1 /\ pc > 0
      /\ UNCHANGED <<req, gw, store, cache, doubt, late, answer, served, faults>>
  BY DEF ReadsLength, At, G
<1>2. ByGateway /\ req.kind = "read" /\ pc = 5
  BY <1>1, PlacesAre DEF Places, AccessInv
<1>3. G \in Gateway /\ DirStep = 3
  BY <1>2 DEF G, ByGateway, AccessInv, TypeOK, DirStep
<1>4. G.status = "ok"
  BY <1>2, <1>3 DEF AccessInv, TransferFits
<1>5. got' \in [len : Nat, data : Seq(Byte)]
  <2>1. got \in [len : Nat, data : Seq(Byte)] /\ G.len \in Nat
    BY <1>3 DEF AccessInv, TypeOK, Gateway
  <2> QED
    BY <1>1, <2>1
<1> QED
  BY <1>1, <1>2, <1>3, <1>4, <1>5, GoesOn

LEMMA ReadsDataStep ==
  ASSUME AccessInv, ReadsData
  PROVE  AccessInv'
<1> DEFINE k == Least(Least(req.len, got.len), Len(G.data))
<1>1. /\ At("data") /\ got' = [got EXCEPT !.data = SubSeq(G.data, 1, k)]
      /\ pc' = pc + 1 /\ pc > 0
      /\ UNCHANGED <<req, gw, store, cache, doubt, late, answer, served, faults>>
  BY DEF ReadsData, At, G
<1>2. ByGateway /\ req.kind = "read" /\ pc = 6
  BY <1>1, PlacesAre DEF Places, AccessInv
<1>3. G \in Gateway /\ DirStep = 3
  BY <1>2 DEF G, ByGateway, AccessInv, TypeOK, DirStep
<1>4. G.status = "ok" /\ G.data = store[req.par]
  BY <1>2, <1>3 DEF AccessInv, TransferFits
<1>5. G.data \in Seq(Byte) /\ k \in 0..Len(G.data)
  <2>1. got \in [len : Nat, data : Seq(Byte)] /\ req.len \in Nat /\ G.data \in Seq(Byte)
    BY <1>1, <1>3, RequestAssumption DEF AccessInv, TypeOK, Gateway
  <2> QED
    BY <2>1 DEF Least
<1> HIDE DEF k
<1>6. SubSeq(G.data, 1, k) \in Seq(Byte) /\ IsPrefix(SubSeq(G.data, 1, k), G.data)
  BY <1>5, PrefixTaken
<1>7. got' \in [len : Nat, data : Seq(Byte)] /\ IsPrefix(got'.data, store[req.par])
  <2>1. got \in [len : Nat, data : Seq(Byte)]
    BY DEF AccessInv, TypeOK
  <2>2. got' \in [len : Nat, data : Seq(Byte)] /\ got'.data = SubSeq(G.data, 1, k)
    BY <1>1, <1>6, <2>1
  <2> QED
    BY <1>4, <1>6, <2>2
<1> QED
  BY <1>1, <1>2, <1>3, <1>4, <1>7, GoesOn

(* An object is read or written by one SDO.                                *)
LEMMA ObjectDone ==
  ASSUME AccessInv, pc = 1, ~ByGateway, pc' = 2, got' \in [len : Nat, data : Seq(Byte)],
         DOMAIN store' = Params,
         \A p \in Params : store'[p] \in [1..Device[p].size -> Byte],
         \A p \in Params : p # req.par \/ req.kind = "read" => store'[p] = store[p],
         IF req.kind = "read" THEN got'.data = store'[req.par]
         ELSE store'[req.par] = Payload(req),
         UNCHANGED <<req, gw, cache, doubt, late, answer, served, faults>>
  PROVE  AccessInv'
<1>0. req.kind \in {"read", "write"} /\ req.par \in Params
  BY TargetFacts DEF AccessInv, TypeOK
<1>1. ~ByGateway'
  BY DEF ByGateway
<1>2. TypeOK'
  BY DEF AccessInv, TypeOK
<1>3. RegistersFit' /\ TransferFits'
  BY <1>1 DEF RegistersFit, TransferFits
<1>4. ResultFits'
  <2>1. Payload(req)' = Payload(req)
    BY DEF Payload, EncodedNumber, Padding, Numeric, Fits, Pack, Shifted
  <2> QED
    BY <1>1, <2>1 DEF ResultFits
<1>5. BusyFits' /\ RightsAreKept'
  BY DEF AccessInv, BusyFits, RightsAreKept, Target
<1>6. PendingIsDoubted'
  BY DEF AccessInv, PendingIsDoubted, Target, InTransfer
<1>7. CacheFits'
  <2> SUFFICES ASSUME NEW p \in Params, cache[p] # NoValue
               PROVE  /\ p \notin doubt /\ ~Touched(p)' => IsPrefix(cache[p].data, store'[p])
                      /\ Numeric(cache[p].type) =>
                           cache[p].value = Decoded(cache[p].data, cache[p].type)
    BY DEF CacheFits
  <2>1. ~Touched(p)' => store'[p] = store[p]
    BY <1>0, <1>1 DEF Touched
  <2>2. ~Touched(p)
    BY DEF Touched
  <2> QED
    BY <2>1, <2>2 DEF AccessInv, CacheFits
<1>8. AnswerFits'
  BY DEF AccessInv, AnswerFits
<1> QED
  BY <1>2, <1>3, <1>4, <1>5, <1>6, <1>7, <1>8 DEF AccessInv

(* A device that refuses an object leaves everything as it was.            *)
LEMMA ObjectRefused ==
  ASSUME AccessInv, pc = 1, ~ByGateway, Ends(FALSE), got' = got, store' = store,
         UNCHANGED <<gw, cache, late, served, faults>>
  PROVE  AccessInv'
<1>1. ~Touched(req.par)
  BY DEF Touched
<1>2. faults' \in 0..MaxFaults /\ pc > 0
  BY DEF AccessInv, TypeOK
<1>3. FALSE \in BOOLEAN /\ ~(ByGateway /\ pc > DirStep /\ G.job.dir = "write")
  OBVIOUS
<1> QED
  BY <1>1, <1>2, <1>3, EndsFits

LEMMA ReadsObjectStep ==
  ASSUME AccessInv, ReadsObject
  PROVE  AccessInv'
<1>1. At("get") /\ pc > 0 /\ UNCHANGED <<req, gw, store, cache, late, served, faults>>
  BY DEF ReadsObject, At
<1>2. ~ByGateway /\ req.kind = "read" /\ pc = 1
  BY <1>1, PlacesAre DEF Places, AccessInv
<1>3. req \in Requests /\ req.par \in Params /\ Device[req.par].size \in Nat /\ req.len \in Nat
  BY <1>1, TargetFacts, RequestAssumption DEF AccessInv, TypeOK
<1>4. CASE req.len >= Device[req.par].size
  <2>1. /\ pc' = 2 /\ got' = [len |-> req.len, data |-> store[req.par]]
        /\ UNCHANGED <<answer, doubt>>
    BY <1>2, <1>4 DEF ReadsObject
  <2>2. store[req.par] \in Seq(Byte)
    BY <1>3, StoredBytes DEF AccessInv, TypeOK
  <2>3. got' \in [len : Nat, data : Seq(Byte)] /\ got'.data = store[req.par]
    BY <1>3, <2>1, <2>2
  <2>4. DOMAIN store' = Params /\ \A p \in Params : store'[p] \in [1..Device[p].size -> Byte]
    BY <1>1 DEF AccessInv, TypeOK
  <2> QED
    BY <1>1, <1>2, <2>1, <2>3, <2>4, ObjectDone
<1>5. CASE ~(req.len >= Device[req.par].size)
  <2>1. Ends(FALSE) /\ got' = got
    BY <1>5 DEF ReadsObject
  <2> QED
    BY <1>1, <1>2, <2>1, ObjectRefused
<1> QED
  BY <1>4, <1>5

LEMMA WritesObjectStep ==
  ASSUME AccessInv, WritesObject
  PROVE  AccessInv'
<1>1. At("set") /\ pc > 0 /\ UNCHANGED <<req, got, gw, cache, late, served, faults>>
  BY DEF WritesObject, At
<1>2. ~ByGateway /\ req.kind = "write" /\ pc = 1
  BY <1>1, PlacesAre DEF Places, AccessInv
<1>3. req \in Requests /\ Valid(req) /\ req.par \in Params
  BY <1>1, TargetFacts DEF AccessInv, TypeOK
<1>4. CASE Len(Payload(req)) = Device[req.par].size
  <2>1. /\ pc' = 2 /\ store' = [store EXCEPT ![req.par] = Payload(req)]
        /\ UNCHANGED <<answer, doubt>>
    BY <1>2, <1>4 DEF WritesObject
  <2>2. Payload(req) \in [1..Device[req.par].size -> Byte]
    BY <1>2, <1>3, <1>4, PayloadIsBytes, BytesStored
  <2>3. DOMAIN store' = Params /\ \A p \in Params : store'[p] \in [1..Device[p].size -> Byte]
    BY <2>1, <2>2 DEF AccessInv, TypeOK
  <2>4. store'[req.par] = Payload(req) /\ \A p \in Params : p # req.par => store'[p] = store[p]
    BY <1>3, <2>1 DEF AccessInv, TypeOK
  <2>5. got' \in [len : Nat, data : Seq(Byte)]
    BY <1>1 DEF AccessInv, TypeOK
  <2> QED
    BY <1>1, <1>2, <2>1, <2>3, <2>4, <2>5, ObjectDone
<1>5. CASE ~(Len(Payload(req)) = Device[req.par].size)
  <2>1. Ends(FALSE) /\ store' = store
    BY <1>5 DEF WritesObject
  <2> QED
    BY <1>1, <1>2, <2>1, ObjectRefused
<1> QED
  BY <1>4, <1>5
-----------------------------------------------------------------------------
(* The handler answers with success                                        *)

(* At its end the handler has read what the device holds, or the device    *)
(* holds what the handler has written.                                     *)
LEMMA EndIsReal ==
  ASSUME AccessInv, AtEnd
  PROVE  /\ ByGateway => G.status = "ok" /\ G.job = NoJob
         /\ req.kind = "read" => IsPrefix(got.data, store[req.par])
         /\ req.kind = "write" /\ ~(ByGateway /\ late) => store[req.par] = Payload(req)
<1>1. pc > 0 /\ pc = IF ByGateway THEN 7 ELSE 2
  BY PlacesAre DEF AtEnd, Places, AccessInv
<1>2. req.kind \in {"read", "write"} /\ req.par \in Params /\ Device[req.par].size \in Nat
  BY <1>1, TargetFacts DEF AccessInv, TypeOK
<1>3. ByGateway => G.status = "ok"
  BY <1>1 DEF AccessInv, TransferFits, DirStep
<1>4. ByGateway => G.job = NoJob
  BY <1>3 DEF AccessInv, BusyFits, ByGateway, G
<1>5. req.kind = "read" => IsPrefix(got.data, store[req.par])
  <2>1. store[req.par] \in Seq(Byte)
    BY <1>2, StoredBytes DEF AccessInv, TypeOK
  <2>2. ~ByGateway /\ req.kind = "read" => got.data = store[req.par]
    BY <1>1 DEF AccessInv, ResultFits
  <2>3. ByGateway /\ req.kind = "read" => IsPrefix(got.data, store[req.par])
    BY <1>1 DEF AccessInv, ResultFits
  <2> QED
    BY <2>1, <2>2, <2>3, PrefixOfItself
<1>6. req.kind = "write" /\ ~(ByGateway /\ late) => store[req.par] = Payload(req)
  <2>1. ~ByGateway /\ req.kind = "write" => store[req.par] = Payload(req)
    BY <1>1 DEF AccessInv, ResultFits
  <2>2. ByGateway /\ req.kind = "write" /\ ~late => store[req.par] = Payload(req)
    BY <1>1, <1>3 DEF AccessInv, TransferFits, DirStep
  <2> QED
    BY <2>1, <2>2
<1> QED
  BY <1>3, <1>4, <1>5, <1>6

LEMMA SucceedsStep ==
  ASSUME AccessInv, Succeeds
  PROVE  AccessInv'
<1> DEFINE v == IF req.kind = "read" THEN Decoded(Data, req.type) ELSE req.value
           c == [type |-> req.type, data |-> Data, value |-> v]
<1>1. /\ AtEnd /\ Cached(Data, v) /\ pc' = 0
      /\ answer' = [ok |-> TRUE, par |-> req.par, kind |-> req.kind, data |-> Data]
      /\ doubt' = IF late /\ req.kind = "write" THEN doubt \cup {req.par}
                  ELSE doubt \ {req.par}
      /\ UNCHANGED <<req, got, gw, store, late, served, faults>>
  BY DEF Succeeds
<1>2. pc > 0
  BY <1>1 DEF AtEnd
<1>3. req \in Requests /\ Valid(req) /\ req.par \in Params /\ req.kind \in {"read", "write"}
      /\ Device[req.par].size \in Nat
  BY <1>2, TargetFacts DEF AccessInv, TypeOK
<1>4. /\ ByGateway => G.job = NoJob
      /\ req.kind = "read" => IsPrefix(Data, store[req.par])
      /\ req.kind = "write" /\ ~late => store[req.par] = Data
  BY <1>1, EndIsReal DEF Data
<1>5. /\ cache'[req.par] = c
      /\ \A p \in Params : p # req.par => cache'[p] = cache[p]
  <2>1. \A p \in Params : SameKey(p, req.par) <=> p = req.par
    BY <1>3, OneTarget DEF SameKey
  <2>2. cache' = [p \in Params |-> IF SameKey(p, req.par) THEN c ELSE cache[p]]
    BY <1>1 DEF Cached
  <2> HIDE DEF c
  <2> QED
    BY <1>3, <2>1, <2>2
<1>6. TypeOK'
  <2>1. answer'.ok \in BOOLEAN
    BY <1>1
  <2>2. doubt' \subseteq Params
    BY <1>1, <1>3 DEF AccessInv, TypeOK
  <2> QED
    BY <1>1, <2>1, <2>2 DEF AccessInv, TypeOK
<1>7. RegistersFit' /\ TransferFits' /\ ResultFits'
  BY <1>1 DEF RegistersFit, TransferFits, ResultFits
<1>8. BusyFits' /\ RightsAreKept'
  BY <1>1 DEF AccessInv, BusyFits, RightsAreKept, Target
<1>9. PendingIsDoubted'
  <2> SUFFICES ASSUME NEW g \in Gateways, gw[g].job.dir = "write", NEW p \in Target(g)
               PROVE  p \in doubt'
    BY <1>1 DEF PendingIsDoubted, Target
  <2>1. p # req.par
    BY <1>4, NoJobIsNone DEF Target, G, ByGateway
  <2>2. p \in doubt
    BY <2>1 DEF AccessInv, PendingIsDoubted, InTransfer
  <2> QED
    BY <1>1, <2>1, <2>2
<1>10. CacheFits'
  <2> SUFFICES ASSUME NEW p \in Params, cache'[p] # NoValue
               PROVE  /\ p \notin doubt' => IsPrefix(cache'[p].data, store[p])
                      /\ Numeric(cache'[p].type) =>
                           cache'[p].value = Decoded(cache'[p].data, cache'[p].type)
    BY <1>1 DEF CacheFits
  <2>1. CASE p = req.par
    <3>1. c.data = Data /\ c.type = req.type /\ c.value = v
      OBVIOUS
    <3>2. store[req.par] \in Seq(Byte)
      BY <1>3, StoredBytes DEF AccessInv, TypeOK
    <3>3. p \notin doubt' => IsPrefix(Data, store[p])
      BY <1>1, <1>3, <1>4, <2>1, <3>2, PrefixOfItself
    <3>4. Numeric(req.type) => v = Decoded(Data, req.type)
      BY <1>3, PayloadIsBytes DEF Data
    <3> HIDE DEF c
    <3> QED
      BY <1>5, <2>1, <3>1, <3>3, <3>4
  <2>2. CASE p # req.par
    <3>1. cache'[p] = cache[p] /\ ~Touched(p) /\ (p \notin doubt' => p \notin doubt)
      BY <1>1, <1>5, <2>2 DEF Touched
    <3> QED
      BY <3>1 DEF AccessInv, CacheFits
  <2> QED
    BY <2>1, <2>2
<1>11. AnswerFits'
  <2>1. /\ answer'.ok = TRUE /\ answer'.par = req.par /\ answer'.kind = req.kind
        /\ answer'.data = Data
    BY <1>1
  <2>2. AnswerIsReal'
    BY <1>1, <1>3, <1>4, <2>1 DEF AnswerIsReal
  <2> QED
    BY <1>1, <1>3, <1>4, <2>1, <2>2 DEF AnswerFits, ByGateway, G
<1> QED
  BY <1>6, <1>7, <1>8, <1>9, <1>10, <1>11 DEF AccessInv
-----------------------------------------------------------------------------
(* The gateway carries out its transfer                                    *)

(* The transfer of gateway g is over: only g and the parameter it writes   *)
(* have changed.                                                           *)
IsCarriedOut(g) ==
  /\ gw[g].job # NoJob
  /\ gw' \in [Gateways -> Gateway]
  /\ \A k \in Gateways : k # g => gw'[k] = gw[k]
  /\ gw'[g].job = NoJob /\ gw'[g].head = gw[g].head /\ gw'[g].status \in {"ok", "error"}
  /\ DOMAIN store' = Params
  /\ \A p \in Params : store'[p] \in [1..Device[p].size -> Byte]
  /\ \A p \in Params : store'[p] # store[p] =>
       p \in Target(g) /\ gw[g].job.dir = "write" /\ gw'[g].status = "ok"
  /\ gw'[g].status = "ok" => \E p \in Target(g) :
       \/ gw[g].job.dir = "read" /\ gw'[g].data = store[p] /\ store' = store
       \/ gw[g].job.dir = "write" /\ store'[p] = gw[g].job.data

(* The registers of a gateway that has answered                            *)
Answered(g, status, data) ==
  /\ gw' \in [Gateways -> Gateway]
  /\ \A k \in Gateways : k # g => gw'[k] = gw[k]
  /\ gw'[g].job = NoJob /\ gw'[g].head = gw[g].head
  /\ gw'[g].status = status /\ gw'[g].data = data

LEMMA AnswersFits ==
  ASSUME TypeOK, NEW g \in Gateways, NEW status \in {"ok", "error"},
         NEW data \in Seq(Byte), Answers(g, status, data)
  PROVE  Answered(g, status, data)
<1> DEFINE h == [gw[g] EXCEPT !.status = status, !.len = Len(data), !.data = data,
                              !.job = NoJob]
<1>1. gw \in [Gateways -> Gateway] /\ gw[g] \in Gateway
  BY DEF TypeOK
<1>2. gw' = [gw EXCEPT ![g] = h]
  BY <1>1 DEF Answers
<1>3. /\ h \in Gateway /\ h.job = NoJob /\ h.head = gw[g].head /\ h.status = status
      /\ h.data = data
  <2>1. Len(data) \in Nat /\ NoJob \in Job \cup {NoJob}
        /\ status \in {"ok", "busy", "error"}
    OBVIOUS
  <2> DEFINE J == Job \cup {NoJob}
             n == Len(data)
  <2>2. gw[g] \in [head : [1..2 -> Nat], len : Nat, data : Seq(Byte),
                   dir : {"read", "write"}, status : {"ok", "busy", "error"}, job : J]
    BY <1>1 DEF Gateway
  <2>3. n \in Nat /\ NoJob \in J
    BY <2>1
  <2> HIDE DEF J, n
  <2>4. h = [gw[g] EXCEPT !.status = status, !.len = n, !.data = data, !.job = NoJob]
    BY DEF n
  <2> HIDE DEF h
  <2>5. h \in [head : [1..2 -> Nat], len : Nat, data : Seq(Byte),
               dir : {"read", "write"}, status : {"ok", "busy", "error"}, job : J]
    BY <2>1, <2>2, <2>3, <2>4
  <2> QED
    BY <2>2, <2>4, <2>5 DEF Gateway, J
<1> HIDE DEF h
<1> QED
  BY <1>1, <1>2, <1>3 DEF Answered

LEMMA CarriedOut ==
  ASSUME TypeOK, NEW g \in Gateways, CarriesOut(g)
  PROVE  IsCarriedOut(g)
<1> DEFINE job == gw[g].job
<1>1. /\ DOMAIN store = Params
      /\ \A p \in Params : store[p] \in [1..Device[p].size -> Byte]
  BY DEF TypeOK, CarriesOut
<1>2. CASE Answers(g, "error", <<>>) /\ store' = store
  <2>1. Answered(g, "error", <<>>)
    BY <1>2, AnswersFits, ByteFacts
  <2> QED
    BY <1>1, <1>2, <2>1 DEF IsCarriedOut, Answered, CarriesOut
<1>3. ASSUME NEW p \in Target(g), job.dir = "read", Answers(g, "ok", store[p]), store' = store
      PROVE  IsCarriedOut(g)
  <2>1. p \in Params /\ Device[p].size \in Nat
    BY AccessAssumption DEF Target
  <2>2. store[p] \in Seq(Byte)
    BY <1>1, <2>1, StoredBytes
  <2>3. Answered(g, "ok", store[p])
    BY <1>3, <2>2, AnswersFits
  <2> QED
    BY <1>1, <1>3, <2>3 DEF IsCarriedOut, Answered, CarriesOut
<1>4. ASSUME NEW p \in Target(g), job.dir = "write", Len(job.data) = Device[p].size,
             Answers(g, "ok", <<>>), store' = [store EXCEPT ![p] = job.data]
      PROVE  IsCarriedOut(g)
  <2>1. p \in Params
    BY DEF Target
  <2>2. Answered(g, "ok", <<>>)
    BY <1>4, AnswersFits, ByteFacts
  <2>3. job.data \in [1..Device[p].size -> Byte]
    <3>1. job \in Job
      BY <1>4, NoJobIsNone DEF TypeOK, Gateway
    <3>2. job.data \in Seq(Byte)
      BY <3>1 DEF Job
    <3> QED
      BY <1>4, <3>2, BytesStored
  <2>4. /\ DOMAIN store' = Params /\ store'[p] = job.data
        /\ \A q \in Params : q # p => store'[q] = store[q]
    BY <1>1, <1>4, <2>1
  <2>5. \A q \in Params : store'[q] \in [1..Device[q].size -> Byte]
    BY <1>1, <2>3, <2>4
  <2> QED
    BY <1>4, <2>2, <2>4, <2>5 DEF IsCarriedOut, Answered, CarriesOut
<1> QED
  BY <1>2, <1>3, <1>4 DEF CarriesOut

LEMMA CarriesOutStep ==
  ASSUME AccessInv, NEW g \in Gateways, CarriesOut(g)
  PROVE  AccessInv'
<1>1. UNCHANGED <<pc, req, got, cache, doubt, late, answer, served, faults>>
  BY DEF CarriesOut
<1>2. IsCarriedOut(g)
  BY CarriedOut DEF AccessInv
<1>3. /\ gw[g].job # NoJob /\ gw[g].status = "busy"
      /\ gw'[g].job = NoJob /\ gw'[g].head = gw[g].head /\ gw'[g].status \in {"ok", "error"}
      /\ \A k \in Gateways : k # g => gw'[k] = gw[k]
  BY <1>2 DEF IsCarriedOut, AccessInv, BusyFits
<1>4. /\ DOMAIN store' = Params
      /\ \A p \in Params : store'[p] # store[p] =>
           Device[p].gw = g /\ gw[g].job.dir = "write" /\ gw'[g].status = "ok"
                /\ p \in Target(g)
  BY <1>2 DEF IsCarriedOut, Target
<1>5. pc > 0 => req \in Requests /\ Valid(req) /\ req.par \in Params
                /\ req.kind \in {"read", "write"}
  BY TargetFacts DEF AccessInv, TypeOK
<1>6. /\ ByGateway' = ByGateway /\ DirStep' = DirStep /\ Address' = Address
      /\ Payload(req)' = Payload(req)
  BY <1>1 DEF ByGateway, DirStep, Address,
              Payload, EncodedNumber, Padding, Numeric, Fits, Pack, Shifted
<1>7. ByGateway /\ Device[req.par].gw # g => G' = G
  BY <1>1, <1>3 DEF ByGateway, G
<1>8. Device[req.par].gw = g => G = gw[g] /\ G' = gw'[g]
  BY <1>1 DEF G
<1>9. TypeOK'
  BY <1>1, <1>2 DEF AccessInv, TypeOK, IsCarriedOut
<1>10. BusyFits'
  BY <1>3 DEF AccessInv, BusyFits
<1>11. RightsAreKept'
  <2>1. gw'["iol"].job # NoJob => gw'["iol"] = gw["iol"]
    BY <1>3 DEF Gateways
  <2> QED
    BY <2>1 DEF AccessInv, RightsAreKept, Target
<1>12. PendingIsDoubted'
  <2> SUFFICES ASSUME NEW k \in Gateways, gw'[k].job.dir = "write", NEW p \in Params,
                      Device[p].gw = k, Device[p].head = gw'[k].job.head
               PROVE  p \in doubt \/ InTransfer(p)'
    BY <1>1 DEF PendingIsDoubted, Target
  <2>1. k # g /\ gw'[k] = gw[k]
    BY <1>3, NoJobIsNone
  <2>2. InTransfer(p)' <=> InTransfer(p)
    BY <1>1, <1>6 DEF InTransfer
  <2> QED
    BY <2>1, <2>2 DEF AccessInv, PendingIsDoubted, Target
<1>13. RegistersFit'
  <2> SUFFICES ASSUME pc > 0, ByGateway
               PROVE  RegistersFit'
    BY <1>1, <1>6 DEF RegistersFit
  <2>1. CASE Device[req.par].gw # g
    BY <1>1, <1>6, <1>7, <2>1 DEF AccessInv, RegistersFit
  <2>2. CASE Device[req.par].gw = g
    <3>1. late \/ ~(pc <= DirStep)
      BY <1>3, <1>8, <2>2 DEF AccessInv, RegistersFit
    <3>2. DirStep = IF req.kind = "read" THEN 3 ELSE 5
      BY DEF DirStep
    <3>3. ~late => ~(pc <= DirStep) /\ ~(req.kind = "write" /\ pc \in {4, 5})
      BY <3>1, <3>2
    <3>4. G'.head = G.head
      BY <1>3, <1>8, <2>2
    <3> QED
      BY <1>1, <1>6, <3>3, <3>4 DEF AccessInv, RegistersFit
  <2> QED
    BY <2>1, <2>2
<1>14. TransferFits'
  <2> SUFFICES ASSUME pc > 0, ByGateway, pc > DirStep
               PROVE  TransferFits'
    BY <1>1, <1>6 DEF TransferFits
  <2>1. CASE Device[req.par].gw # g
    <3>1. store'[req.par] = store[req.par]
      BY <1>4, <1>5, <2>1
    <3> QED
      BY <1>1, <1>6, <1>7, <2>1, <3>1 DEF AccessInv, TransferFits
  <2>2. CASE Device[req.par].gw = g
    <3>1. /\ G.job.dir = req.kind /\ G.job.head = Address
          /\ req.kind = "write" /\ ~late => G.job.data = Payload(req)
          /\ ~(pc > DirStep + 1)
      BY <1>3, <1>8, <2>2 DEF AccessInv, TransferFits
    <3>2. \A p \in Target(g) : p = req.par
      BY <1>5, <1>8, <2>2, <3>1, OneTarget DEF Target, Address
    <3>3. G'.status = "ok" =>
            \/ G.job.dir = "read" /\ G'.data = store[req.par] /\ store' = store
            \/ G.job.dir = "write" /\ store'[req.par] = G.job.data
      BY <1>2, <1>8, <2>2, <3>2 DEF IsCarriedOut
    <3>4. G'.job = NoJob
      BY <1>3, <1>8, <2>2
    <3> QED
      BY <1>1, <1>5, <1>6, <3>1, <3>3, <3>4 DEF TransferFits
  <2> QED
    BY <2>1, <2>2
<1>15. ResultFits'
  <2>1. pc > 0 => pc <= IF ByGateway THEN 7 ELSE 2
    BY DEF AccessInv, ResultFits
  <2>2. pc = 7 /\ req.kind = "read" => store'[req.par] = store[req.par]
    <3> SUFFICES ASSUME pc = 7, req.kind = "read"
                 PROVE  store'[req.par] = store[req.par]
      OBVIOUS
    <3>1. ByGateway /\ DirStep = 3
      BY <2>1 DEF DirStep
    <3>2. G.status = "ok"
      BY <3>1 DEF AccessInv, TransferFits
    <3>3. Device[req.par].gw # g
      BY <1>3, <1>8, <3>2
    <3> QED
      BY <1>4, <1>5, <3>3
  <2>3. pc = 2 /\ ~ByGateway => store'[req.par] = store[req.par]
    BY <1>4, <1>5 DEF ByGateway
  <2> QED
    BY <1>1, <1>6, <2>1, <2>2, <2>3 DEF AccessInv, ResultFits
<1>16. CacheFits'
  <2> SUFFICES ASSUME NEW p \in Params, cache[p] # NoValue
               PROVE  /\ p \notin doubt /\ ~Touched(p)' => IsPrefix(cache[p].data, store'[p])
                      /\ Numeric(cache[p].type) =>
                           cache[p].value = Decoded(cache[p].data, cache[p].type)
    BY <1>1 DEF CacheFits
  <2>1. p \notin doubt /\ ~Touched(p)' => store'[p] = store[p]
    <3> SUFFICES ASSUME p \notin doubt, store'[p] # store[p]
                 PROVE  Touched(p)'
      OBVIOUS
    <3>1. p \in Target(g) /\ gw[g].job.dir = "write" /\ gw'[g].status = "ok" /\ Device[p].gw = g
      BY <1>4
    <3>2. InTransfer(p)
      BY <3>1 DEF AccessInv, PendingIsDoubted
    <3>3. pc > 0 /\ p = req.par /\ ByGateway /\ pc > DirStep
      BY <3>2 DEF InTransfer
    <3>4. G = gw[g] /\ G' = gw'[g]
      BY <1>8, <3>1, <3>3
    <3>5. req.kind = "write"
      BY <1>3, <3>1, <3>3, <3>4 DEF AccessInv, TransferFits
    <3> QED
      BY <1>1, <1>6, <3>1, <3>3, <3>4, <3>5 DEF Touched
  <2>2. Touched(p) => Touched(p)'
    <3> SUFFICES ASSUME Touched(p)
                 PROVE  Touched(p)'
      OBVIOUS
    <3>1. ByGateway => G.status = "ok"
      BY DEF Touched
    <3>2. ByGateway => G' = G
      BY <1>3, <1>7, <1>8, <3>1
    <3> QED
      BY <1>1, <1>6, <3>2 DEF Touched
  <2> QED
    BY <2>1, <2>2 DEF AccessInv, CacheFits
<1>17. AnswerFits'
  <2> SUFFICES ASSUME answer.ok
               PROVE  AnswerFits'
    BY <1>1 DEF AnswerFits
  <2>1. /\ pc = 0 /\ answer.par \in Params /\ AnswerIsReal
        /\ Device[answer.par].gw \in Gateways => gw[Device[answer.par].gw].job = NoJob
    BY DEF AccessInv, AnswerFits
  <2>2. Device[answer.par].gw # g
    BY <1>3, <2>1
  <2>3. store'[answer.par] = store[answer.par]
    BY <1>4, <2>1, <2>2
  <2>4. AnswerIsReal'
    BY <1>1, <2>1, <2>3 DEF AnswerIsReal
  <2> QED
    BY <1>1, <1>3, <2>1, <2>2, <2>4 DEF AnswerFits
<1> QED
  BY <1>9, <1>10, <1>11, <1>12, <1>13, <1>14, <1>15, <1>16, <1>17 DEF AccessInv
-----------------------------------------------------------------------------
(* The theorems                                                            *)

LEMMA AccessInit == Init => AccessInv
<1> SUFFICES ASSUME Init
             PROVE  AccessInv
  OBVIOUS
<1> DEFINE h == [head |-> <<0, 0>>, len |-> 0, data |-> <<>>, dir |-> "read",
                 status |-> "ok", job |-> NoJob]
<1>1. h \in Gateway /\ h.job = NoJob /\ h.status = "ok"
  <2>1. <<0, 0>> \in [1..2 -> Nat] /\ <<>> \in Seq(Byte)
    BY ByteFacts
  <2> QED
    BY <2>1 DEF Gateway
<1>2. gw = [g \in Gateways |-> h]
  BY DEF Init
<1> HIDE DEF h
<1>3. /\ gw \in [Gateways -> Gateway]
      /\ \A g \in Gateways : gw[g].job = NoJob /\ gw[g].status = "ok"
  BY <1>1, <1>2
<1>4. TypeOK
  <2>1. got \in [len : Nat, data : Seq(Byte)]
    BY ByteFacts DEF Init, Nothing
  <2>2. DOMAIN store = Params /\ \A p \in Params : store[p] \in [1..Device[p].size -> Byte]
    BY ByteFacts DEF Init
  <2>3. answer.ok \in BOOLEAN
    BY NoAnswerIsNone DEF Init
  <2>4. pc \in 0..7 /\ ~(pc > 0) /\ served \in 0..MaxRequests /\ faults \in 0..MaxFaults
    BY AccessAssumption DEF Init
  <2>5. late \in BOOLEAN /\ doubt \subseteq Params
    BY Zenon DEF Init
  <2> QED
    BY <1>3, <2>1, <2>2, <2>3, <2>4, <2>5 DEF TypeOK
<1>5. RegistersFit /\ TransferFits /\ ResultFits
  BY DEF Init, RegistersFit, TransferFits, ResultFits
<1>6. BusyFits /\ PendingIsDoubted /\ RightsAreKept
  BY <1>3, NoJobIsNone DEF BusyFits, PendingIsDoubted, RightsAreKept, Gateways
<1>7. CacheFits
  BY DEF Init, CacheFits
<1>8. AnswerFits
  BY NoAnswerIsNone DEF Init, AnswerFits
<1> QED
  BY <1>4, <1>5, <1>6, <1>7, <1>8 DEF AccessInv

LEMMA AccessStep == AccessInv /\ [Next]_vars => AccessInv'
<1> SUFFICES ASSUME AccessInv, [Next]_vars
             PROVE  AccessInv'
  OBVIOUS
<1>1. CASE UNCHANGED vars
  <2>1. UNCHANGED <<pc, req, got, gw, store, cache, doubt, late, answer, served, faults>>
    BY <1>1 DEF vars
  <2>2. /\ ByGateway' = ByGateway /\ DirStep' = DirStep /\ Address' = Address /\ G' = G
        /\ Payload(req)' = Payload(req)
    BY <2>1 DEF ByGateway, DirStep, Address, G,
                Payload, EncodedNumber, Padding, Numeric, Fits, Pack, Shifted
  <2>3. TypeOK' /\ BusyFits' /\ RightsAreKept' /\ AnswerFits'
    BY <2>1 DEF AccessInv, TypeOK, BusyFits, RightsAreKept, Target, AnswerFits, AnswerIsReal
  <2>4. RegistersFit' /\ TransferFits' /\ ResultFits'
    BY <2>1, <2>2 DEF AccessInv, RegistersFit, TransferFits, ResultFits
  <2>5. PendingIsDoubted' /\ CacheFits'
    BY <2>1, <2>2 DEF AccessInv, PendingIsDoubted, CacheFits, Target, InTransfer, Touched
  <2> QED
    BY <2>3, <2>4, <2>5 DEF AccessInv
<1>2. ASSUME NEW r \in Requests, Accepts(r) \/ Refuses(r)
      PROVE  AccessInv'
  BY <1>2, AcceptsStep, RefusesStep
<1>3. ASSUME NEW r \in Requests, Valid(r), Device[r.par].gw \in Gateways,
             NEW s \in RawSteps(r), RawWrite(Device[r.par].gw, s, r)
      PROVE  AccessInv'
  BY <1>3, RawWriteStep
<1>4. CASE Handler
  <2>1. CASE WritesRegister
    BY <2>1, WritesRegisterStep
  <2>2. CASE Polled \/ Rejected \/ TimesOut \/ FailsAfterwards
    BY <2>2, PolledStep, RejectedStep, TimesOutStep
  <2>3. CASE ReadsLength \/ ReadsData
    BY <2>3, ReadsLengthStep, ReadsDataStep
  <2>4. CASE ReadsObject \/ WritesObject
    BY <2>4, ReadsObjectStep, WritesObjectStep
  <2>5. CASE Succeeds
    BY <2>5, SucceedsStep
  <2> QED
    BY <1>4, <2>1, <2>2, <2>3, <2>4, <2>5 DEF Handler
<1>5. ASSUME NEW done \in BOOLEAN, SdoFails(done)
      PROVE  AccessInv'
  BY <1>5, SdoFailsStep
<1>6. ASSUME NEW g \in Gateways, CarriesOut(g)
      PROVE  AccessInv'
  BY <1>6, CarriesOutStep
<1> QED
  BY <1>1, <1>2, <1>3, <1>4, <1>5, <1>6 DEF Next

(* The inductive invariant holds in every reachable state: the registers   *)
(* and the transfer fit the step of the handler, however its SDOs fail and *)
(* whenever the gateway answers (handlers/parameter_access).               *)
THEOREM AccessInvariant == Spec => []AccessInv
BY AccessInit, AccessStep, PTL DEF Spec

(* Transfers are the ones the requests ask for, byte for byte, and none is *)
(* started that the device does not allow (_write_ap_parameter,            *)
(* _write_iol_parameter and the raw writes of param_write).                *)
THEOREM TheTransferIsAsked == Spec => []TransferIsAsked
<1>1. AccessInv => TransferIsAsked
  <2> SUFFICES ASSUME AccessInv
               PROVE  JobIsAsked
    BY DEF TransferIsAsked, AccessInv
  <2> SUFFICES ASSUME At("poll"), ~(late /\ req.kind = "write"),
                      gw[Device[req.par].gw].job # NoJob
               PROVE  gw[Device[req.par].gw].job =
                        [dir |-> req.kind, head |-> Device[req.par].head,
                         data |-> IF req.kind = "read" THEN <<>> ELSE Payload(req)]
    BY DEF JobIsAsked
  <2>1. pc > 0
    BY DEF At
  <2>2. ByGateway /\ pc = DirStep + 1
    BY <2>1, PlacesAre DEF Places, AccessInv
  <2>3. pc > DirStep /\ req.kind \in {"read", "write"}
    BY <2>1, <2>2, TargetFacts DEF DirStep, AccessInv, TypeOK
  <2>4. /\ G.job.dir = req.kind /\ G.job.head = Address
        /\ G.job.data = IF req.kind = "read" THEN <<>> ELSE Payload(req)
    BY <2>1, <2>2, <2>3 DEF AccessInv, TransferFits, G
  <2>5. G.job \in Job
    BY <2>2 DEF AccessInv, TypeOK, Gateway, ByGateway, G
  <2>6. G.job = [dir |-> G.job.dir, head |-> G.job.head, data |-> G.job.data]
    BY <2>5 DEF Job
  <2> QED
    BY <2>4, <2>6 DEF G, Address
<1> QED
  BY <1>1, AccessInvariant, PTL

(* An answer with success is true and stays true until the next request,   *)
(* also when an earlier transfer timed out (_read_ap_parameter,            *)
(* _write_ap_parameter, _read_iol_parameter, _write_iol_parameter).        *)
THEOREM TheAnswerIsReal == Spec => []AnswerIsReal
<1>1. AccessInv => AnswerIsReal
  BY DEF AccessInv, AnswerFits, AnswerIsReal
<1> QED
  BY <1>1, AccessInvariant, PTL

(* Between requests the cache tells what the device holds, unless an       *)
(* access to the parameter ended in doubt (RuntimeParameterCache).         *)
THEOREM TheCacheIsHonest == Spec => []CacheIsHonest
<1>1. AccessInv => CacheIsHonest
  BY DEF AccessInv, CacheFits, CacheIsHonest, Touched
<1> QED
  BY <1>1, AccessInvariant, PTL
=============================================================================
