----------------------- MODULE DriveParameters_proofs -----------------------
(***************************************************************************)
(* Proofs about DriveParameters for any number of axes, any values and any *)
(* failures of SDOs: the cache tells the truth, success is real, the       *)
(* copies agree and nobody's parameters change unasked.  ParameterInv is   *)
(* the inductive invariant.                                                *)
(***************************************************************************)
EXTENDS DriveParameters, FiniteSetTheorems, TLAPS

\* The drives have exponents that exist.
UnitsFit == \A a \in Axes : od[a].param.exp \in Exps /\ saved[a].exp \in Exps

\* Before the start nothing is invalid and the modes are those of the RxPDO.
FreshServer ==
  phase = "start" => invalid = {} /\ \A a \in Axes : rx[a].mode = modes[a]

\* A success that is still spoken of belongs to the running bus.
AnswerIsCurrent == answer.ok => phase = "run"

ParameterInv ==
  /\ ServerAgrees /\ UnitsFit /\ FreshServer /\ AnswerIsCurrent
  /\ CacheTellsTheTruth /\ SuccessIsReal
-----------------------------------------------------------------------------
(* Fields and groups                                                       *)

LEMMA GroupFields ==
  /\ FieldsOf("units") = {"exp"} /\ FieldsOf("limits") = {"low", "high"}
  /\ FieldsOf("vel") = {"vel"} /\ FieldsOf("acc") = {"acc"}
  /\ FieldsOf("motion") = {"pos", "neg"}
BY DEF FieldsOf, LimitObjects, MotionObjects

LEMMA FieldGroups ==
  /\ GroupOf("exp") = "units" /\ GroupOf("low") = "limits" /\ GroupOf("high") = "limits"
  /\ GroupOf("vel") = "vel" /\ GroupOf("acc") = "acc"
  /\ GroupOf("pos") = "motion" /\ GroupOf("neg") = "motion"
<1>1. ASSUME NEW f, NEW g \in Groups, f \in FieldsOf(g),
             \A h \in Groups : f \in FieldsOf(h) => h = g
      PROVE  GroupOf(f) = g
  BY <1>1 DEF GroupOf
<1>2. Groups = {"units", "limits", "vel", "acc", "motion"} BY DEF Groups
<1>3. GroupOf("exp") = "units" BY <1>1, <1>2, GroupFields
<1>4. GroupOf("low") = "limits" /\ GroupOf("high") = "limits" BY <1>1, <1>2, GroupFields
<1>5. GroupOf("vel") = "vel" BY <1>1, <1>2, GroupFields
<1>6. GroupOf("acc") = "acc" BY <1>1, <1>2, GroupFields
<1>7. GroupOf("pos") = "motion" /\ GroupOf("neg") = "motion" BY <1>1, <1>2, GroupFields
<1> QED BY <1>3, <1>4, <1>5, <1>6, <1>7

\* What is true of the groups of a set of fields, field by field.
LEMMA GroupByField ==
  ASSUME NEW D, NEW P
  PROVE  (\A g \in Groups \ D : \A f \in FieldsOf(g) : f \in P)
           <=> \A f \in Fields : GroupOf(f) \in D \/ f \in P
BY GroupFields, FieldGroups DEF Groups, Fields

FieldTrue(a, f) == GroupOf(f) \in doubt[a] \/ cache[a][f] = Effective(a, f)

AllTrue == phase = "run" => \A a \in Axes : \A f \in Fields : FieldTrue(a, f)

LEMMA TruthByField == CacheTellsTheTruth <=> AllTrue
<1>1. ASSUME NEW a \in Axes
      PROVE  (\A g \in Groups \ doubt[a] : \A f \in FieldsOf(g) : cache[a][f] = Effective(a, f))
               <=> \A f \in Fields : FieldTrue(a, f)
  <2> DEFINE P == {f \in Fields : cache[a][f] = Effective(a, f)}
  <2>1. \A g \in Groups : FieldsOf(g) \subseteq Fields
    BY GroupFields DEF Groups, Fields
  <2>2. (\A g \in Groups \ doubt[a] : \A f \in FieldsOf(g) : f \in P)
          <=> \A f \in Fields : GroupOf(f) \in doubt[a] \/ f \in P
    BY GroupByField
  <2> QED BY <2>1, <2>2 DEF FieldTrue
<1> QED BY <1>1 DEF CacheTellsTheTruth, AllTrue

LEMMA TruthByFieldPrime == CacheTellsTheTruth' <=> AllTrue'
BY TruthByField, PTL
-----------------------------------------------------------------------------
(* Values and writes                                                       *)

Params == [Fields -> Nat]

LEMMA ToDriveType ==
  ASSUME NEW v \in Nat, NEW e \in Exps
  PROVE  ToDrive(v, e) \in Nat
<1>1. CASE e = 1 BY <1>1 DEF ToDrive, Scale
<1>2. CASE e = 2 BY <1>2 DEF ToDrive, Scale
<1> QED BY <1>1, <1>2 DEF Exps

LEMMA RequestFields ==
  ASSUME NEW fields, NEW api \in Requests(fields)
  PROVE  /\ DOMAIN api \subseteq fields
         /\ \A f \in DOMAIN api : api[f] \in Nat
<1>1. PICK s \in SUBSET fields : api \in [s -> Values] BY DEF Requests
<1> QED BY <1>1, ParametersAssumption

LEMMA DriveValueType ==
  ASSUME TypeOK, NEW a \in Axes, NEW fields, NEW api \in Requests(fields),
         NEW f \in Fields, NEW loses
  PROVE  /\ DriveValue(a, api, f, loses) \in Nat
         /\ f \in DOMAIN api => DriveValue(a, api, f, loses) = ToDrive(api[f], conv[a])
         /\ f \notin DOMAIN api =>
              \/ DriveValue(a, api, f, loses) = cache[a][f]
              \/ f \in loses /\ DriveValue(a, api, f, loses) = cache[a][f] - 1
<1>1. cache[a][f] \in Nat /\ conv[a] \in Exps BY DEF TypeOK, Parameters, Number
<1>2. CASE f \in DOMAIN api
  <2>1. api[f] \in Nat BY <1>2, RequestFields
  <2>2. DriveValue(a, api, f, loses) = ToDrive(api[f], conv[a]) BY <1>2 DEF DriveValue
  <2> QED BY <1>1, <1>2, <2>1, <2>2, ToDriveType
<1>3. CASE f \notin DOMAIN api BY <1>1, <1>3 DEF DriveValue
<1> QED BY <1>2, <1>3

\* Two writes of different fields, of which the first k take effect.
LEMMA TwoWrites ==
  ASSUME NEW p \in Params, NEW x \in Fields, NEW y \in Fields, x # y,
         NEW v \in Nat, NEW w \in Nat, NEW k \in 0..2
  PROVE  LET q == Written(p, << <<x, v>>, <<y, w>> >>, k)
         IN /\ q \in Params
            /\ \A f \in Fields : f \notin {x, y} => q[f] = p[f]
            /\ k = 2 => q[x] = v /\ q[y] = w
<1> DEFINE W == << <<x, v>>, <<y, w>> >>
           q == Written(p, W, k)
<1>1. W[1][1] = x /\ W[1][2] = v /\ W[2][1] = y /\ W[2][2] = w OBVIOUS
<1> HIDE DEF W
<1>2. ASSUME NEW f \in Fields
      PROVE  /\ f \notin {x, y} => q[f] = p[f]
             /\ q[f] \in {p[f], v, w}
             /\ k = 2 /\ f = x => q[f] = v
             /\ k = 2 /\ f = y => q[f] = w
  <2>1. q[f] = IF \E i \in 1..k : W[i][1] = f
               THEN W[CHOOSE i \in 1..k : W[i][1] = f][2] ELSE p[f]
    BY DEF Written
  <2>2. 1..k \subseteq {1, 2} /\ (k = 2 => 1..k = {1, 2}) OBVIOUS
  <2> DEFINE j == CHOOSE i \in 1..k : W[i][1] = f
  <2>3. CASE \E i \in 1..k : W[i][1] = f
    <3>1. j \in 1..k /\ W[j][1] = f BY <2>3
    <3>2. q[f] = W[j][2] BY <2>1, <2>3
    <3> HIDE DEF j
    <3>3. j \in {1, 2} BY <2>2, <3>1
    <3> QED BY <1>1, <3>1, <3>2, <3>3
  <2>4. CASE ~\E i \in 1..k : W[i][1] = f
    <3>1. q[f] = p[f] BY <2>1, <2>4
    <3> QED BY <1>1, <2>2, <2>4, <3>1
  <2> QED BY <2>3, <2>4
<1>3. q = [f \in Fields |-> q[f]] BY DEF Written
<1> HIDE DEF q
<1>4. q \in Params BY <1>2, <1>3 DEF Params
<1>5. q \in Params /\ (\A f \in Fields : f \notin {x, y} => q[f] = p[f])
      /\ (k = 2 => q[x] = v /\ q[y] = w)
  BY <1>2, <1>4
<1> QED BY <1>5 DEF q, W

LEMMA OneWrite ==
  ASSUME NEW p \in Params, NEW x \in Fields, NEW v \in Nat, NEW k \in 0..1
  PROVE  LET q == Written(p, << <<x, v>> >>, k)
         IN /\ q \in Params
            /\ \A f \in Fields : f # x => q[f] = p[f]
            /\ k = 1 => q[x] = v
<1> DEFINE W == << <<x, v>> >>
           q == Written(p, W, k)
<1>1. W[1][1] = x /\ W[1][2] = v OBVIOUS
<1> HIDE DEF W
<1>2. ASSUME NEW f \in Fields
      PROVE  /\ f # x => q[f] = p[f]
             /\ q[f] \in {p[f], v}
             /\ k = 1 /\ f = x => q[f] = v
  <2>1. q[f] = IF \E i \in 1..k : W[i][1] = f
               THEN W[CHOOSE i \in 1..k : W[i][1] = f][2] ELSE p[f]
    BY DEF Written
  <2>2. 1..k \subseteq {1} /\ (k = 1 => 1..k = {1}) OBVIOUS
  <2> DEFINE j == CHOOSE i \in 1..k : W[i][1] = f
  <2>3. CASE \E i \in 1..k : W[i][1] = f
    <3>1. j \in 1..k /\ W[j][1] = f BY <2>3
    <3>2. q[f] = W[j][2] BY <2>1, <2>3
    <3> HIDE DEF j
    <3>3. j = 1 BY <2>2, <3>1
    <3> QED BY <1>1, <3>1, <3>2, <3>3
  <2>4. CASE ~\E i \in 1..k : W[i][1] = f
    <3>1. q[f] = p[f] BY <2>1, <2>4
    <3> QED BY <1>1, <2>2, <2>4, <3>1
  <2> QED BY <2>3, <2>4
<1>3. q = [f \in Fields |-> q[f]] BY DEF Written
<1> HIDE DEF q
<1>4. q \in Params BY <1>2, <1>3 DEF Params
<1>5. q \in Params /\ (\A f \in Fields : f # x => q[f] = p[f]) /\ (k = 1 => q[x] = v)
  BY <1>2, <1>4
<1> QED BY <1>5 DEF q, W
-----------------------------------------------------------------------------
(* Types                                                                   *)

OdType == od \in [Axes -> [param : Params, mode : Modes]]
CacheType == cache \in [Axes -> Params]
CtlType == ctl \in [Axes -> [limit : Nat, exp : Exps]]
RxType == rx \in [Axes -> [vel : Nat, mode : Modes]]
DoubtType == doubt \in [Axes -> SUBSET Groups]
AnswerType ==
  answer.ok \in BOOLEAN /\ answer.axes \subseteq Axes /\ DOMAIN answer.set \subseteq Fields
OtherTypes ==
  /\ phase \in {"start", "failed", "run", "lost"}
  /\ saved \in [Axes -> Params] /\ invalid \subseteq Axes /\ conv \in [Axes -> Exps]
  /\ modes \in [Axes -> Modes]
  /\ served \in 0..MaxRequests /\ losses \in 0..MaxLosses

LEMMA TypeParts ==
  TypeOK <=> /\ OdType /\ CacheType /\ CtlType /\ RxType /\ DoubtType
             /\ AnswerType /\ OtherTypes
BY DEF TypeOK, OdType, CacheType, CtlType, RxType, DoubtType, AnswerType, OtherTypes,
  Params, Parameters, Number

LEMMA TypePartsPrime ==
  TypeOK' <=> /\ OdType' /\ CacheType' /\ CtlType' /\ RxType' /\ DoubtType'
              /\ AnswerType' /\ OtherTypes'
BY TypeParts, PTL

LEMMA ServesType ==
  ASSUME TypeOK, Serves, phase' \in {"run", "lost"},
         UNCHANGED <<saved, modes, losses>>, invalid' \subseteq Axes,
         conv' \in [Axes -> Exps]
  PROVE  OtherTypes' /\ phase = "run"
<1>1. OtherTypes BY TypeParts
<1>2. served' \in 0..MaxRequests
  <2>1. served \in Nat /\ MaxRequests \in Nat /\ served < MaxRequests /\ served' = served + 1
    BY <1>1, ParametersAssumption DEF OtherTypes, Serves
  <2> QED BY <2>1
<1> QED BY <1>1, <1>2 DEF OtherTypes, Serves

LEMMA NoAnswerFits ==
  ASSUME answer' = NoAnswer
  PROVE  AnswerType' /\ AnswerIsCurrent' /\ SuccessIsReal'
<1>1. answer'.ok = FALSE /\ answer'.axes = {} /\ answer'.set = <<>> BY DEF NoAnswer
<1>2. DOMAIN answer'.set = {}
  <2>1. DOMAIN (<<>>) = {} OBVIOUS
  <2> QED BY <1>1, <2>1
<1>3. AnswerType' BY <1>1, <1>2 DEF AnswerType
<1>4. AnswerIsCurrent' BY <1>1 DEF AnswerIsCurrent
<1>5. SuccessIsReal' BY <1>1 DEF SuccessIsReal
<1> QED BY <1>3, <1>4, <1>5

\* LimitOf is a limit of the controller.
LEMMA LimitOfType ==
  ASSUME NEW v \in Params, NEW e \in Exps
  PROVE  LimitOf(v, e) \in [limit : Nat, exp : Exps]
BY DEF LimitOf, Params, Fields

LEMMA LimitOfSame ==
  ASSUME NEW v, NEW w, v.pos = w.pos, v.neg = w.neg, NEW e
  PROVE  LimitOf(v, e) = LimitOf(w, e)
BY DEF LimitOf
-----------------------------------------------------------------------------
(* Steps of a running bus                                                  *)

\* What every request that leaves modes and validity alone keeps.
LEMMA RunningKept ==
  ASSUME ParameterInv, phase = "run", phase' = "run", UNCHANGED <<saved, invalid, modes>>,
         \A a \in Axes : od'[a].param.exp \in Exps, \A a \in Axes : rx'[a].mode = rx[a].mode
  PROVE  UnitsFit' /\ FreshServer' /\ AnswerIsCurrent' /\ RunningIsValid' /\ ModeIsCommanded'
BY DEF ParameterInv, ServerAgrees, UnitsFit, FreshServer, AnswerIsCurrent, RunningIsValid,
  ModeIsCommanded

\* The converter of an axis has the exponent of its drive, unless in doubt.
LEMMA ConverterIsRight ==
  ASSUME ParameterInv, phase = "run", NEW a \in Axes, "units" \notin doubt[a]
  PROVE  conv[a] = od[a].param.exp
<1>1. AllTrue BY TruthByField DEF ParameterInv
<1>2. FieldTrue(a, "exp") BY <1>1 DEF AllTrue, Fields
<1>3. cache[a]["exp"] = od[a].param["exp"] BY <1>2, FieldGroups DEF FieldTrue, Effective
<1> QED BY <1>3 DEF ParameterInv, ServerAgrees, CopiesFollowCache

\* A request that has brought its values to all its axes may say so.
LEMMA SuccessFits ==
  ASSUME ParameterInv, phase = "run", NEW axes \in SUBSET Axes, NEW api,
         answer' = [ok |-> TRUE, axes |-> axes, set |-> api], DOMAIN api \subseteq Fields,
         \A a \in axes : \A f \in DOMAIN api :
           \/ Effective(a, f)' = ToDrive(api[f], conv[a])
           \/ f = "vel" /\ modes'[a] = "pv",
         \A a \in Axes : od'[a].param.exp = od[a].param.exp,
         \A a \in Axes : "units" \in doubt[a] => "units" \in doubt'[a]
  PROVE  AnswerType' /\ SuccessIsReal'
<1>1. answer'.ok = TRUE /\ answer'.axes = axes /\ answer'.set = api OBVIOUS
<1>2. ASSUME NEW a \in axes, NEW f \in DOMAIN api
      PROVE  \/ Effective(a, f)' = ToDrive(api[f], od'[a].param.exp)
             \/ "units" \in doubt'[a]
             \/ f = "vel" /\ modes'[a] = "pv"
  <2>1. CASE "units" \in doubt[a] BY <2>1
  <2>2. CASE "units" \notin doubt[a]
    <3>1. conv[a] = od'[a].param.exp BY <2>2, ConverterIsRight
    <3> QED BY <3>1
  <2> QED BY <2>1, <2>2
<1>3. SuccessIsReal' BY <1>1, <1>2 DEF SuccessIsReal
<1> QED BY <1>1, <1>3 DEF AnswerType

\* The writes of a request touch the fields F of the axes it reaches.
StoredFits(R, o, W, F) ==
  /\ OdType'
  /\ \A a \in Axes : od'[a].mode = od[a].mode /\ od'[a].param \in Params
  /\ \A a \in Axes : a \notin R => od'[a] = od[a]
  /\ \A a \in R : od'[a].param = Written(od[a].param, W[a], o[a].done)
  /\ \A a \in Axes : \A f \in Fields : f \notin F => od'[a].param[f] = od[a].param[f]

LEMMA StoredStep ==
  ASSUME TypeOK, NEW R \in SUBSET Axes, NEW o, NEW W, NEW F, Stored(R, o, W),
         \A a \in R : /\ Written(od[a].param, W[a], o[a].done) \in Params
                      /\ \A f \in Fields : f \notin F =>
                           Written(od[a].param, W[a], o[a].done)[f] = od[a].param[f]
  PROVE  StoredFits(R, o, W, F)
<1>1. OdType BY TypeParts
<1>2. ASSUME NEW a \in Axes
      PROVE  /\ od'[a] \in [param : Params, mode : Modes] /\ od'[a].mode = od[a].mode
             /\ a \notin R => od'[a] = od[a]
             /\ a \in R => od'[a].param = Written(od[a].param, W[a], o[a].done)
             /\ \A f \in Fields : f \notin F => od'[a].param[f] = od[a].param[f]
  <2>0. od[a] \in [param : Params, mode : Modes] BY <1>1 DEF OdType
  <2>1. CASE a \notin R
    <3>1. od'[a] = od[a] BY <2>1 DEF Stored
    <3> QED BY <2>0, <2>1, <3>1
  <2>2. CASE a \in R
    <3> DEFINE q == Written(od[a].param, W[a], o[a].done)
    <3>1. od'[a] = [od[a] EXCEPT !.param = q] BY <2>2 DEF Stored
    <3>2. q \in Params /\ \A f \in Fields : f \notin F => q[f] = od[a].param[f] BY <2>2
    <3> HIDE DEF q
    <3>3. od'[a] \in [param : Params, mode : Modes] /\ od'[a].mode = od[a].mode
          /\ od'[a].param = q
      BY <2>0, <3>1, <3>2
    <3> QED BY <2>2, <3>2, <3>3 DEF q
  <2> QED BY <2>1, <2>2
<1>3. od' = [a \in Axes |-> od'[a]] BY DEF Stored
<1>4. OdType' BY <1>2, <1>3 DEF OdType
<1> QED BY <1>2, <1>4 DEF StoredFits

\* The read-back replaces the fields F of the axes that were read.
FetchedFits(R, o, F, read) ==
  /\ CacheType'
  /\ \A a \in Axes : \A f \in Fields :
       cache'[a][f] = IF a \in R /\ o[a].read /\ f \in F THEN read[a][f]
                      ELSE cache[a][f]

LEMMA FetchedStep ==
  ASSUME TypeOK, NEW R \in SUBSET Axes, NEW o, NEW F \in SUBSET Fields, NEW read,
         Fetched(R, o, F, read), \A a \in R : \A f \in F : read[a][f] \in Nat
  PROVE  FetchedFits(R, o, F, read)
<1>1. CacheType BY TypeParts
<1>2. ASSUME NEW a \in Axes
      PROVE  /\ cache'[a] \in Params
             /\ \A f \in Fields :
                  cache'[a][f] = IF a \in R /\ o[a].read /\ f \in F THEN read[a][f]
                                 ELSE cache[a][f]
  <2>0. cache[a] \in Params BY <1>1 DEF CacheType
  <2>1. CASE a \in R /\ o[a].read
    <3>1. cache'[a] = [f \in Fields |-> IF f \in F THEN read[a][f] ELSE cache[a][f]]
      BY <2>1 DEF Fetched
    <3> QED BY <2>0, <2>1, <3>1 DEF Params
  <2>2. CASE ~(a \in R /\ o[a].read)
    <3>1. cache'[a] = cache[a] BY <2>2 DEF Fetched
    <3> QED BY <2>0, <2>2, <3>1
  <2> QED BY <2>1, <2>2
<1>3. cache' = [a \in Axes |-> cache'[a]] BY DEF Fetched
<1>4. CacheType' BY <1>2, <1>3 DEF CacheType
<1> QED BY <1>2, <1>4 DEF FetchedFits

LEMMA DoubtedStep ==
  ASSUME TypeOK, NEW R \in SUBSET Axes, NEW o, NEW g \in Groups, Doubted(R, o, g)
  PROVE  /\ DoubtType'
         /\ \A a \in Axes : \A h \in Groups : h # g => (h \in doubt'[a] <=> h \in doubt[a])
         /\ \A a \in R : ~o[a].read => g \in doubt'[a]
         /\ \A a \in Axes : a \notin R => doubt'[a] = doubt[a]
<1>1. DoubtType BY TypeParts
<1>2. \A a \in Axes : doubt'[a] = IF a \notin R THEN doubt[a]
                                   ELSE IF o[a].read THEN doubt[a] \ {g}
                                   ELSE doubt[a] \cup {g}
  BY DEF Doubted
<1>3. \A a \in Axes : doubt'[a] \in SUBSET Groups BY <1>1, <1>2 DEF DoubtType
<1>4. doubt' = [a \in Axes |-> doubt'[a]] BY DEF Doubted
<1>5. DoubtType' BY <1>3, <1>4 DEF DoubtType
<1> QED BY <1>2, <1>5

LEMMA OutcomeFields ==
  ASSUME NEW axes \in SUBSET Axes, NEW n, NEW o \in RequestOutcomes(axes, n), NEW a \in axes
  PROVE  /\ o[a].done \in 0..n[a]
         /\ o[a].error \/ o[a].done = n[a]
         /\ a \notin Failing(o) <=> ~Unsuccessful(o[a])
<1>1. o[a] \in Outcomes(n[a]) /\ DOMAIN o = axes BY DEF RequestOutcomes
<1> QED BY <1>1 DEF Outcomes, Failing

\* A success means that every write of every axis took effect and was read.
LEMMA AnsweredStep ==
  ASSUME NEW axes \in SUBSET Axes, NEW R \in SUBSET axes, NEW n,
         NEW o \in RequestOutcomes(axes, n), NEW api, Answered(axes, R, o, api)
  PROVE  \/ answer' = NoAnswer
         \/ /\ answer' = [ok |-> TRUE, axes |-> axes, set |-> api] /\ R = axes
            /\ \A a \in axes : o[a].read /\ o[a].done = n[a]
<1>1. CASE R = axes /\ \A a \in axes : ~Unsuccessful(o[a])
  <2>1. \A a \in axes : o[a].read /\ o[a].done = n[a]
    BY <1>1, OutcomeFields DEF Unsuccessful
  <2> QED BY <1>1, <2>1 DEF Answered
<1>2. CASE ~(R = axes /\ \A a \in axes : ~Unsuccessful(o[a]))
  BY <1>2 DEF Answered
<1> QED BY <1>1, <1>2

PairWrites(axes, api, loses, x, y) ==
  [a \in axes |-> << <<x, DriveValue(a, api, x, loses)>>, <<y, DriveValue(a, api, y, loses)>> >>]

PairFits(axes, api, loses, R, o, x, y) ==
  /\ OdType' /\ CacheType' /\ DoubtType' /\ AnswerType'
  /\ CacheTellsTheTruth' /\ SuccessIsReal'
  /\ \A a \in Axes : od'[a].param.exp = od[a].param.exp
  /\ \A a \in Axes : \A f \in Fields :
       f \notin {x, y} \/ a \notin R \/ ~o[a].read => cache'[a][f] = cache[a][f]
  /\ answer'.ok => /\ answer'.axes = axes /\ answer'.set = api
                   /\ \A a \in axes : \A f \in {x, y} :
                        Effective(a, f)' = DriveValue(a, api, f, loses)

\* A request that writes the two fields of a group on each of its axes and
\* reads them back: the limits and the motion limits.
LEMMA PairRequest ==
  ASSUME ParameterInv, phase = "run", UNCHANGED <<phase, conv, rx, modes>>,
         NEW axes \in SUBSET Axes, NEW R \in SUBSET axes, NEW loses,
         NEW x \in Fields, NEW y \in Fields, x # y, x \notin {"exp", "vel"},
         y \notin {"exp", "vel"}, NEW g \in Groups, g # "units",
         \A f \in Fields : GroupOf(f) \in Groups /\ (GroupOf(f) = g <=> f \in {x, y}),
         NEW api \in Requests({x, y}), NEW n, \A a \in axes : n[a] = 2,
         NEW o \in RequestOutcomes(axes, n),
         Stored(R, o, PairWrites(axes, api, loses, x, y)),
         Fetched(R, o, {x, y}, ReadBack), Doubted(R, o, g), Answered(axes, R, o, api)
  PROVE  PairFits(axes, api, loses, R, o, x, y)
<1> DEFINE V(a, f) == DriveValue(a, api, f, loses)
           W == PairWrites(axes, api, loses, x, y)
<1>0. TypeOK BY DEF ParameterInv, ServerAgrees
<1>1. \A a \in axes : /\ V(a, x) \in Nat /\ V(a, y) \in Nat
                       /\ \A f \in DOMAIN api : V(a, f) = ToDrive(api[f], conv[a])
  BY <1>0, DriveValueType, RequestFields
<1>2. DOMAIN api \subseteq {x, y} BY RequestFields
<1>3. \A a \in axes : od[a].param \in Params
  BY <1>0, TypeParts DEF OdType
<1>4. ASSUME NEW a \in axes
      PROVE  LET q == Written(od[a].param, W[a], o[a].done)
             IN /\ q \in Params
                /\ \A f \in Fields : f \notin {x, y} => q[f] = od[a].param[f]
                /\ o[a].done = 2 => q[x] = V(a, x) /\ q[y] = V(a, y)
  <2>1. o[a].done \in 0..2 BY OutcomeFields
  <2>2. W[a] = << <<x, V(a, x)>>, <<y, V(a, y)>> >> BY DEF PairWrites
  <2>3. V(a, x) \in Nat /\ V(a, y) \in Nat BY <1>1
  <2> HIDE DEF V, W
  <2>4. od[a].param \in Params BY <1>3
  <2> DEFINE v == V(a, x)
             w == V(a, y)
             p == od[a].param
             k == o[a].done
  <2>5. W[a] = << <<x, v>>, <<y, w>> >> /\ v \in Nat /\ w \in Nat /\ p \in Params
        /\ k \in 0..2
    BY <2>1, <2>2, <2>3, <2>4
  <2> HIDE DEF v, w, p, k
  <2>6. LET q == Written(p, << <<x, v>>, <<y, w>> >>, k)
        IN /\ q \in Params
           /\ \A f \in Fields : f \notin {x, y} => q[f] = p[f]
           /\ k = 2 => q[x] = v /\ q[y] = w
    BY <2>5, TwoWrites
  <2> QED BY <2>5, <2>6 DEF v, w, p, k
<1> HIDE DEF V, W
<1>5. /\ OdType'
      /\ \A a \in Axes : od'[a].mode = od[a].mode /\ od'[a].param \in Params
      /\ \A a \in Axes : a \notin R => od'[a] = od[a]
      /\ \A a \in R : od'[a].param = Written(od[a].param, W[a], o[a].done)
      /\ \A a \in Axes : \A f \in Fields : f \notin {x, y} => od'[a].param[f] = od[a].param[f]
  <2>1. Stored(R, o, W) BY DEF W
  <2>2. R \in SUBSET Axes OBVIOUS
  <2>3. PICK w : w = W OBVIOUS
  <2>4. Stored(R, o, w) BY <2>1, <2>3 DEF Stored
  <2>5. \A a \in R : /\ Written(od[a].param, w[a], o[a].done) \in Params
                      /\ \A f \in Fields : f \notin {x, y} =>
                           Written(od[a].param, w[a], o[a].done)[f] = od[a].param[f]
    BY <1>4, <2>3
  <2>6. StoredFits(R, o, w, {x, y}) BY <1>0, <2>2, <2>4, <2>5, StoredStep
  <2> QED BY <2>3, <2>6 DEF StoredFits
<1>6. \A a \in Axes : \A f \in Fields : ReadBack[a][f] = od'[a].param[f] BY DEF ReadBack
<1>7. /\ CacheType'
      /\ \A a \in Axes : \A f \in Fields :
           cache'[a][f] = IF a \in R /\ o[a].read /\ f \in {x, y} THEN ReadBack[a][f]
                          ELSE cache[a][f]
  <2>1. \A a \in R : \A f \in {x, y} : ReadBack[a][f] \in Nat
    BY <1>5, <1>6 DEF Params
  <2>2. PICK rb : rb = ReadBack OBVIOUS
  <2>3. Fetched(R, o, {x, y}, rb) BY <2>2 DEF Fetched
  <2>4. \A a \in R : \A f \in {x, y} : rb[a][f] \in Nat BY <2>1, <2>2
  <2>5. {x, y} \in SUBSET Fields /\ R \in SUBSET Axes OBVIOUS
  <2>6. FetchedFits(R, o, {x, y}, rb) BY <1>0, <2>3, <2>4, <2>5, FetchedStep
  <2> QED BY <2>2, <2>6 DEF FetchedFits
<1>8. /\ DoubtType'
      /\ \A a \in Axes : \A h \in Groups : h # g => (h \in doubt'[a] <=> h \in doubt[a])
      /\ \A a \in R : ~o[a].read => g \in doubt'[a]
      /\ \A a \in Axes : a \notin R => doubt'[a] = doubt[a]
  <2>1. R \in SUBSET Axes OBVIOUS
  <2> QED BY <1>0, <2>1, DoubtedStep
<1>9. CacheTellsTheTruth'
  <2>1. AllTrue BY TruthByField DEF ParameterInv
  <2>2. ASSUME NEW a \in Axes, NEW f \in Fields PROVE FieldTrue(a, f)'
    <3>1. FieldTrue(a, f) BY <2>1 DEF AllTrue
    <3>2. CASE f \notin {x, y}
      <4>1. cache'[a][f] = cache[a][f] BY <1>7, <3>2
      <4>2. Effective(a, f)' = Effective(a, f) BY <1>5, <3>2 DEF Effective
      <4>3. GroupOf(f) \in doubt'[a] <=> GroupOf(f) \in doubt[a] BY <1>8, <3>2
      <4> QED BY <3>1, <4>1, <4>2, <4>3 DEF FieldTrue
    <3>3. CASE f \in {x, y} /\ a \notin R
      <4>1. cache'[a][f] = cache[a][f] BY <1>7, <3>3
      <4>2. Effective(a, f)' = Effective(a, f) BY <1>5, <3>3 DEF Effective
      <4>3. doubt'[a] = doubt[a] BY <1>8, <3>3
      <4> QED BY <3>1, <4>1, <4>2, <4>3 DEF FieldTrue
    <3>4. CASE f \in {x, y} /\ a \in R /\ ~o[a].read
      <4>1. g \in doubt'[a] /\ GroupOf(f) = g BY <1>8, <3>4
      <4> QED BY <4>1 DEF FieldTrue
    <3>5. CASE f \in {x, y} /\ a \in R /\ o[a].read
      <4>1. cache'[a][f] = od'[a].param[f] BY <1>6, <1>7, <3>5
      <4>2. Effective(a, f)' = od'[a].param[f] BY <3>5 DEF Effective
      <4> QED BY <4>1, <4>2 DEF FieldTrue
    <3> QED BY <3>2, <3>3, <3>4, <3>5
  <2> QED BY <2>2, TruthByFieldPrime DEF AllTrue
<1>10. \A a \in Axes : od'[a].param.exp = od[a].param.exp
  <2>1. "exp" \in Fields BY DEF Fields
  <2> QED BY <1>5, <2>1
<1>11. \A a \in Axes : "units" \in doubt[a] => "units" \in doubt'[a]
  BY <1>8 DEF Groups
<1>12. CASE answer' = NoAnswer
  <2>1. ~answer'.ok BY <1>12 DEF NoAnswer
  <2> QED BY <1>5, <1>7, <1>8, <1>9, <1>10, <1>12, <2>1, NoAnswerFits DEF PairFits
<1>13. CASE /\ answer' = [ok |-> TRUE, axes |-> axes, set |-> api] /\ R = axes
            /\ \A a \in axes : o[a].read /\ o[a].done = n[a]
  <2>1. ASSUME NEW a \in axes, NEW f \in {x, y} PROVE Effective(a, f)' = V(a, f)
    <3>1. od'[a].param[f] = V(a, f) BY <1>4, <1>5, <1>13
    <3> QED BY <3>1 DEF Effective
  <2>2. \A a \in axes : \A f \in DOMAIN api : Effective(a, f)' = ToDrive(api[f], conv[a])
    BY <1>1, <1>2, <2>1
  <2>3. DOMAIN api \subseteq Fields BY <1>2
  <2>4. AnswerType' /\ SuccessIsReal'
    BY <1>10, <1>11, <1>13, <2>2, <2>3, SuccessFits
  <2>5. answer'.axes = axes /\ answer'.set = api BY <1>13
  <2> QED BY <1>5, <1>7, <1>8, <1>9, <1>10, <2>1, <2>4, <2>5 DEF V, PairFits
<1> QED BY <1>12, <1>13, AnsweredStep
-----------------------------------------------------------------------------
(* The settings requests                                                   *)

\* The action of UnnamedIsKept.
OthersKept ==
  served' # served /\ answer'.ok /\ Cardinality(DOMAIN answer'.set) = 1
  => \A a \in answer'.axes : \A f \in DOMAIN answer'.set :
       LET g == Other(f) IN
       \/ GroupOf(g) \in doubt[a]
       \/ Effective(a, g)' = Effective(a, g)
       \/ /\ g \in {"pos", "vel", "acc"}
          /\ Effective(a, g)' = Effective(a, g) - 1

Pairs == {LimitObjects, MotionObjects, ProfileObjects}

LEMMA OthersInPair ==
  ASSUME NEW fields \in Pairs, NEW f \in fields
  PROVE  /\ fields = {f, Other(f)} /\ Other(f) # f /\ fields \subseteq Fields
<1>1. Other("low") = "high" /\ Other("high") = "low" BY DEF Other
<1>2. Other("pos") = "neg" /\ Other("neg") = "pos" BY DEF Other
<1>3. Other("vel") = "acc" /\ Other("acc") = "vel" BY DEF Other
<1>4. CASE fields = LimitObjects BY <1>1, <1>4 DEF LimitObjects, Fields
<1>5. CASE fields = MotionObjects BY <1>2, <1>5 DEF MotionObjects, Fields
<1>6. CASE fields = ProfileObjects BY <1>3, <1>6 DEF ProfileObjects, Fields
<1> QED BY <1>4, <1>5, <1>6 DEF Pairs

\* A request of one field leaves the other one of the pair as it was.
LEMMA OthersFit ==
  ASSUME ParameterInv, phase = "run", NEW axes \in SUBSET Axes, NEW fields \in Pairs,
         NEW api \in Requests(fields), NEW loses \in Losing(api, fields),
         answer'.ok =>
           /\ answer'.axes = axes /\ answer'.set = api
           /\ \A a \in axes : \A f \in fields :
                \/ Effective(a, f)' = DriveValue(a, api, f, loses)
                \/ Effective(a, f)' = Effective(a, f)
  PROVE  OthersKept
<1> SUFFICES ASSUME answer'.ok, Cardinality(DOMAIN api) = 1,
                    answer'.axes = axes, answer'.set = api,
                    NEW a \in axes, NEW f \in DOMAIN api
             PROVE  \/ GroupOf(Other(f)) \in doubt[a]
                    \/ Effective(a, Other(f))' = Effective(a, Other(f))
                    \/ /\ Other(f) \in {"pos", "vel", "acc"}
                       /\ Effective(a, Other(f))' = Effective(a, Other(f)) - 1
  BY DEF OthersKept
<1> DEFINE g == Other(f)
<1>1. f \in fields BY RequestFields
<1>2. fields = {f, g} /\ g # f /\ g \in Fields BY <1>1, OthersInPair
<1>3. g \notin DOMAIN api
  <2>1. DOMAIN api \subseteq {f, g} BY <1>2, RequestFields
  <2>2. IsFiniteSet({f, g})
    <3>1. IsFiniteSet({f}) BY FS_Singleton
    <3>2. IsFiniteSet({f} \cup {g}) BY <3>1, FS_AddElement
    <3>3. {f, g} = {f} \cup {g} OBVIOUS
    <3> QED BY <3>2, <3>3
  <2>3. IsFiniteSet(DOMAIN api) BY <2>1, <2>2, FS_Subset
  <2>4. PICK x : DOMAIN api = {x} BY <2>3, FS_Singleton
  <2> QED BY <1>2, <2>4
<1>4. \/ Effective(a, g)' = DriveValue(a, api, g, loses)
      \/ Effective(a, g)' = Effective(a, g)
  BY <1>2
<1>5. GroupOf(g) \in doubt[a] \/ cache[a][g] = Effective(a, g)
  <2>1. AllTrue BY TruthByField DEF ParameterInv
  <2> QED BY <1>2, <2>1 DEF AllTrue, FieldTrue
<1>6. \/ DriveValue(a, api, g, loses) = cache[a][g]
      \/ g \in loses /\ DriveValue(a, api, g, loses) = cache[a][g] - 1
  <2>1. TypeOK BY DEF ParameterInv, ServerAgrees
  <2> QED BY <1>2, <1>3, <2>1, DriveValueType
<1>7. g \in loses => g \in {"pos", "vel", "acc"} BY DEF Losing, TruncatedFields
<1> HIDE DEF g
<1> QED BY <1>4, <1>5, <1>6, <1>7 DEF g

LEMMA SetSoftwarePositionLimitsKeeps ==
  ASSUME ParameterInv, NEW axes \in SUBSET Axes, NEW api \in Requests(LimitObjects),
         NEW loses \in Losing(api, LimitObjects), NEW n, \A a \in axes : n[a] = 2,
         NEW o \in RequestOutcomes(axes, n), SetSoftwarePositionLimits(axes, api, loses, o)
  PROVE  ParameterInv' /\ OthersKept
<1>1. PICK R \in SUBSET axes :
        /\ Stored(R, o, PairWrites(axes, api, loses, "low", "high"))
        /\ Fetched(R, o, LimitObjects, ReadBack)
        /\ Doubted(R, o, "limits") /\ Answered(axes, R, o, api)
  <2> DEFINE refused == {a \in axes : DriveValue(a, api, "low", loses)
                                        > DriveValue(a, api, "high", loses)}
             R == Reached(axes, refused \cup Failing(o)) \ refused
  <2>1. R \in SUBSET axes BY DEF Reached
  <2>2. PairWrites(axes, api, loses, "low", "high")
        = [a \in axes |-> LimitWrites(DriveValue(a, api, "low", loses),
                                      DriveValue(a, api, "high", loses))]
    BY DEF PairWrites, LimitWrites
  <2>3. /\ Stored(R, o, PairWrites(axes, api, loses, "low", "high"))
        /\ Fetched(R, o, LimitObjects, ReadBack)
        /\ Doubted(R, o, "limits") /\ Answered(axes, R, o, api)
    BY <2>2 DEF SetSoftwarePositionLimits
  <2> HIDE DEF R
  <2> QED BY <2>1, <2>3
<1>2. Serves /\ UNCHANGED <<phase, saved, invalid, conv, ctl, rx, modes, losses>>
  BY DEF SetSoftwarePositionLimits
<1>3. TypeOK /\ phase = "run" BY <1>2 DEF ParameterInv, ServerAgrees, Serves
<1>4. PairFits(axes, api, loses, R, o, "low", "high")
  <2>1. LimitObjects = {"low", "high"} BY DEF LimitObjects
  <2>2. \A f \in Fields : GroupOf(f) \in Groups /\ (GroupOf(f) = "limits" <=> f \in {"low", "high"})
    BY FieldGroups DEF Fields, Groups
  <2>3. "low" \in Fields /\ "high" \in Fields /\ "limits" \in Groups BY DEF Fields, Groups
  <2>4. Fetched(R, o, {"low", "high"}, ReadBack) /\ api \in Requests({"low", "high"})
    BY <1>1, <2>1
  <2> QED BY <1>1, <1>2, <1>3, <2>2, <2>3, <2>4, PairRequest
<1>5. \A a \in Axes : cache'[a].exp = cache[a].exp /\ cache'[a].pos = cache[a].pos
                       /\ cache'[a].neg = cache[a].neg
  BY <1>4 DEF PairFits, Fields
<1>6. CopiesFollowCache'
  <2>1. CopiesFollowCache BY DEF ParameterInv, ServerAgrees
  <2> QED BY <1>2, <1>3, <1>5, <2>1, LimitOfSame DEF CopiesFollowCache
<1>7. OtherTypes' /\ CtlType' /\ RxType'
  <2>1. CtlType' /\ RxType' BY <1>2, <1>3, TypeParts DEF CtlType, RxType
  <2>2. OtherTypes BY <1>3, TypeParts
  <2>3. invalid' \subseteq Axes /\ conv' \in [Axes -> Exps] BY <1>2, <2>2 DEF OtherTypes
  <2> QED BY <1>2, <1>3, <2>1, <2>3, ServesType
<1>8. UnitsFit' /\ FreshServer' /\ AnswerIsCurrent' /\ RunningIsValid' /\ ModeIsCommanded'
  <2>1. \A a \in Axes : od'[a].param.exp \in Exps BY <1>4 DEF ParameterInv, UnitsFit, PairFits
  <2> QED BY <1>2, <1>3, <2>1, RunningKept
<1>9. TypeOK' BY <1>4, <1>7, TypePartsPrime DEF PairFits
<1>10. OthersKept
  <2>1. LimitObjects = {"low", "high"} /\ LimitObjects \in Pairs BY DEF LimitObjects, Pairs
  <2> QED BY <1>3, <1>4, <2>1, OthersFit DEF PairFits
<1> QED BY <1>4, <1>6, <1>8, <1>9, <1>10 DEF ParameterInv, ServerAgrees, PairFits

LEMMA SetMotionLimitsKeeps ==
  ASSUME ParameterInv, NEW axes \in SUBSET Axes, NEW api \in Requests(MotionObjects),
         NEW loses \in Losing(api, MotionObjects), NEW n, \A a \in axes : n[a] = 2,
         NEW o \in RequestOutcomes(axes, n), SetMotionLimits(axes, api, loses, o)
  PROVE  ParameterInv' /\ OthersKept
<1>1. PICK R \in SUBSET axes :
        /\ Stored(R, o, PairWrites(axes, api, loses, "pos", "neg"))
        /\ Fetched(R, o, MotionObjects, ReadBack)
        /\ ctl' = [a \in Axes |-> IF a \in R /\ o[a].read
                                  THEN LimitOf(cache'[a], conv[a]) ELSE ctl[a]]
        /\ Doubted(R, o, "motion") /\ Answered(axes, R, o, api)
  <2> DEFINE R == Reached(axes, Failing(o))
  <2>1. R \in SUBSET axes BY DEF Reached
  <2>2. PairWrites(axes, api, loses, "pos", "neg")
        = [a \in axes |-> MotionWrites(DriveValue(a, api, "pos", loses),
                                       DriveValue(a, api, "neg", loses))]
    BY DEF PairWrites, MotionWrites
  <2>3. /\ Stored(R, o, PairWrites(axes, api, loses, "pos", "neg"))
        /\ Fetched(R, o, MotionObjects, ReadBack)
        /\ ctl' = [a \in Axes |-> IF a \in R /\ o[a].read
                                  THEN LimitOf(cache'[a], conv[a]) ELSE ctl[a]]
        /\ Doubted(R, o, "motion") /\ Answered(axes, R, o, api)
    BY <2>2 DEF SetMotionLimits
  <2> HIDE DEF R
  <2> QED BY <2>1, <2>3
<1>2. Serves /\ UNCHANGED <<phase, saved, invalid, conv, rx, modes, losses>>
  BY DEF SetMotionLimits
<1>3. TypeOK /\ phase = "run" BY <1>2 DEF ParameterInv, ServerAgrees, Serves
<1>4. PairFits(axes, api, loses, R, o, "pos", "neg")
  <2>1. MotionObjects = {"pos", "neg"} BY DEF MotionObjects
  <2>2. \A f \in Fields : GroupOf(f) \in Groups /\ (GroupOf(f) = "motion" <=> f \in {"pos", "neg"})
    BY FieldGroups DEF Fields, Groups
  <2>3. "pos" \in Fields /\ "neg" \in Fields /\ "motion" \in Groups BY DEF Fields, Groups
  <2>4. Fetched(R, o, {"pos", "neg"}, ReadBack) /\ api \in Requests({"pos", "neg"})
    BY <1>1, <2>1
  <2> QED BY <1>1, <1>2, <1>3, <2>2, <2>3, <2>4, PairRequest
<1>5. \A a \in Axes : cache'[a].exp = cache[a].exp BY <1>4 DEF PairFits, Fields
<1>6. CopiesFollowCache' /\ CtlType'
  <2>1. CopiesFollowCache BY DEF ParameterInv, ServerAgrees
  <2>2. CtlType BY <1>3, TypeParts
  <2>3. CacheType' /\ \A a \in Axes : conv[a] \in Exps
    BY <1>3, <1>4, TypeParts DEF PairFits, OtherTypes
  <2>4. ASSUME NEW a \in Axes
        PROVE  /\ conv'[a] = cache'[a].exp
               /\ ctl'[a] = LimitOf(cache'[a], cache'[a].exp)
               /\ ctl'[a] \in [limit : Nat, exp : Exps]
    <3>1. conv[a] = cache[a].exp /\ ctl[a] = LimitOf(cache[a], cache[a].exp)
      BY <1>3, <2>1 DEF CopiesFollowCache
    <3>2. CASE a \in R /\ o[a].read
      <4>1. ctl'[a] = LimitOf(cache'[a], conv[a]) BY <1>1, <3>2
      <4>2. cache'[a] \in Params BY <2>3 DEF CacheType
      <4>3. LimitOf(cache'[a], conv[a]) \in [limit : Nat, exp : Exps]
        BY <2>3, <4>2, LimitOfType
      <4> QED BY <1>2, <1>5, <3>1, <4>1, <4>3
    <3>3. CASE ~(a \in R /\ o[a].read)
      <4>1. ctl'[a] = ctl[a] BY <1>1, <3>3
      <4>2. cache'[a].pos = cache[a].pos /\ cache'[a].neg = cache[a].neg
        BY <1>4, <3>3 DEF PairFits, Fields
      <4>3. ctl'[a] \in [limit : Nat, exp : Exps] BY <2>2, <4>1 DEF CtlType
      <4> QED BY <1>2, <1>5, <3>1, <4>1, <4>2, <4>3, LimitOfSame
    <3> QED BY <3>2, <3>3
  <2>5. CtlType' BY <1>1, <2>4 DEF CtlType
  <2> QED BY <2>4, <2>5 DEF CopiesFollowCache
<1>7. OtherTypes' /\ RxType'
  <2>1. RxType' BY <1>2, <1>3, TypeParts DEF RxType
  <2>2. OtherTypes BY <1>3, TypeParts
  <2>3. invalid' \subseteq Axes /\ conv' \in [Axes -> Exps] BY <1>2, <2>2 DEF OtherTypes
  <2> QED BY <1>2, <1>3, <2>1, <2>3, ServesType
<1>8. UnitsFit' /\ FreshServer' /\ AnswerIsCurrent' /\ RunningIsValid' /\ ModeIsCommanded'
  <2>1. \A a \in Axes : od'[a].param.exp \in Exps BY <1>4 DEF ParameterInv, UnitsFit, PairFits
  <2> QED BY <1>2, <1>3, <2>1, RunningKept
<1>9. TypeOK' BY <1>4, <1>6, <1>7, TypePartsPrime DEF PairFits
<1>10. OthersKept
  <2>1. MotionObjects = {"pos", "neg"} /\ MotionObjects \in Pairs BY DEF MotionObjects, Pairs
  <2>2. answer'.ok =>
          /\ answer'.axes = axes /\ answer'.set = api
          /\ \A a \in axes : \A f \in MotionObjects :
               \/ Effective(a, f)' = DriveValue(a, api, f, loses)
               \/ Effective(a, f)' = Effective(a, f)
    BY <1>4, <2>1 DEF PairFits
  <2> QED BY <1>3, <2>1, <2>2, OthersFit
<1> QED BY <1>4, <1>6, <1>8, <1>9, <1>10 DEF ParameterInv, ServerAgrees, PairFits

\* The writes of a profile: k of one or two.
ProfileFits(p, q, pv, v, w, all) ==
  /\ q \in Params
  /\ \A f \in Fields : f \notin {"vel", "acc"} => q[f] = p[f]
  /\ pv => q["vel"] = p["vel"]
  /\ all => q["acc"] = w /\ (~pv => q["vel"] = v)

LEMMA ProfileWritten ==
  ASSUME NEW p \in Params, NEW pv \in BOOLEAN, NEW v \in Nat, NEW w \in Nat, NEW n,
         n = IF pv THEN 1 ELSE 2, NEW k \in 0..n
  PROVE  ProfileFits(p, Written(p, ProfileWrites(pv, v, w), k), pv, v, w, k = n)
<1>1. "vel" \in Fields /\ "acc" \in Fields /\ "vel" # "acc" BY DEF Fields
<1>2. CASE pv
  <2>1. ProfileWrites(pv, v, w) = << <<"acc", w>> >> BY <1>2 DEF ProfileWrites
  <2>2. n = 1 /\ k \in 0..1 BY <1>2
  <2>3. LET q == Written(p, << <<"acc", w>> >>, k)
        IN /\ q \in Params
           /\ \A f \in Fields : f # "acc" => q[f] = p[f]
           /\ k = 1 => q["acc"] = w
    BY <1>1, <2>2, OneWrite
  <2> QED BY <1>1, <1>2, <2>1, <2>2, <2>3 DEF ProfileFits
<1>3. CASE ~pv
  <2>1. ProfileWrites(pv, v, w) = << <<"vel", v>>, <<"acc", w>> >> BY <1>3 DEF ProfileWrites
  <2>2. n = 2 /\ k \in 0..2 BY <1>3
  <2>3. LET q == Written(p, << <<"vel", v>>, <<"acc", w>> >>, k)
        IN /\ q \in Params
           /\ \A f \in Fields : f \notin {"vel", "acc"} => q[f] = p[f]
           /\ k = 2 => q["vel"] = v /\ q["acc"] = w
    BY <1>1, <2>2, TwoWrites
  <2> QED BY <1>1, <1>3, <2>1, <2>2, <2>3 DEF ProfileFits
<1> QED BY <1>2, <1>3

DoubtedProfileFits(R, o) ==
  /\ DoubtType'
  /\ \A a \in Axes : \A f \in Fields \ {"vel", "acc"} :
       GroupOf(f) \in doubt'[a] <=> GroupOf(f) \in doubt[a]
  /\ \A a \in Axes : a \notin R => doubt'[a] = doubt[a]
  /\ \A a \in R : ~o[a].read => \A f \in {"vel", "acc"} : GroupOf(f) \in doubt'[a]
  /\ \A a \in R : modes[a] = "pv" /\ od[a].param.vel # rx[a].vel => GroupOf("vel") \in doubt'[a]

LEMMA DoubtedProfileStep ==
  ASSUME TypeOK, NEW R \in SUBSET Axes, NEW o, DoubtedProfile(R, o)
  PROVE  DoubtedProfileFits(R, o)
<1>1. DoubtType BY TypeParts
<1>2. ProfileObjects = {"vel", "acc"} /\ {"vel", "acc"} \subseteq Groups
  BY DEF ProfileObjects, Groups
<1>3. ASSUME NEW a \in Axes
      PROVE  /\ doubt'[a] \in SUBSET Groups
             /\ \A g \in Groups \ {"vel", "acc"} : g \in doubt'[a] <=> g \in doubt[a]
             /\ a \notin R => doubt'[a] = doubt[a]
             /\ a \in R /\ ~o[a].read => {"vel", "acc"} \subseteq doubt'[a]
             /\ a \in R /\ modes[a] = "pv" /\ od[a].param.vel # rx[a].vel => "vel" \in doubt'[a]
  <2>0. doubt[a] \in SUBSET Groups BY <1>1 DEF DoubtType
  <2>1. CASE a \notin R
    <3>1. doubt'[a] = doubt[a] BY <2>1 DEF DoubtedProfile
    <3> QED BY <2>0, <2>1, <3>1
  <2>2. CASE a \in R /\ ~o[a].read
    <3>1. doubt'[a] = doubt[a] \cup {"vel", "acc"} BY <1>2, <2>2 DEF DoubtedProfile
    <3> QED BY <1>2, <2>0, <2>2, <3>1
  <2>3. CASE a \in R /\ o[a].read /\ modes[a] # "pv"
    <3>1. doubt'[a] = doubt[a] \ {"vel", "acc"} BY <1>2, <2>3 DEF DoubtedProfile
    <3> QED BY <2>0, <2>3, <3>1
  <2>4. CASE a \in R /\ o[a].read /\ modes[a] = "pv" /\ od[a].param.vel # rx[a].vel
    <3>1. doubt'[a] = (doubt[a] \ {"acc"}) \cup {"vel"} BY <2>4 DEF DoubtedProfile
    <3> QED BY <1>2, <2>0, <2>4, <3>1
  <2>5. CASE a \in R /\ o[a].read /\ modes[a] = "pv" /\ ~(od[a].param.vel # rx[a].vel)
    <3>1. doubt'[a] = (doubt[a] \ {"acc"}) \cup {} BY <2>5 DEF DoubtedProfile
    <3> QED BY <2>0, <2>5, <3>1
  <2> QED BY <2>1, <2>2, <2>3, <2>4, <2>5
<1>4. doubt' = [a \in Axes |-> doubt'[a]] BY DEF DoubtedProfile
<1>5. DoubtType' BY <1>3, <1>4 DEF DoubtType
<1>6. \A f \in Fields \ {"vel", "acc"} : GroupOf(f) \in Groups \ {"vel", "acc"}
  BY FieldGroups DEF Fields, Groups
<1>7. \A f \in {"vel", "acc"} : GroupOf(f) = f BY FieldGroups
<1> QED BY <1>3, <1>5, <1>6, <1>7 DEF DoubtedProfileFits

\* On a PV axis only the acceleration is written; otherwise both.  With the
\* velocity in the RxPDO, the RxPDO gets it as soon as something is written.
LEMMA SetProfileKeeps ==
  ASSUME ParameterInv, NEW axes \in SUBSET Axes, NEW api \in Requests(ProfileObjects),
         NEW loses \in Losing(api, ProfileObjects), NEW n,
         \A a \in axes : n[a] = IF modes[a] = "pv" THEN 1 ELSE 2,
         NEW o \in RequestOutcomes(axes, n), SetProfile(axes, api, loses, o)
  PROVE  ParameterInv' /\ OthersKept
<1> DEFINE V(a, f) == DriveValue(a, api, f, loses)
           Pv(a) == modes[a] = "pv"
           W == [a \in axes |-> ProfileWrites(Pv(a), V(a, "vel"), V(a, "acc"))]
           Mapped(a) == VelocityMapped /\ ~Pv(a)
           read == [a \in axes |-> IF Mapped(a) THEN [od'[a].param EXCEPT !.vel = V(a, "vel")]
                                                 ELSE od'[a].param]
<1>1. PICK R \in SUBSET axes :
        /\ Stored(R, o, W) /\ Fetched(R, o, ProfileObjects, read)
        /\ rx' = [a \in Axes |->
                    IF a \notin R \/ ~Mapped(a) THEN rx[a]
                    ELSE IF o[a].read \/ o[a].done >= 1
                    THEN [rx[a] EXCEPT !.vel = V(a, "vel")] ELSE rx[a]]
        /\ DoubtedProfile(R, o) /\ Answered(axes, R, o, api)
  <2> DEFINE R == Reached(axes, Failing(o))
  <2>1. R \in SUBSET axes BY DEF Reached
  <2>2. /\ Stored(R, o, W) /\ Fetched(R, o, ProfileObjects, read)
        /\ rx' = [a \in Axes |->
                    IF a \notin R \/ ~Mapped(a) THEN rx[a]
                    ELSE IF o[a].read \/ o[a].done >= 1
                    THEN [rx[a] EXCEPT !.vel = V(a, "vel")] ELSE rx[a]]
        /\ DoubtedProfile(R, o) /\ Answered(axes, R, o, api)
    BY DEF SetProfile
  <2> HIDE DEF R, V, Pv, W, Mapped, read
  <2> QED BY <2>1, <2>2
<1>2. Serves /\ UNCHANGED <<phase, saved, invalid, conv, ctl, modes, losses>>
  BY DEF SetProfile
<1>3. TypeOK /\ phase = "run" BY <1>2 DEF ParameterInv, ServerAgrees, Serves
<1>4. ProfileObjects = {"vel", "acc"} /\ ProfileObjects \subseteq Fields
  BY DEF ProfileObjects, Fields
<1>5. ASSUME NEW a \in axes
      PROVE  /\ V(a, "vel") \in Nat /\ V(a, "acc") \in Nat
             /\ \A f \in DOMAIN api : f \in {"vel", "acc"} /\ V(a, f) = ToDrive(api[f], conv[a])
  BY <1>3, <1>4, DriveValueType, RequestFields
<1>6. ASSUME NEW a \in axes
      PROVE  /\ Written(od[a].param, W[a], o[a].done) \in Params
             /\ \A f \in Fields : f \notin {"vel", "acc"} =>
                  Written(od[a].param, W[a], o[a].done)[f] = od[a].param[f]
             /\ Pv(a) => Written(od[a].param, W[a], o[a].done)["vel"] = od[a].param["vel"]
             /\ o[a].done = n[a] => /\ Written(od[a].param, W[a], o[a].done)["acc"] = V(a, "acc")
                                    /\ ~Pv(a) => Written(od[a].param, W[a], o[a].done)["vel"]
                                                    = V(a, "vel")
  <2> DEFINE p == od[a].param
             k == o[a].done
             v == V(a, "vel")
             w == V(a, "acc")
             pv == modes[a] = "pv"
  <2>1. v \in Nat /\ w \in Nat BY <1>5
  <2>2. p \in Params BY <1>3, TypeParts DEF OdType
  <2>3. k \in 0..n[a] BY OutcomeFields
  <2>4. W[a] = ProfileWrites(pv, v, w) OBVIOUS
  <2>5. pv \in BOOLEAN /\ n[a] = IF pv THEN 1 ELSE 2 OBVIOUS
  <2> HIDE DEF p, k, v, w, V, W, pv
  <2>6. ProfileFits(p, Written(p, ProfileWrites(pv, v, w), k), pv, v, w, k = n[a])
    BY <2>1, <2>2, <2>3, <2>5, ProfileWritten
  <2> QED BY <2>4, <2>6 DEF p, k, v, w, pv, ProfileFits
<1>7. PICK w : w = W OBVIOUS
<1>8. StoredFits(R, o, w, {"vel", "acc"})
  <2>1. Stored(R, o, w) BY <1>1, <1>7 DEF Stored
  <2>2. R \in SUBSET Axes OBVIOUS
  <2> HIDE DEF W
  <2>3. \A a \in R : /\ Written(od[a].param, w[a], o[a].done) \in Params
                      /\ \A f \in Fields : f \notin {"vel", "acc"} =>
                           Written(od[a].param, w[a], o[a].done)[f] = od[a].param[f]
    BY <1>6, <1>7
  <2> QED BY <1>3, <2>1, <2>2, <2>3, StoredStep
<1>9. PICK rb : rb = read OBVIOUS
<1>10. \A a \in axes : /\ od'[a].param \in Params
                        /\ rb[a] = IF Mapped(a) THEN [od'[a].param EXCEPT !.vel = V(a, "vel")]
                                   ELSE od'[a].param
  BY <1>8, <1>9 DEF StoredFits
<1>11. \A a \in axes : /\ rb[a]["acc"] = od'[a].param["acc"]
                        /\ rb[a]["vel"] = IF Mapped(a) THEN V(a, "vel") ELSE od'[a].param["vel"]
  <2> HIDE DEF V, Mapped
  <2> QED BY <1>10 DEF Params, Fields
<1> HIDE DEF read
<1>12. FetchedFits(R, o, {"vel", "acc"}, rb)
  <2>1. Fetched(R, o, {"vel", "acc"}, rb) BY <1>1, <1>4, <1>9 DEF Fetched
  <2>2. \A a \in R : \A f \in {"vel", "acc"} : rb[a][f] \in Nat
    <3> HIDE DEF V, Mapped
    <3>1. \A a \in axes : V(a, "vel") \in Nat BY <1>5
    <3>2. \A a \in axes : od'[a].param["acc"] \in Nat /\ od'[a].param["vel"] \in Nat
      BY <1>10 DEF Params, Fields
    <3>3. \A a \in axes : rb[a]["acc"] \in Nat /\ rb[a]["vel"] \in Nat
      BY <1>11, <3>1, <3>2
    <3> QED BY <3>3
  <2>3. {"vel", "acc"} \in SUBSET Fields /\ R \in SUBSET Axes BY <1>4
  <2> QED BY <1>3, <2>1, <2>2, <2>3, FetchedStep
<1> HIDE DEF V, Mapped, W
<1>13. /\ RxType' /\ \A a \in Axes : rx'[a].mode = rx[a].mode
       /\ \A a \in Axes : a \notin R => rx'[a] = rx[a]
  <2>1. RxType BY <1>3, TypeParts
  <2>2. ASSUME NEW a \in Axes
        PROVE  rx'[a] \in [vel : Nat, mode : Modes] /\ rx'[a].mode = rx[a].mode
               /\ (a \notin R => rx'[a] = rx[a])
    <3>1. rx[a] \in [vel : Nat, mode : Modes] BY <2>1 DEF RxType
    <3>2. CASE rx'[a] = rx[a] BY <3>1, <3>2
    <3>3. CASE a \in R /\ rx'[a] = [rx[a] EXCEPT !.vel = V(a, "vel")] BY <1>5, <3>1, <3>3
    <3> QED BY <1>1, <3>2, <3>3
  <2>3. RxType' BY <1>1, <2>2 DEF RxType
  <2> QED BY <2>2, <2>3
<1>14. DoubtedProfileFits(R, o)
  <2>1. R \in SUBSET Axes OBVIOUS
  <2> QED BY <1>1, <1>3, <2>1, DoubtedProfileStep
<1>16. \A a \in R : \A f \in Fields :
         /\ Pv(a) => od'[a].param["vel"] = od[a].param["vel"]
         /\ o[a].done = n[a] => /\ od'[a].param["acc"] = V(a, "acc")
                                /\ ~Pv(a) => od'[a].param["vel"] = V(a, "vel")
  BY <1>6, <1>7, <1>8 DEF StoredFits
<1>17. \A a \in R : /\ Mapped(a) /\ o[a].read => rx'[a].vel = V(a, "vel")
                    /\ ~Mapped(a) => rx'[a] = rx[a]
  <2>1. RxType BY <1>3, TypeParts
  <2>2. \A a \in R : rx[a] \in [vel : Nat, mode : Modes] BY <2>1 DEF RxType
  <2> QED BY <1>1, <2>2
<1>18. CacheTellsTheTruth'
  <2>1. AllTrue BY TruthByField DEF ParameterInv
  <2>2. ASSUME NEW a \in Axes, NEW f \in Fields PROVE FieldTrue(a, f)'
    <3>1. FieldTrue(a, f) BY <1>3, <2>1 DEF AllTrue
    <3>2. CASE f \notin {"vel", "acc"}
      <4>1. cache'[a][f] = cache[a][f] BY <1>12, <3>2 DEF FetchedFits
      <4>2. Effective(a, f)' = Effective(a, f) BY <1>8, <3>2 DEF StoredFits, Effective
      <4>3. GroupOf(f) \in doubt'[a] <=> GroupOf(f) \in doubt[a] BY <1>14, <3>2 DEF DoubtedProfileFits
      <4> QED BY <3>1, <4>1, <4>2, <4>3 DEF FieldTrue
    <3>3. CASE f \in {"vel", "acc"} /\ a \notin R
      <4>1. cache'[a][f] = cache[a][f] BY <1>12, <3>3 DEF FetchedFits
      <4>2. od'[a] = od[a] /\ rx'[a] = rx[a] /\ doubt'[a] = doubt[a]
        BY <1>8, <1>13, <1>14, <3>3 DEF StoredFits, DoubtedProfileFits
      <4> QED BY <3>1, <4>1, <4>2 DEF FieldTrue, Effective
    <3>4. CASE f \in {"vel", "acc"} /\ a \in R /\ ~o[a].read
      <4>1. GroupOf(f) \in doubt'[a] BY <1>14, <3>4 DEF DoubtedProfileFits
      <4> QED BY <4>1 DEF FieldTrue
    <3>5. CASE f = "acc" /\ a \in R /\ o[a].read
      <4>1. cache'[a]["acc"] = od'[a].param["acc"] BY <1>11, <1>12, <3>5 DEF FetchedFits
      <4> QED BY <3>5, <4>1 DEF FieldTrue, Effective
    <3>6. CASE f = "vel" /\ a \in R /\ o[a].read
      <4>1. cache'[a]["vel"] = rb[a]["vel"] BY <1>12, <3>6 DEF FetchedFits
      <4>2. CASE Mapped(a)
        <5>1. cache'[a]["vel"] = rx'[a].vel BY <1>11, <1>17, <3>6, <4>1, <4>2
        <5> QED BY <3>6, <4>2, <5>1 DEF FieldTrue, Effective, Mapped
      <4>3. CASE ~VelocityMapped
        <5>1. cache'[a]["vel"] = od'[a].param["vel"] BY <1>11, <3>6, <4>1, <4>3 DEF Mapped
        <5> QED BY <3>6, <4>3, <5>1 DEF FieldTrue, Effective
      <4>4. CASE VelocityMapped /\ Pv(a)
        <5>1. cache'[a]["vel"] = od[a].param["vel"] /\ rx'[a] = rx[a]
          BY <1>11, <1>16, <1>17, <3>6, <4>1, <4>4 DEF Mapped
        <5>2. CASE od[a].param.vel # rx[a].vel
          <6>1. GroupOf(f) \in doubt'[a] BY <1>14, <3>6, <4>4, <5>2 DEF DoubtedProfileFits
          <6> QED BY <6>1 DEF FieldTrue
        <5>3. CASE od[a].param.vel = rx[a].vel
          BY <3>6, <4>4, <5>1, <5>3 DEF FieldTrue, Effective
        <5> QED BY <5>2, <5>3
      <4> QED BY <4>2, <4>3, <4>4 DEF Mapped
    <3> QED BY <3>2, <3>3, <3>4, <3>5, <3>6
  <2> QED BY <2>2, TruthByFieldPrime DEF AllTrue
<1>19. \A a \in Axes : od'[a].param.exp = od[a].param.exp
  <2>1. "exp" \in Fields /\ "exp" \notin {"vel", "acc"} BY DEF Fields
  <2> QED BY <1>8, <2>1 DEF StoredFits
<1>20. /\ AnswerType' /\ SuccessIsReal'
       /\ answer'.ok =>
            /\ answer'.axes = axes /\ answer'.set = api
            /\ \A a \in axes : \A f \in ProfileObjects :
                 \/ Effective(a, f)' = V(a, f)
                 \/ f = "vel" /\ Pv(a) /\ Effective(a, f)' = Effective(a, f)
  <2>1. CASE answer' = NoAnswer
    <3>1. ~answer'.ok BY <2>1 DEF NoAnswer
    <3> QED BY <2>1, <3>1, NoAnswerFits
  <2>2. CASE /\ answer' = [ok |-> TRUE, axes |-> axes, set |-> api] /\ R = axes
             /\ \A a \in axes : o[a].read /\ o[a].done = n[a]
    <3>1. ASSUME NEW a \in axes, NEW f \in ProfileObjects
          PROVE  \/ Effective(a, f)' = V(a, f)
                 \/ f = "vel" /\ Pv(a) /\ Effective(a, f)' = Effective(a, f)
      <4>0. "acc" \in Fields BY DEF Fields
      <4>1. CASE f = "acc"
        <5>1. od'[a].param["acc"] = V(a, "acc") BY <1>16, <2>2, <4>0
        <5> QED BY <4>1, <5>1 DEF Effective
      <4>2. CASE f = "vel" /\ Pv(a)
        <5>1. od'[a].param["vel"] = od[a].param["vel"] /\ rx'[a] = rx[a]
          BY <1>16, <1>17, <2>2, <4>0, <4>2 DEF Mapped
        <5> QED BY <4>2, <5>1 DEF Effective
      <4>3. CASE f = "vel" /\ ~Pv(a)
        <5>1. od'[a].param["vel"] = V(a, "vel") BY <1>16, <2>2, <4>0, <4>3
        <5>2. VelocityMapped => rx'[a].vel = V(a, "vel") BY <1>17, <2>2, <4>3 DEF Mapped
        <5> QED BY <4>3, <5>1, <5>2 DEF Effective
      <4> QED BY <1>4, <4>1, <4>2, <4>3
    <3>2. \A a \in axes : \A f \in DOMAIN api :
            \/ Effective(a, f)' = ToDrive(api[f], conv[a])
            \/ f = "vel" /\ modes'[a] = "pv"
      <4>1. \A a \in axes : \A f \in DOMAIN api :
              f \in ProfileObjects /\ V(a, f) = ToDrive(api[f], conv[a])
        BY <1>4, <1>5
      <4> QED BY <1>2, <3>1, <4>1
    <3>3. DOMAIN api \subseteq Fields BY <1>4, RequestFields
    <3>4. \A a \in Axes : "units" \in doubt[a] => "units" \in doubt'[a]
      <4>1. "exp" \in Fields \ {"vel", "acc"} BY DEF Fields
      <4> QED BY <1>14, <4>1, FieldGroups DEF DoubtedProfileFits
    <3>5. AnswerType' /\ SuccessIsReal'
      BY <1>3, <1>19, <2>2, <3>2, <3>3, <3>4, SuccessFits
    <3>6. answer'.axes = axes /\ answer'.set = api BY <2>2
    <3> QED BY <3>1, <3>5, <3>6
  <2> QED BY <1>1, <2>1, <2>2, AnsweredStep
<1>21. \A a \in Axes : cache'[a].exp = cache[a].exp /\ cache'[a].pos = cache[a].pos
                        /\ cache'[a].neg = cache[a].neg
  <2>1. {"exp", "pos", "neg"} \subseteq Fields \ {"vel", "acc"} BY DEF Fields
  <2> QED BY <1>12, <2>1 DEF FetchedFits
<1>22. CopiesFollowCache'
  <2>1. CopiesFollowCache BY DEF ParameterInv, ServerAgrees
  <2> QED BY <1>2, <1>3, <1>21, <2>1, LimitOfSame DEF CopiesFollowCache
<1>23. OtherTypes' /\ CtlType'
  <2>1. CtlType' BY <1>2, <1>3, TypeParts DEF CtlType
  <2>2. OtherTypes BY <1>3, TypeParts
  <2>3. invalid' \subseteq Axes /\ conv' \in [Axes -> Exps] BY <1>2, <2>2 DEF OtherTypes
  <2> QED BY <1>2, <1>3, <2>1, <2>3, ServesType
<1>24. UnitsFit' /\ FreshServer' /\ AnswerIsCurrent' /\ RunningIsValid' /\ ModeIsCommanded'
  <2>1. \A a \in Axes : od'[a].param.exp \in Exps BY <1>19 DEF ParameterInv, UnitsFit
  <2>2. \A a \in Axes : rx'[a].mode = rx[a].mode BY <1>13
  <2>3. phase' = "run" /\ UNCHANGED <<saved, invalid, modes>> BY <1>2, <1>3
  <2> QED BY <1>3, <2>1, <2>2, <2>3, RunningKept
<1>25. TypeOK'
  BY <1>8, <1>12, <1>13, <1>14, <1>20, <1>23, TypePartsPrime
     DEF StoredFits, FetchedFits, DoubtedProfileFits
<1>26. OthersKept
  <2>1. ProfileObjects \in Pairs BY DEF Pairs
  <2> QED BY <1>3, <1>20, <2>1, OthersFit DEF V
<1> QED BY <1>18, <1>20, <1>22, <1>24, <1>25, <1>26 DEF ParameterInv, ServerAgrees
-----------------------------------------------------------------------------
(* The other requests                                                      *)

LEMMA QuietKept ==
  ASSUME answer' = NoAnswer \/ served' = served
  PROVE  OthersKept
<1>1. CASE answer' = NoAnswer
  <2>1. answer'.ok = FALSE BY <1>1 DEF NoAnswer
  <2> QED BY <2>1 DEF OthersKept
<1>2. CASE served' = served BY <1>2 DEF OthersKept
<1> QED BY <1>1, <1>2

LEMMA TruthKept ==
  ASSUME ParameterInv, phase = "run",
         \A a \in Axes : \A f \in Fields : FieldTrue(a, f) => FieldTrue(a, f)'
  PROVE  CacheTellsTheTruth'
<1>1. AllTrue BY TruthByField DEF ParameterInv
<1> QED BY <1>1, TruthByFieldPrime DEF AllTrue

MoveDoubt(axes) ==
  doubt' = [a \in Axes |-> IF a \in axes /\ ~VelocityMapped
                           THEN doubt[a] \cup {"vel"} ELSE doubt[a]]

LEMMA MoveWithVelocityKeeps ==
  ASSUME ParameterInv, NEW axes \in SUBSET Axes, NEW v \in Values, MoveWithVelocity(axes, v)
  PROVE  ParameterInv' /\ OthersKept
<1>1. /\ Serves /\ UNCHANGED <<phase, od, saved, invalid, conv, ctl, modes, losses>>
      /\ answer' = NoAnswer
  BY DEF MoveWithVelocity
<1>2. TypeOK /\ phase = "run" BY <1>1 DEF ParameterInv, ServerAgrees, Serves
<1>3. /\ OdType /\ CacheType /\ CtlType /\ RxType /\ DoubtType /\ OtherTypes
      /\ v \in Nat
  BY <1>2, TypeParts, ParametersAssumption
<1>4. ASSUME NEW a \in Axes
      PROVE  /\ cache'[a] \in Params
             /\ \A f \in Fields : a \notin axes \/ f # "vel" => cache'[a][f] = cache[a][f]
  <2>1. cache[a] \in Params /\ conv[a] \in Exps BY <1>3 DEF CacheType, OtherTypes
  <2>2. CASE a \in axes
    <3> DEFINE w == ToDrive(v, conv[a])
    <3>1. w \in Nat BY <1>3, <2>1, ToDriveType
    <3>2. cache'[a] = [cache[a] EXCEPT !.vel = w] BY <2>2 DEF MoveWithVelocity
    <3> HIDE DEF w
    <3> QED BY <2>1, <2>2, <3>1, <3>2 DEF Params, Fields
  <2>3. CASE a \notin axes
    <3>1. cache'[a] = cache[a] BY <2>3 DEF MoveWithVelocity
    <3> QED BY <2>1, <3>1
  <2> QED BY <2>2, <2>3
<1>5. CacheType'
  <2>1. cache' = [a \in Axes |-> cache'[a]] BY DEF MoveWithVelocity
  <2> QED BY <1>4, <2>1 DEF CacheType
<1>6. ASSUME NEW a \in Axes
      PROVE  /\ rx'[a] \in [vel : Nat, mode : Modes] /\ rx'[a].mode = rx[a].mode
             /\ a \notin axes => rx'[a] = rx[a]
             /\ a \in axes /\ VelocityMapped => rx'[a].vel = cache'[a].vel
  <2>1. rx[a] \in [vel : Nat, mode : Modes] BY <1>3 DEF RxType
  <2>2. cache'[a].vel \in Nat BY <1>4 DEF Params, Fields
  <2>3. CASE a \in axes /\ VelocityMapped
    <3>1. rx'[a] = [rx[a] EXCEPT !.vel = cache'[a].vel] BY <2>3 DEF MoveWithVelocity, Seeded
    <3> QED BY <2>1, <2>2, <2>3, <3>1
  <2>4. CASE ~(a \in axes /\ VelocityMapped)
    <3>1. rx'[a] = rx[a] BY <2>4 DEF MoveWithVelocity, Seeded
    <3> QED BY <2>1, <2>4, <3>1
  <2> QED BY <2>3, <2>4
<1>7. RxType'
  <2>1. rx' = [a \in Axes |-> rx'[a]] BY DEF MoveWithVelocity
  <2> QED BY <1>6, <2>1 DEF RxType
<1>8. ASSUME NEW a \in Axes
      PROVE  /\ doubt[a] \subseteq doubt'[a] /\ doubt'[a] \subseteq Groups
             /\ a \in axes /\ ~VelocityMapped => "vel" \in doubt'[a]
  <2>1. MoveDoubt(axes) BY DEF MoveWithVelocity, MoveDoubt
  <2>2. doubt[a] \subseteq Groups /\ "vel" \in Groups BY <1>3 DEF DoubtType, Groups
  <2>3. CASE a \in axes /\ ~VelocityMapped
    <3>1. doubt'[a] = doubt[a] \cup {"vel"} BY <2>1, <2>3 DEF MoveDoubt
    <3> QED BY <2>2, <3>1
  <2>4. CASE ~(a \in axes /\ ~VelocityMapped)
    <3>1. doubt'[a] = doubt[a] BY <2>1, <2>4 DEF MoveDoubt
    <3> QED BY <2>2, <2>4, <3>1
  <2> QED BY <2>3, <2>4
<1>9. DoubtType'
  <2>1. doubt' = [a \in Axes |-> doubt'[a]] BY DEF MoveWithVelocity
  <2> QED BY <1>8, <2>1 DEF DoubtType
<1>10. CacheTellsTheTruth'
  <2>1. ASSUME NEW a \in Axes, NEW f \in Fields, FieldTrue(a, f) PROVE FieldTrue(a, f)'
    <3>1. CASE a \notin axes \/ f # "vel"
      <4>1. cache'[a][f] = cache[a][f] BY <1>4, <3>1
      <4>2. Effective(a, f)' = Effective(a, f) BY <1>1, <1>6, <3>1 DEF Effective
      <4> QED BY <1>8, <2>1, <4>1, <4>2 DEF FieldTrue
    <3>2. CASE a \in axes /\ f = "vel" /\ VelocityMapped
      BY <1>6, <3>2 DEF FieldTrue, Effective
    <3>3. CASE a \in axes /\ f = "vel" /\ ~VelocityMapped
      BY <1>8, <3>3, FieldGroups DEF FieldTrue
    <3> QED BY <3>1, <3>2, <3>3
  <2> QED BY <1>2, <2>1, TruthKept
<1>11. CopiesFollowCache'
  <2>1. CopiesFollowCache BY DEF ParameterInv, ServerAgrees
  <2>2. \A a \in Axes : cache'[a].exp = cache[a].exp /\ cache'[a].pos = cache[a].pos
                         /\ cache'[a].neg = cache[a].neg
    BY <1>4 DEF Fields
  <2> QED BY <1>1, <1>2, <2>1, <2>2, LimitOfSame DEF CopiesFollowCache
<1>12. AnswerType' /\ SuccessIsReal' BY <1>1, NoAnswerFits
<1>13. OtherTypes' /\ OdType' /\ CtlType'
  <2>1. OdType' /\ CtlType' BY <1>1, <1>3 DEF CtlType, OdType
  <2>2. invalid' \subseteq Axes /\ conv' \in [Axes -> Exps] BY <1>1, <1>3 DEF OtherTypes
  <2> QED BY <1>1, <1>2, <2>1, <2>2, ServesType
<1>14. TypeOK' BY <1>5, <1>7, <1>9, <1>12, <1>13, TypePartsPrime
<1>15. UnitsFit' /\ FreshServer' /\ AnswerIsCurrent' /\ RunningIsValid' /\ ModeIsCommanded'
  <2>1. \A a \in Axes : od'[a].param.exp \in Exps BY <1>1 DEF ParameterInv, UnitsFit
  <2>2. \A a \in Axes : rx'[a].mode = rx[a].mode BY <1>6
  <2>3. phase' = "run" /\ UNCHANGED <<saved, invalid, modes>> BY <1>1, <1>2
  <2> QED BY <1>2, <2>1, <2>2, <2>3, RunningKept
<1> QED BY <1>1, <1>10, <1>11, <1>12, <1>14, <1>15, QuietKept DEF ParameterInv, ServerAgrees

LEMMA WriteParameterKeeps ==
  ASSUME ParameterInv, NEW a \in Axes, NEW f \in Fields, NEW v \in Nat,
         f = "exp" => v \in Exps, NEW done \in BOOLEAN, WriteParameter(a, f, v, done)
  PROVE  ParameterInv' /\ OthersKept
<1>1. /\ Serves /\ UNCHANGED <<phase, saved, cache, invalid, conv, ctl, rx, modes, losses>>
      /\ answer' = NoAnswer /\ doubt' = [doubt EXCEPT ![a] = @ \cup {GroupOf(f)}]
      /\ od' = IF done THEN [od EXCEPT ![a].param[f] = v] ELSE od
  BY DEF WriteParameter
<1>2. TypeOK /\ phase = "run" BY <1>1 DEF ParameterInv, ServerAgrees, Serves
<1>3. OdType /\ CacheType /\ CtlType /\ RxType /\ DoubtType /\ OtherTypes
  BY <1>2, TypeParts
<1>4. ASSUME NEW b \in Axes
      PROVE  /\ od'[b] \in [param : Params, mode : Modes]
             /\ \A h \in Fields : od'[b].param[h] = od[b].param[h] \/ (b = a /\ h = f)
             /\ od'[b].param.exp \in Exps
  <2>1. od[b] \in [param : Params, mode : Modes] BY <1>3 DEF OdType
  <2>2. od[b].param.exp \in Exps BY DEF ParameterInv, UnitsFit
  <2>3. CASE done /\ b = a
    <3>1. od'[a] = [od[a] EXCEPT !.param = [od[a].param EXCEPT ![f] = v]]
      BY <1>1, <1>3, <2>3 DEF OdType
    <3> DEFINE q == [od[a].param EXCEPT ![f] = v]
    <3>2. q \in Params /\ (\A h \in Fields : h # f => q[h] = od[a].param[h]) /\ q[f] = v
      BY <2>1, <2>3 DEF Params
    <3>3. od'[a] = [od[a] EXCEPT !.param = q] BY <3>1
    <3> HIDE DEF q
    <3>4. od'[a] \in [param : Params, mode : Modes] /\ od'[a].param = q BY <2>1, <2>3, <3>2, <3>3
    <3>5. q["exp"] \in Exps BY <2>2, <2>3, <3>2 DEF Fields
    <3> QED BY <2>3, <3>2, <3>4, <3>5
  <2>4. CASE ~(done /\ b = a)
    <3>1. od'[b] = od[b] BY <1>1, <1>3, <2>4 DEF OdType
    <3> QED BY <2>1, <2>2, <3>1
  <2> QED BY <2>3, <2>4
<1>5. OdType'
  <2>1. od' = [b \in Axes |-> od'[b]]
    <3>1. CASE done BY <1>1, <1>3, <3>1 DEF OdType
    <3>2. CASE ~done BY <1>1, <1>3, <3>2 DEF OdType
    <3> QED BY <3>1, <3>2
  <2> QED BY <1>4, <2>1 DEF OdType
<1>6. GroupOf(f) \in Groups BY FieldGroups DEF Fields, Groups
<1>7. /\ DoubtType' /\ GroupOf(f) \in doubt'[a]
      /\ \A b \in Axes : doubt[b] \subseteq doubt'[b]
  BY <1>1, <1>3, <1>6 DEF DoubtType
<1>8. CacheTellsTheTruth'
  <2>1. ASSUME NEW b \in Axes, NEW h \in Fields, FieldTrue(b, h) PROVE FieldTrue(b, h)'
    <3>1. CASE b = a /\ h = f BY <1>7, <3>1 DEF FieldTrue
    <3>2. CASE ~(b = a /\ h = f)
      <4>1. Effective(b, h)' = Effective(b, h) BY <1>1, <1>4, <3>2 DEF Effective
      <4> QED BY <1>1, <1>7, <2>1, <4>1 DEF FieldTrue
    <3> QED BY <3>1, <3>2
  <2> QED BY <1>2, <2>1, TruthKept
<1>9. CopiesFollowCache' BY <1>1, <1>2 DEF ParameterInv, ServerAgrees, CopiesFollowCache
<1>10. AnswerType' /\ SuccessIsReal' BY <1>1, NoAnswerFits
<1>11. OtherTypes' /\ CacheType' /\ CtlType' /\ RxType'
  <2>1. CacheType' /\ CtlType' /\ RxType' BY <1>1, <1>3 DEF CacheType, CtlType, RxType
  <2>2. invalid' \subseteq Axes /\ conv' \in [Axes -> Exps] BY <1>1, <1>3 DEF OtherTypes
  <2> QED BY <1>1, <1>2, <2>1, <2>2, ServesType
<1>12. TypeOK' BY <1>5, <1>7, <1>10, <1>11, TypePartsPrime
<1>13. UnitsFit' /\ FreshServer' /\ AnswerIsCurrent' /\ RunningIsValid' /\ ModeIsCommanded'
  BY <1>1, <1>2, <1>4, RunningKept
<1> QED BY <1>1, <1>8, <1>9, <1>10, <1>12, <1>13, QuietKept DEF ParameterInv, ServerAgrees

LEMMA SaveParametersKeeps ==
  ASSUME ParameterInv, NEW a \in Axes, SaveParameters(a)
  PROVE  ParameterInv' /\ OthersKept
<1>1. /\ Serves /\ answer' = NoAnswer /\ saved' = [saved EXCEPT ![a] = od[a].param]
      /\ UNCHANGED <<phase, od, cache, invalid, conv, ctl, rx, modes, doubt, losses>>
  BY DEF SaveParameters
<1>2. TypeOK /\ phase = "run" BY <1>1 DEF ParameterInv, ServerAgrees, Serves
<1>3. OdType /\ CacheType /\ CtlType /\ RxType /\ DoubtType /\ OtherTypes
  BY <1>2, TypeParts
<1>4. OdType' /\ CacheType' /\ CtlType' /\ RxType' /\ DoubtType'
  BY <1>1, <1>3 DEF OdType, CacheType, CtlType, RxType, DoubtType
<1>5. OtherTypes'
  <2>1. served' \in 0..MaxRequests
    <3>1. served \in Nat /\ MaxRequests \in Nat /\ served < MaxRequests /\ served' = served + 1
      BY <1>1, <1>3, ParametersAssumption DEF OtherTypes, Serves
    <3> QED BY <3>1
  <2>2. saved' \in [Axes -> Params]
    <3>1. od[a].param \in Params BY <1>3 DEF OdType
    <3> QED BY <1>1, <1>3, <3>1 DEF OtherTypes
  <2> QED BY <1>1, <1>3, <2>1, <2>2 DEF OtherTypes
<1>6. UnitsFit'
  <2>1. \A b \in Axes : saved'[b] = IF b = a THEN od[a].param ELSE saved[b]
    BY <1>1, <1>3 DEF OtherTypes
  <2> QED BY <1>1, <2>1 DEF ParameterInv, UnitsFit
<1>7. FreshServer' /\ RunningIsValid' /\ ModeIsCommanded' /\ CopiesFollowCache'
  BY <1>1, <1>2 DEF ParameterInv, ServerAgrees, FreshServer, RunningIsValid, ModeIsCommanded,
    CopiesFollowCache
<1>8. CacheTellsTheTruth'
  <2>1. ASSUME NEW b \in Axes, NEW h \in Fields, FieldTrue(b, h) PROVE FieldTrue(b, h)'
    BY <1>1, <2>1 DEF FieldTrue, Effective
  <2> QED BY <1>2, <2>1, TruthKept
<1>9. AnswerType' /\ AnswerIsCurrent' /\ SuccessIsReal' BY <1>1, NoAnswerFits
<1>10. TypeOK' BY <1>4, <1>5, <1>9, TypePartsPrime
<1> QED BY <1>1, <1>6, <1>7, <1>8, <1>9, <1>10, QuietKept DEF ParameterInv, ServerAgrees
-----------------------------------------------------------------------------
(* The cyclic exchange                                                     *)

Drive == [param : Params, mode : Modes]

\* e is what the exchange makes of the drive d with the RxPDO r.
ExchangedFits(e, d, r) ==
  /\ e \in Drive /\ e.mode = r.mode
  /\ \A f \in Fields : f # "vel" \/ ~VelocityMapped => e.param[f] = d.param[f]
  /\ VelocityMapped => e.param["vel"] = r.vel

LEMMA ExchangedStep ==
  ASSUME NEW o \in [Axes -> Drive], NEW r \in [Axes -> [vel : Nat, mode : Modes]]
  PROVE  /\ Exchanged(o, r) \in [Axes -> Drive]
         /\ \A a \in Axes : ExchangedFits(Exchanged(o, r)[a], o[a], r[a])
<1>1. ASSUME NEW a \in Axes
      PROVE  ExchangedFits(Exchanged(o, r)[a], o[a], r[a])
  <2>1. o[a] \in Drive /\ o[a].param \in Params /\ r[a].vel \in Nat /\ r[a].mode \in Modes
    BY DEF Drive
  <2>2. CASE VelocityMapped
    <3> DEFINE q == [o[a].param EXCEPT !.vel = r[a].vel]
    <3>1. Exchanged(o, r)[a] = [param |-> q, mode |-> r[a].mode] BY <2>2 DEF Exchanged
    <3>2. q \in Params /\ (\A f \in Fields : f # "vel" => q[f] = o[a].param[f])
          /\ q["vel"] = r[a].vel
      BY <2>1 DEF Params, Fields
    <3> HIDE DEF q
    <3> QED BY <2>1, <2>2, <3>1, <3>2 DEF ExchangedFits, Drive
  <2>3. CASE ~VelocityMapped
    <3>1. Exchanged(o, r)[a] = [param |-> o[a].param, mode |-> r[a].mode]
      BY <2>3 DEF Exchanged
    <3> QED BY <2>1, <2>3, <3>1 DEF ExchangedFits, Drive
  <2> QED BY <2>2, <2>3
<1>2. Exchanged(o, r) = [a \in Axes |-> Exchanged(o, r)[a]] BY DEF Exchanged
<1> QED BY <1>1, <1>2 DEF ExchangedFits

LEMMA CycleKeeps ==
  ASSUME ParameterInv, Cycle
  PROVE  ParameterInv' /\ OthersKept
<1>1. /\ phase = "run" /\ od' = Exchanged(od, rx)
      /\ UNCHANGED <<phase, saved, cache, invalid, conv, ctl, rx, modes, doubt,
                     answer, served, losses>>
  BY DEF Cycle
<1>2. /\ OdType /\ CacheType /\ CtlType /\ RxType /\ DoubtType /\ AnswerType /\ OtherTypes
  BY TypeParts DEF ParameterInv, ServerAgrees
<1>3. od' \in [Axes -> Drive] /\ \A a \in Axes : ExchangedFits(od'[a], od[a], rx[a])
  BY <1>1, <1>2, ExchangedStep DEF OdType, RxType, Drive
<1>4. \A a \in Axes : od'[a].param.exp = od[a].param.exp
  <2>1. "exp" \in Fields /\ "exp" # "vel" BY DEF Fields
  <2> QED BY <1>3, <2>1 DEF ExchangedFits
<1>5. ASSUME NEW a \in Axes, NEW f \in Fields PROVE Effective(a, f)' = Effective(a, f)
  BY <1>1, <1>3 DEF Effective, ExchangedFits
<1>6. TypeOK'
  <2>1. OdType' BY <1>3 DEF OdType, Drive
  <2>2. CacheType' /\ CtlType' /\ RxType' /\ DoubtType' /\ AnswerType' /\ OtherTypes'
    BY <1>1, <1>2 DEF CacheType, CtlType, RxType, DoubtType, AnswerType, OtherTypes
  <2> QED BY <2>1, <2>2, TypePartsPrime
<1>7. CacheTellsTheTruth'
  <2>1. ASSUME NEW a \in Axes, NEW f \in Fields, FieldTrue(a, f) PROVE FieldTrue(a, f)'
    BY <1>1, <1>5, <2>1 DEF FieldTrue
  <2> QED BY <1>1, <2>1, TruthKept
<1>8. SuccessIsReal'
  <2>1. \A a \in answer.axes : \A f \in DOMAIN answer.set : a \in Axes /\ f \in Fields
    BY <1>2 DEF AnswerType
  <2> QED BY <1>1, <1>4, <1>5, <2>1 DEF ParameterInv, SuccessIsReal
<1>9. CopiesFollowCache' BY <1>1 DEF ParameterInv, ServerAgrees, CopiesFollowCache
<1>10. UnitsFit' /\ FreshServer' /\ AnswerIsCurrent' /\ RunningIsValid' /\ ModeIsCommanded'
  <2>1. \A a \in Axes : od'[a].param.exp \in Exps BY <1>4 DEF ParameterInv, UnitsFit
  <2> QED BY <1>1, <2>1, RunningKept
<1> QED BY <1>1, <1>6, <1>7, <1>8, <1>9, <1>10, QuietKept DEF ParameterInv, ServerAgrees

LEMMA SetModeKeeps ==
  ASSUME ParameterInv, NEW axes \in SUBSET Axes, NEW m \in Modes, NEW fails,
         SetMode(axes, m, fails)
  PROVE  ParameterInv' /\ OthersKept
<1>1. /\ Serves /\ answer' = NoAnswer /\ rx' = RxMode(axes, m, fails)
      /\ modes' = [a \in Axes |-> IF a \in {b \in axes : fails[b] = "none"} THEN m ELSE modes[a]]
      /\ UNCHANGED <<phase, saved, cache, invalid, conv, ctl, doubt, losses>>
  BY DEF SetMode
<1>2. phase = "run" BY <1>1 DEF Serves
<1>3. /\ OdType /\ CacheType /\ CtlType /\ RxType /\ DoubtType /\ OtherTypes
  BY TypeParts DEF ParameterInv, ServerAgrees
<1>4. ASSUME NEW a \in Axes
      PROVE  /\ rx'[a] \in [vel : Nat, mode : Modes] /\ rx'[a].vel = rx[a].vel
             /\ modes'[a] \in Modes /\ rx'[a].mode = modes'[a]
  <2>1. rx[a] \in [vel : Nat, mode : Modes] /\ modes[a] \in Modes BY <1>3 DEF RxType, OtherTypes
  <2>2. rx[a].mode = modes[a] BY <1>2 DEF ParameterInv, ServerAgrees, ModeIsCommanded
  <2>3. CASE a \in axes /\ fails[a] = "none"
    <3>1. rx'[a] = [rx[a] EXCEPT !.mode = m] /\ modes'[a] = m BY <1>1, <2>3 DEF RxMode
    <3> QED BY <2>1, <3>1
  <2>4. CASE ~(a \in axes /\ fails[a] = "none")
    <3>1. rx'[a] = rx[a] /\ modes'[a] = modes[a] BY <1>1, <2>4 DEF RxMode
    <3> QED BY <2>1, <2>2, <3>1
  <2> QED BY <2>3, <2>4
<1>5. RxType' /\ modes' \in [Axes -> Modes]
  <2>1. rx' = [a \in Axes |-> rx'[a]] BY <1>1 DEF RxMode
  <2>2. RxType' BY <1>4, <2>1 DEF RxType
  <2> QED BY <1>1, <1>4, <2>2
<1>6. ASSUME NEW a \in Axes
      PROVE  /\ od'[a] \in Drive
             /\ \A f \in Fields : f # "vel" \/ ~VelocityMapped => od'[a].param[f] = od[a].param[f]
  <2> DEFINE ok == {b \in axes : fails[b] = "none"}
             left == {b \in axes : fails[b] = "after" /\ \A c \in ok : c < b}
             cycled == IF ok = {} THEN od ELSE Exchanged(od, RxMode(axes, m, fails))
  <2>1. od'[a] = IF a \in left THEN [cycled[a] EXCEPT !.mode = m] ELSE cycled[a]
    BY DEF SetMode
  <2>2. /\ cycled[a] \in Drive
        /\ \A f \in Fields : f # "vel" \/ ~VelocityMapped => cycled[a].param[f] = od[a].param[f]
    <3>1. CASE ok = {} BY <1>3, <3>1 DEF OdType, Drive
    <3>2. CASE ok # {}
      <4>1. cycled = Exchanged(od, rx') BY <1>1, <3>2
      <4>2. rx' \in [Axes -> [vel : Nat, mode : Modes]] BY <1>5 DEF RxType
      <4>3. od \in [Axes -> Drive] BY <1>3 DEF OdType, Drive
      <4>4. ExchangedFits(Exchanged(od, rx')[a], od[a], rx'[a]) BY <4>2, <4>3, ExchangedStep
      <4> HIDE DEF cycled
      <4> QED BY <4>1, <4>4 DEF ExchangedFits
    <3> QED BY <3>1, <3>2
  <2> HIDE DEF ok, left, cycled
  <2>3. [cycled[a] EXCEPT !.mode = m] \in Drive
        /\ [cycled[a] EXCEPT !.mode = m].param = cycled[a].param
    BY <2>2 DEF Drive
  <2> QED BY <2>1, <2>2, <2>3
<1>7. OdType'
  <2>1. od' = [a \in Axes |-> od'[a]] BY DEF SetMode
  <2> QED BY <1>6, <2>1 DEF OdType, Drive
<1>8. CacheTellsTheTruth'
  <2>1. ASSUME NEW a \in Axes, NEW f \in Fields, FieldTrue(a, f) PROVE FieldTrue(a, f)'
    <3>1. Effective(a, f)' = Effective(a, f) BY <1>4, <1>6 DEF Effective
    <3> QED BY <1>1, <2>1, <3>1 DEF FieldTrue
  <2> QED BY <1>2, <2>1, TruthKept
<1>9. CopiesFollowCache' BY <1>1, <1>2 DEF ParameterInv, ServerAgrees, CopiesFollowCache
<1>10. AnswerType' /\ AnswerIsCurrent' /\ SuccessIsReal' BY <1>1, NoAnswerFits
<1>11. CacheType' /\ CtlType' /\ DoubtType' /\ OtherTypes'
  <2>1. CacheType' /\ CtlType' /\ DoubtType' BY <1>1, <1>3 DEF CacheType, CtlType, DoubtType
  <2>2. served' \in 0..MaxRequests
    <3>1. served \in Nat /\ MaxRequests \in Nat /\ served < MaxRequests /\ served' = served + 1
      BY <1>1, <1>3, ParametersAssumption DEF OtherTypes, Serves
    <3> QED BY <3>1
  <2> QED BY <1>1, <1>3, <1>5, <2>1, <2>2 DEF OtherTypes
<1>12. TypeOK' BY <1>5, <1>7, <1>10, <1>11, TypePartsPrime
<1>13. UnitsFit'
  <2>1. "exp" \in Fields /\ "exp" # "vel" BY DEF Fields
  <2>2. \A a \in Axes : od'[a].param.exp = od[a].param.exp BY <1>6, <2>1
  <2> QED BY <1>1, <2>2 DEF ParameterInv, UnitsFit
<1>14. FreshServer' /\ RunningIsValid' BY <1>1, <1>2
  DEF ParameterInv, ServerAgrees, FreshServer, RunningIsValid
<1>15. ModeIsCommanded' BY <1>4 DEF ModeIsCommanded
<1> QED BY <1>1, <1>8, <1>9, <1>10, <1>12, <1>13, <1>14, <1>15, QuietKept
  DEF ParameterInv, ServerAgrees
-----------------------------------------------------------------------------
(* Losing the bus                                                          *)

\* Without a running bus little is claimed.
LEMMA NotRunning ==
  ASSUME ParameterInv, phase' \in {"failed", "lost"},
         answer' = NoAnswer \/ (answer' = answer /\ phase # "run")
  PROVE  /\ CopiesFollowCache' /\ RunningIsValid' /\ ModeIsCommanded' /\ FreshServer'
         /\ CacheTellsTheTruth' /\ AnswerType' /\ AnswerIsCurrent' /\ SuccessIsReal'
<1>1. CopiesFollowCache' /\ RunningIsValid' /\ ModeIsCommanded' /\ FreshServer'
      /\ CacheTellsTheTruth'
  BY DEF CopiesFollowCache, RunningIsValid, ModeIsCommanded, FreshServer, CacheTellsTheTruth
<1>2. CASE answer' = NoAnswer BY <1>1, <1>2, NoAnswerFits
<1>3. CASE answer' = answer /\ phase # "run"
  <2>1. ~answer'.ok BY <1>3 DEF ParameterInv, AnswerIsCurrent
  <2>2. AnswerType BY TypeParts DEF ParameterInv, ServerAgrees
  <2>3. AnswerType' BY <1>3, <2>2 DEF AnswerType
  <2>4. AnswerIsCurrent' /\ SuccessIsReal' BY <2>1 DEF AnswerIsCurrent, SuccessIsReal
  <2> QED BY <1>1, <2>3, <2>4
<1> QED BY <1>2, <1>3

LEMMA RestoredStep ==
  ASSUME ParameterInv, NEW a \in Axes
  PROVE  /\ Restored(a) \in [Axes -> Drive]
         /\ \A b \in Axes : Restored(a)[b].param.exp \in Exps
         /\ \A b \in Axes : b # a => Restored(a)[b] = od[b]
<1>1. OdType /\ OtherTypes BY TypeParts DEF ParameterInv, ServerAgrees
<1>2. saved[a] \in Params /\ "pp" \in Modes BY <1>1 DEF OtherTypes, Modes
<1>3. [param |-> saved[a], mode |-> "pp"] \in Drive BY <1>2 DEF Drive
<1>4. od \in [Axes -> Drive] BY <1>1 DEF OdType, Drive
<1>5. Restored(a) \in [Axes -> Drive] BY <1>3, <1>4 DEF Restored
<1>6. \A b \in Axes : Restored(a)[b] = IF b = a THEN [param |-> saved[a], mode |-> "pp"] ELSE od[b]
  BY <1>4 DEF Restored
<1>7. \A b \in Axes : Restored(a)[b].param.exp \in Exps
  BY <1>6 DEF ParameterInv, UnitsFit
<1> QED BY <1>5, <1>6, <1>7

LEMMA LosesPowerKeeps ==
  ASSUME ParameterInv, NEW a \in Axes, LosesPower(a)
  PROVE  ParameterInv' /\ OthersKept
<1>1. /\ phase' = "lost" /\ losses < MaxLosses /\ losses' = losses + 1 /\ od' = Restored(a)
      /\ doubt' = [doubt EXCEPT ![a] = Groups] /\ answer' = NoAnswer
      /\ UNCHANGED <<saved, cache, invalid, conv, ctl, rx, modes, served>>
  BY DEF LosesPower
<1>2. /\ OdType /\ CacheType /\ CtlType /\ RxType /\ DoubtType /\ OtherTypes
  BY TypeParts DEF ParameterInv, ServerAgrees
<1>3. OdType' /\ UnitsFit'
  <2>1. OdType' BY <1>1, RestoredStep DEF OdType, Drive
  <2>2. UnitsFit' BY <1>1, RestoredStep DEF ParameterInv, UnitsFit
  <2> QED BY <2>1, <2>2
<1>4. CacheType' /\ CtlType' /\ RxType' /\ DoubtType'
  BY <1>1, <1>2 DEF CacheType, CtlType, RxType, DoubtType
<1>5. OtherTypes'
  <2>1. losses' \in 0..MaxLosses
    <3>1. losses \in Nat /\ MaxLosses \in Nat BY <1>2, ParametersAssumption DEF OtherTypes
    <3> QED BY <1>1, <3>1
  <2> QED BY <1>1, <1>2, <2>1 DEF OtherTypes
<1>6. /\ CopiesFollowCache' /\ RunningIsValid' /\ ModeIsCommanded' /\ FreshServer'
      /\ CacheTellsTheTruth' /\ AnswerType' /\ AnswerIsCurrent' /\ SuccessIsReal'
  BY <1>1, NotRunning
<1>7. TypeOK' BY <1>3, <1>4, <1>5, <1>6, TypePartsPrime
<1> QED BY <1>1, <1>3, <1>6, <1>7, QuietKept DEF ParameterInv, ServerAgrees

LEMMA RestartFailsKeeps ==
  ASSUME ParameterInv, NEW a \in Axes, RestartFails(a)
  PROVE  ParameterInv' /\ OthersKept
<1>1. /\ Serves /\ phase' = "lost" /\ od' = Restored(a)
      /\ doubt' = [doubt EXCEPT ![a] = Groups] /\ answer' = NoAnswer
      /\ invalid' = invalid \cup {a}
      /\ UNCHANGED <<saved, cache, conv, ctl, rx, modes, losses>>
  BY DEF RestartFails
<1>2. /\ OdType /\ CacheType /\ CtlType /\ RxType /\ DoubtType /\ OtherTypes
  BY TypeParts DEF ParameterInv, ServerAgrees
<1>3. OdType' /\ UnitsFit'
  <2>1. OdType' BY <1>1, RestoredStep DEF OdType, Drive
  <2>2. UnitsFit' BY <1>1, RestoredStep DEF ParameterInv, UnitsFit
  <2> QED BY <2>1, <2>2
<1>4. CacheType' /\ CtlType' /\ RxType' /\ DoubtType'
  BY <1>1, <1>2 DEF CacheType, CtlType, RxType, DoubtType
<1>5. OtherTypes'
  <2>1. invalid' \subseteq Axes /\ conv' \in [Axes -> Exps] BY <1>1, <1>2 DEF OtherTypes
  <2>2. TypeOK BY DEF ParameterInv, ServerAgrees
  <2> QED BY <1>1, <2>1, <2>2, ServesType
<1>6. /\ CopiesFollowCache' /\ RunningIsValid' /\ ModeIsCommanded' /\ FreshServer'
      /\ CacheTellsTheTruth' /\ AnswerType' /\ AnswerIsCurrent' /\ SuccessIsReal'
  BY <1>1, NotRunning
<1>7. TypeOK' BY <1>3, <1>4, <1>5, <1>6, TypePartsPrime
<1> QED BY <1>1, <1>3, <1>6, <1>7, QuietKept DEF ParameterInv, ServerAgrees

LEMMA StartFailsKeeps ==
  ASSUME ParameterInv, StartFails
  PROVE  ParameterInv' /\ OthersKept
<1>1. /\ phase = "start" /\ phase' = "failed"
      /\ UNCHANGED <<od, saved, cache, invalid, conv, ctl, rx, modes, doubt,
                     answer, served, losses>>
  BY DEF StartFails
<1>2. /\ CopiesFollowCache' /\ RunningIsValid' /\ ModeIsCommanded' /\ FreshServer'
      /\ CacheTellsTheTruth' /\ AnswerType' /\ AnswerIsCurrent' /\ SuccessIsReal'
  BY <1>1, NotRunning
<1>3. TypeOK' BY <1>1 DEF ParameterInv, ServerAgrees, TypeOK
<1>4. UnitsFit' BY <1>1 DEF ParameterInv, UnitsFit
<1> QED BY <1>1, <1>2, <1>3, <1>4, QuietKept DEF ParameterInv, ServerAgrees
-----------------------------------------------------------------------------
(* Reading the drives again                                                *)

RefreshedFits(R, bad) ==
  /\ CacheType' /\ CtlType' /\ DoubtType' /\ conv' \in [Axes -> Exps]
  /\ \A a \in Axes : a \notin R =>
       cache'[a] = cache[a] /\ conv'[a] = conv[a] /\ ctl'[a] = ctl[a] /\ doubt'[a] = Clobbered(a)
  /\ \A a \in R : conv'[a] = cache'[a].exp /\ ctl'[a] = LimitOf(cache'[a], cache'[a].exp)
  /\ \A a \in R : \A f \in Fields :
       GroupOf(f) \in doubt'[a] \/ cache'[a][f] = od'[a].param[f]

LEMMA RefreshedStep ==
  ASSUME TypeOK, NEW R \in SUBSET Axes, NEW bad, Refreshed(R, bad), OdType',
         \A a \in Axes : od'[a].param.exp \in Exps
  PROVE  RefreshedFits(R, bad)
<1>1. CacheType /\ CtlType /\ DoubtType /\ conv \in [Axes -> Exps] BY TypeParts DEF OtherTypes
<1>2. DefaultExp \in Exps /\ Exps \subseteq Nat BY ParametersAssumption DEF Exps
<1>3. ASSUME NEW a \in Axes, a \in R
      PROVE  /\ cache'[a] \in Params /\ cache'[a].exp \in Exps
             /\ conv'[a] = cache'[a].exp /\ ctl'[a] = LimitOf(cache'[a], cache'[a].exp)
             /\ doubt'[a] \subseteq Groups
             /\ \A f \in Fields : GroupOf(f) \in doubt'[a] \/ cache'[a][f] = od'[a].param[f]
  <2>1. conv'[a] = cache'[a].exp /\ ctl'[a] = LimitOf(cache'[a], cache'[a].exp)
    BY <1>3 DEF Refreshed
  <2>2. od'[a].param \in Params BY DEF OdType
  <2>3. CASE a \in bad
    <3>1. cache'[a] = [od'[a].param EXCEPT !.exp = DefaultExp] /\ doubt'[a] = {"units"}
      BY <1>3, <2>3 DEF Refreshed, RefreshRead
    <3>2. \A f \in Fields : f # "exp" => cache'[a][f] = od'[a].param[f]
      BY <2>2, <3>1 DEF Params
    <3>3. cache'[a] \in Params /\ cache'[a].exp = DefaultExp
      BY <1>2, <2>2, <3>1 DEF Params, Fields
    <3>4. GroupOf("exp") \in doubt'[a] /\ doubt'[a] \subseteq Groups
      BY <3>1, FieldGroups DEF Groups
    <3> QED BY <1>2, <2>1, <3>2, <3>3, <3>4
  <2>4. CASE a \notin bad
    <3>1. cache'[a] = od'[a].param /\ doubt'[a] = {} BY <1>3, <2>4 DEF Refreshed, RefreshRead
    <3> QED BY <2>1, <2>2, <3>1
  <2> QED BY <2>3, <2>4
<1>4. ASSUME NEW a \in Axes, a \notin R
      PROVE  /\ cache'[a] = cache[a] /\ conv'[a] = conv[a] /\ ctl'[a] = ctl[a]
             /\ doubt'[a] = Clobbered(a) /\ doubt'[a] \subseteq Groups
  <2>1. cache'[a] = cache[a] /\ conv'[a] = conv[a] /\ ctl'[a] = ctl[a] BY <1>4 DEF Refreshed
  <2>2. doubt'[a] = Clobbered(a) BY <1>4 DEF Refreshed
  <2>3. doubt[a] \subseteq Groups /\ "vel" \in Groups BY <1>1 DEF DoubtType, Groups
  <2>4. Clobbered(a) \subseteq Groups BY <2>3 DEF Clobbered
  <2> QED BY <2>1, <2>2, <2>4
<1>5. ASSUME NEW a \in Axes
      PROVE  cache'[a] \in Params /\ conv'[a] \in Exps /\ doubt'[a] \in SUBSET Groups
             /\ ctl'[a] \in [limit : Nat, exp : Exps]
  <2>1. CASE a \in R
    <3>1. ctl'[a] \in [limit : Nat, exp : Exps]
      <4> DEFINE c == cache'[a]
      <4>1. c \in Params /\ c.exp \in Exps /\ ctl'[a] = LimitOf(c, c.exp) BY <1>3, <2>1
      <4> HIDE DEF c
      <4> QED BY <4>1, LimitOfType
    <3> QED BY <1>3, <2>1, <3>1
  <2>2. CASE a \notin R BY <1>1, <1>4, <2>2 DEF CacheType, CtlType
  <2> QED BY <2>1, <2>2
<1>6. /\ cache' = [a \in Axes |-> cache'[a]] /\ conv' = [a \in Axes |-> conv'[a]]
      /\ ctl' = [a \in Axes |-> ctl'[a]] /\ doubt' = [a \in Axes |-> doubt'[a]]
  BY DEF Refreshed
<1>7. CacheType' /\ CtlType' /\ DoubtType' /\ conv' \in [Axes -> Exps]
  <2>1. CacheType' BY <1>5, <1>6 DEF CacheType
  <2>2. CtlType' BY <1>5, <1>6 DEF CtlType
  <2>3. DoubtType' BY <1>5, <1>6 DEF DoubtType
  <2>4. conv' \in [Axes -> Exps] BY <1>5, <1>6
  <2> QED BY <2>1, <2>2, <2>3, <2>4
<1> QED BY <1>3, <1>4, <1>7 DEF RefreshedFits

LEMMA SeededStep ==
  ASSUME NEW r \in [vel : Nat, mode : Modes], NEW v \in Nat
  PROVE  /\ Seeded(r, v) \in [vel : Nat, mode : Modes] /\ Seeded(r, v).mode = r.mode
         /\ VelocityMapped => Seeded(r, v).vel = v
BY DEF Seeded

\* The RxPDO of a bus that has just become operational.
SeededFits(R, o) ==
  /\ rx' \in [Axes -> [vel : Nat, mode : Modes]]
  /\ \A a \in Axes : rx'[a].mode = modes[a]
  /\ \A a \in R : VelocityMapped => rx'[a].vel = o[a].param.vel

LEMMA SeededAfterRefreshStep ==
  ASSUME TypeOK, NEW R \in SUBSET Axes, NEW o \in [Axes -> Drive],
         rx' = SeededAfterRefresh(R, o)
  PROVE  SeededFits(R, o)
<1>1. ASSUME NEW a \in Axes
      PROVE  /\ rx'[a] \in [vel : Nat, mode : Modes] /\ rx'[a].mode = modes[a]
             /\ a \in R /\ VelocityMapped => rx'[a].vel = o[a].param.vel
  <2>1. modes[a] \in Modes BY DEF TypeOK
  <2>2. RxReset(a) \in [vel : Nat, mode : Modes] /\ RxReset(a).mode = modes[a]
    BY <2>1 DEF RxReset
  <2>3. o[a].param.vel \in Nat BY DEF Drive, Params, Fields
  <2>4. CASE a \in R
    <3> DEFINE r == RxReset(a)
               v == o[a].param.vel
    <3>1. rx'[a] = Seeded(r, v) BY <2>4 DEF SeededAfterRefresh
    <3>2. r \in [vel : Nat, mode : Modes] /\ r.mode = modes[a] /\ v \in Nat BY <2>2, <2>3
    <3> HIDE DEF r, v
    <3>3. /\ Seeded(r, v) \in [vel : Nat, mode : Modes] /\ Seeded(r, v).mode = r.mode
          /\ VelocityMapped => Seeded(r, v).vel = v
      BY <3>2, SeededStep
    <3> QED BY <3>1, <3>2, <3>3 DEF v
  <2>5. CASE a \notin R
    <3>1. rx'[a] = RxReset(a) BY <2>5 DEF SeededAfterRefresh
    <3> QED BY <2>2, <2>5, <3>1
  <2> QED BY <2>4, <2>5
<1>2. rx' = [a \in Axes |-> rx'[a]] BY DEF SeededAfterRefresh
<1>3. rx' \in [Axes -> [vel : Nat, mode : Modes]] BY <1>1, <1>2
<1> QED BY <1>1, <1>3 DEF SeededFits

LEMMA ReconnectFailsKeeps ==
  ASSUME ParameterInv, NEW lost \in Axes, NEW bad, ReconnectFails(lost, bad)
  PROVE  ParameterInv' /\ OthersKept
<1> DEFINE R == Before(Axes, {lost})
<1>1. /\ phase = "lost" /\ od' = [a \in Axes |-> [od[a] EXCEPT !.mode = modes[a]]]
      /\ Refreshed(R, bad) /\ rx' = SeededAfterRefresh(R, od)
      /\ invalid' = (invalid \ R) \cup {lost}
      /\ UNCHANGED <<phase, saved, modes, answer, served, losses>>
  BY DEF ReconnectFails
<1>2. R \in SUBSET Axes BY DEF Before
<1> HIDE DEF R
<1>3. TypeOK /\ OdType /\ OtherTypes BY TypeParts DEF ParameterInv, ServerAgrees
<1>4. ASSUME NEW a \in Axes PROVE od'[a] \in Drive /\ od'[a].param = od[a].param
  <2>1. od[a] \in Drive /\ modes[a] \in Modes BY <1>3 DEF OdType, OtherTypes, Drive
  <2>2. od'[a] = [od[a] EXCEPT !.mode = modes[a]] BY <1>1
  <2> QED BY <2>1, <2>2 DEF Drive
<1>5. OdType' BY <1>1, <1>4 DEF OdType, Drive
<1>6. UnitsFit' BY <1>1, <1>4 DEF ParameterInv, UnitsFit
<1>7. RefreshedFits(R, bad)
  <2>1. \A a \in Axes : od'[a].param.exp \in Exps BY <1>6 DEF UnitsFit
  <2> QED BY <1>1, <1>2, <1>3, <1>5, <2>1, RefreshedStep
<1>8. RxType'
  <2>1. od \in [Axes -> Drive] BY <1>3 DEF OdType, Drive
  <2>2. PICK o : o = od OBVIOUS
  <2>3. SeededFits(R, o) BY <1>1, <1>2, <1>3, <2>1, <2>2, SeededAfterRefreshStep
  <2> QED BY <2>3 DEF SeededFits, RxType
<1>9. OtherTypes'
  BY <1>1, <1>2, <1>3, <1>7 DEF OtherTypes, RefreshedFits
<1>10. /\ CopiesFollowCache' /\ RunningIsValid' /\ ModeIsCommanded' /\ FreshServer'
       /\ CacheTellsTheTruth' /\ AnswerType' /\ AnswerIsCurrent' /\ SuccessIsReal'
  BY <1>1, NotRunning
<1>11. TypeOK' BY <1>5, <1>7, <1>8, <1>9, <1>10, TypePartsPrime DEF RefreshedFits
<1> QED BY <1>1, <1>6, <1>10, <1>11, QuietKept DEF ParameterInv, ServerAgrees

\* A step to or within a running bus that has read the axes in R again.
LEMMA RunningAgain ==
  ASSUME ParameterInv, phase' = "run", NEW R \in SUBSET Axes, NEW bad, RefreshedFits(R, bad),
         phase = "run" \/ R = Axes,
         \A a \in R : VelocityMapped => rx'[a].vel = od'[a].param.vel,
         \A a \in Axes : a \notin R =>
           \A f \in Fields : f # "vel" \/ ~VelocityMapped => od'[a].param[f] = od[a].param[f]
  PROVE  CopiesFollowCache' /\ CacheTellsTheTruth'
<1>1. CopiesFollowCache'
  <2>1. CopiesFollowCache BY DEF ParameterInv, ServerAgrees
  <2>2. ASSUME NEW a \in Axes
        PROVE  conv'[a] = cache'[a].exp /\ ctl'[a] = LimitOf(cache'[a], cache'[a].exp)
    <3>1. CASE a \in R BY <3>1 DEF RefreshedFits
    <3>2. CASE a \notin R
      <4>1. cache'[a] = cache[a] /\ conv'[a] = conv[a] /\ ctl'[a] = ctl[a]
        BY <3>2 DEF RefreshedFits
      <4>2. conv[a] = cache[a].exp /\ ctl[a] = LimitOf(cache[a], cache[a].exp)
        BY <2>1, <3>2 DEF CopiesFollowCache
      <4> QED BY <4>1, <4>2
    <3> QED BY <3>1, <3>2
  <2> QED BY <2>2 DEF CopiesFollowCache
<1>2. ASSUME NEW a \in Axes, NEW f \in Fields PROVE FieldTrue(a, f)'
  <2>1. CASE a \in R
    <3>1. GroupOf(f) \in doubt'[a] \/ cache'[a][f] = od'[a].param[f] BY <2>1 DEF RefreshedFits
    <3>2. Effective(a, f)' = od'[a].param[f] BY <2>1 DEF Effective
    <3> QED BY <3>1, <3>2 DEF FieldTrue
  <2>2. CASE a \notin R
    <3>1. cache'[a] = cache[a] /\ doubt'[a] = Clobbered(a) BY <2>2 DEF RefreshedFits
    <3>2. AllTrue /\ phase = "run" BY <2>2, TruthByField DEF ParameterInv
    <3>3. FieldTrue(a, f) BY <3>2 DEF AllTrue
    <3>4. CASE f = "vel" /\ VelocityMapped
      <4>1. GroupOf(f) \in doubt'[a] BY <3>1, <3>4, FieldGroups DEF Clobbered
      <4> QED BY <4>1 DEF FieldTrue
    <3>5. CASE f # "vel" \/ ~VelocityMapped
      <4>1. Effective(a, f)' = Effective(a, f) BY <2>2, <3>5 DEF Effective
      <4>2. doubt[a] \subseteq doubt'[a] BY <3>1 DEF Clobbered
      <4> QED BY <3>1, <3>3, <4>1, <4>2 DEF FieldTrue
    <3> QED BY <3>4, <3>5
  <2> QED BY <2>1, <2>2
<1>3. CacheTellsTheTruth' BY <1>2, TruthByFieldPrime DEF AllTrue
<1> QED BY <1>1, <1>3

StartKept ==
  \A a \in Axes : \A f \in Fields :
    \/ od'[a].param[f] = od[a].param[f]
    \/ f = "vel" /\ "vel" \in doubt'[a]

LEMMA ReconnectsKeeps ==
  ASSUME ParameterInv, NEW bad, Reconnects(bad)
  PROVE  ParameterInv' /\ OthersKept /\ StartKept
<1>1. /\ phase = "lost" /\ phase' = "run" /\ rx' = SeededAfterRefresh(Axes, od)
      /\ od' = Exchanged(od, rx') /\ Refreshed(Axes, bad) /\ invalid' = {}
      /\ UNCHANGED <<saved, modes, answer, served, losses>>
  BY DEF Reconnects
<1>2. TypeOK /\ OdType /\ OtherTypes /\ AnswerType BY TypeParts DEF ParameterInv, ServerAgrees
<1>3. od \in [Axes -> Drive] /\ Axes \in SUBSET Axes BY <1>2 DEF OdType, Drive
<1>4. /\ rx' \in [Axes -> [vel : Nat, mode : Modes]]
      /\ \A a \in Axes : rx'[a].mode = modes[a]
      /\ \A a \in Axes : VelocityMapped => rx'[a].vel = od[a].param.vel
  <2>1. PICK o : o = od OBVIOUS
  <2>2. SeededFits(Axes, o) BY <1>1, <1>2, <1>3, <2>1, SeededAfterRefreshStep
  <2> QED BY <2>1, <2>2 DEF SeededFits
<1>5. od' \in [Axes -> Drive] /\ \A a \in Axes : ExchangedFits(od'[a], od[a], rx'[a])
  BY <1>1, <1>3, <1>4, ExchangedStep
<1>6. \A a \in Axes : \A f \in Fields : od'[a].param[f] = od[a].param[f]
  BY <1>4, <1>5 DEF ExchangedFits
<1>7. UnitsFit' /\ \A a \in Axes : od'[a].param.exp \in Exps
  <2>1. "exp" \in Fields BY DEF Fields
  <2>2. \A a \in Axes : od'[a].param.exp = od[a].param.exp BY <1>6, <2>1
  <2> QED BY <1>1, <2>2 DEF ParameterInv, UnitsFit
<1>8. OdType' /\ RxType' BY <1>4, <1>5 DEF OdType, RxType, Drive
<1>9. RefreshedFits(Axes, bad) BY <1>1, <1>2, <1>3, <1>7, <1>8, RefreshedStep
<1>10. CopiesFollowCache' /\ CacheTellsTheTruth'
  <2>1. "vel" \in Fields BY DEF Fields
  <2>2. \A a \in Axes : VelocityMapped => rx'[a].vel = od'[a].param.vel BY <1>4, <1>6, <2>1
  <2> QED BY <1>1, <1>3, <1>9, <2>2, RunningAgain
<1>11. AnswerType' /\ AnswerIsCurrent' /\ SuccessIsReal'
  <2>1. ~answer'.ok BY <1>1 DEF ParameterInv, AnswerIsCurrent
  <2> QED BY <1>1, <1>2, <2>1 DEF AnswerType, AnswerIsCurrent, SuccessIsReal
<1>12. OtherTypes' BY <1>1, <1>2, <1>9 DEF OtherTypes, RefreshedFits
<1>13. TypeOK' BY <1>8, <1>9, <1>11, <1>12, TypePartsPrime DEF RefreshedFits
<1>14. RunningIsValid' /\ ModeIsCommanded' /\ FreshServer'
  BY <1>1, <1>4 DEF RunningIsValid, ModeIsCommanded, FreshServer
<1>15. StartKept BY <1>6 DEF StartKept
<1> QED BY <1>1, <1>7, <1>10, <1>11, <1>13, <1>14, <1>15, QuietKept DEF ParameterInv, ServerAgrees

LEMMA RestartsKeeps ==
  ASSUME ParameterInv, NEW a \in Axes, NEW bad, Restarts(a, bad)
  PROVE  ParameterInv' /\ OthersKept
<1>1. /\ Serves /\ rx' = SeededAfterRefresh({a}, Restored(a))
      /\ od' = Exchanged(Restored(a), rx') /\ Refreshed({a}, bad) /\ invalid' = invalid \ {a}
      /\ answer' = NoAnswer /\ UNCHANGED <<phase, saved, modes, losses>>
  BY DEF Restarts
<1>2. TypeOK /\ OtherTypes BY TypeParts DEF ParameterInv, ServerAgrees
<1>3. {a} \in SUBSET Axes /\ phase = "run" BY <1>1 DEF Serves
<1>4. PICK o \in [Axes -> Drive] :
        /\ o = Restored(a) /\ \A b \in Axes : o[b].param.exp \in Exps
        /\ \A b \in Axes : b # a => o[b] = od[b]
  BY RestoredStep
<1>5. SeededFits({a}, o) BY <1>1, <1>2, <1>3, <1>4, SeededAfterRefreshStep
<1>6. /\ od' \in [Axes -> Drive] /\ \A b \in Axes : ExchangedFits(od'[b], o[b], rx'[b])
  BY <1>1, <1>4, <1>5, ExchangedStep DEF SeededFits
<1>7. UnitsFit' /\ \A b \in Axes : od'[b].param.exp \in Exps
  <2>1. "exp" \in Fields /\ "exp" # "vel" BY DEF Fields
  <2>2. \A b \in Axes : od'[b].param.exp = o[b].param.exp BY <1>6, <2>1 DEF ExchangedFits
  <2> QED BY <1>1, <1>4, <2>2 DEF ParameterInv, UnitsFit
<1>8. OdType' /\ RxType' BY <1>5, <1>6 DEF OdType, RxType, Drive, SeededFits
<1>9. RefreshedFits({a}, bad) BY <1>1, <1>2, <1>3, <1>7, <1>8, RefreshedStep
<1>10. CopiesFollowCache' /\ CacheTellsTheTruth'
  <2>1. \A b \in {a} : VelocityMapped => rx'[b].vel = od'[b].param.vel
    BY <1>6 DEF ExchangedFits
  <2>2. \A b \in Axes : b \notin {a} =>
          \A f \in Fields : f # "vel" \/ ~VelocityMapped => od'[b].param[f] = od[b].param[f]
    BY <1>4, <1>6 DEF ExchangedFits
  <2>3. phase' = "run" BY <1>1, <1>3
  <2> QED BY <1>3, <1>9, <2>1, <2>2, <2>3, RunningAgain
<1>11. AnswerType' /\ AnswerIsCurrent' /\ SuccessIsReal' BY <1>1, NoAnswerFits
<1>12. OtherTypes'
  <2>1. invalid' \subseteq Axes /\ conv' \in [Axes -> Exps]
    BY <1>1, <1>2, <1>9 DEF OtherTypes, RefreshedFits
  <2> QED BY <1>1, <1>2, <1>3, <2>1, ServesType
<1>13. TypeOK' BY <1>8, <1>9, <1>11, <1>12, TypePartsPrime DEF RefreshedFits
<1>14. RunningIsValid' /\ ModeIsCommanded' /\ FreshServer'
  <2>1. RunningIsValid' BY <1>1, <1>3 DEF ParameterInv, ServerAgrees, RunningIsValid
  <2>2. ModeIsCommanded' BY <1>1, <1>5 DEF ModeIsCommanded, SeededFits
  <2>3. FreshServer' BY <1>1, <1>3 DEF FreshServer
  <2> QED BY <2>1, <2>2, <2>3
<1> QED BY <1>1, <1>7, <1>10, <1>11, <1>13, <1>14, QuietKept DEF ParameterInv, ServerAgrees
-----------------------------------------------------------------------------
(* The start                                                               *)

LEMMA StartFailureType ==
  ASSUME NEW failed \in StartFailures, NEW a \in Axes
  PROVE  failed[a] \subseteq ReadGroups
<1>1. PICK b \in Axes, g \in {{}} \cup {{x} : x \in ReadGroups} :
        failed = [c \in Axes |-> IF c = b THEN g ELSE {}]
  BY DEF StartFailures
<1>2. g \subseteq ReadGroups OBVIOUS
<1> QED BY <1>1, <1>2

LEMMA DoubtAfterType ==
  ASSUME NEW S \in SUBSET ReadGroups
  PROVE  DoubtAfter(S) \subseteq Groups
<1>1. S \ {"profile"} \subseteq Groups BY DEF ReadGroups, Groups
<1>2. ProfileObjects \subseteq Groups BY DEF ProfileObjects, Groups
<1> QED BY <1>1, <1>2 DEF DoubtAfter

LEMMA DefaultsType ==
  Defaults \in Params /\ Defaults["exp"] \in Exps
<1>1. DefaultExp \in Exps /\ DefaultExp \in Nat /\ FallbackLimit \in Nat
  BY ParametersAssumption DEF Exps
<1>2. ASSUME NEW f \in Fields PROVE Defaults[f] \in Nat
  <2>1. CASE f \in LimitObjects
    <3>1. Defaults[f] = LimitsDefault[f]
      BY <2>1 DEF Defaults, LimitObjects, ProfileObjects, MotionObjects
    <3>2. LimitsDefault["low"] = 0 /\ LimitsDefault["high"] = FallbackLimit BY DEF LimitsDefault
    <3> QED BY <1>1, <2>1, <3>1, <3>2 DEF LimitObjects
  <2>2. CASE f \in ProfileObjects
    <3>1. Defaults[f] = ProfileDefault[f]
      BY <2>2 DEF Defaults, LimitObjects, ProfileObjects, MotionObjects
    <3> QED BY <2>2, <3>1 DEF ProfileDefault
  <2>3. CASE f \in MotionObjects
    <3>1. Defaults[f] = MotionDefault[f]
      BY <2>3 DEF Defaults, LimitObjects, ProfileObjects, MotionObjects
    <3> QED BY <2>3, <3>1 DEF MotionDefault
  <2>4. CASE f = "exp"
    <3>1. Defaults[f] = ExponentDefault[f]
      BY <2>4 DEF Defaults, LimitObjects, ProfileObjects, MotionObjects
    <3> QED BY <1>1, <2>4, <3>1 DEF ExponentDefault
  <2> QED BY <2>1, <2>2, <2>3, <2>4 DEF Fields, LimitObjects, ProfileObjects, MotionObjects
<1>3. Defaults = [f \in Fields |-> Defaults[f]] BY DEF Defaults
<1>4. Defaults \in Params BY <1>2, <1>3 DEF Params
<1>5. Defaults["exp"] = DefaultExp
  BY DEF Defaults, Fields, LimitObjects, ProfileObjects, MotionObjects, ExponentDefault
<1> QED BY <1>1, <1>4, <1>5

LEMMA StartsKeeps ==
  ASSUME ParameterInv, NEW failed \in StartFailures, Starts(failed)
  PROVE  ParameterInv' /\ OthersKept /\ StartKept
<1>1. /\ phase = "start" /\ phase' = "run"
      /\ cache' = [a \in Axes |-> StartupRead(a, failed[a])]
      /\ conv' = [a \in Axes |-> cache'[a].exp]
      /\ ctl' = [a \in Axes |-> LimitOf(cache'[a], cache'[a].exp)]
      /\ rx' = [a \in Axes |-> Seeded(rx[a], cache'[a].vel)]
      /\ od' = Exchanged(od, rx') /\ doubt' = [a \in Axes |-> DoubtAfter(failed[a])]
      /\ UNCHANGED <<saved, invalid, modes, answer, served, losses>>
  BY DEF Starts
<1>2. TypeOK /\ OdType /\ RxType /\ OtherTypes /\ AnswerType
  BY TypeParts DEF ParameterInv, ServerAgrees
<1>3. od \in [Axes -> Drive] BY <1>2 DEF OdType, Drive
<1>4. ASSUME NEW a \in Axes
      PROVE  /\ cache'[a] \in Params /\ cache'[a].exp \in Exps /\ doubt'[a] \subseteq Groups
             /\ \A f \in Fields : GroupOf(f) \in doubt'[a] \/ cache'[a][f] = od[a].param[f]
  <2> DEFINE D == DoubtAfter(failed[a])
  <2>1. doubt'[a] = D /\ cache'[a] = StartupRead(a, failed[a]) BY <1>1
  <2>2. D \subseteq Groups
    <3>1. failed[a] \in SUBSET ReadGroups BY StartFailureType
    <3> QED BY <3>1, DoubtAfterType
  <2>3. \A f \in Fields : cache'[a][f] = IF \E g \in D : f \in FieldsOf(g)
                                         THEN Defaults[f] ELSE od[a].param[f]
    BY <2>1 DEF StartupRead
  <2>4. cache'[a] = [f \in Fields |-> cache'[a][f]] BY <2>1 DEF StartupRead
  <2> HIDE DEF D
  <2>5. od[a].param \in Params /\ od[a].param.exp \in Exps
    BY <1>3 DEF Drive, ParameterInv, UnitsFit
  <2>6. \A f \in Fields : cache'[a][f] \in Nat
    <3>1. \A f \in Fields : Defaults[f] \in Nat /\ od[a].param[f] \in Nat
      BY <2>5, DefaultsType DEF Params
    <3> QED BY <2>3, <3>1
  <2>7. cache'[a] \in Params BY <2>4, <2>6 DEF Params
  <2>8. cache'[a].exp \in Exps
    <3>1. "exp" \in Fields BY DEF Fields
    <3> QED BY <2>3, <2>5, <3>1, DefaultsType
  <2>9. ASSUME NEW f \in Fields, GroupOf(f) \notin D PROVE cache'[a][f] = od[a].param[f]
    <3>1. \A g \in Groups : f \in FieldsOf(g) => g = GroupOf(f)
      BY GroupFields, FieldGroups DEF Groups, Fields
    <3> QED BY <2>2, <2>3, <2>9, <3>1
  <2> QED BY <2>1, <2>2, <2>7, <2>8, <2>9
<1>5. ASSUME NEW a \in Axes
      PROVE  /\ rx'[a] \in [vel : Nat, mode : Modes] /\ rx'[a].mode = rx[a].mode
             /\ VelocityMapped => rx'[a].vel = cache'[a].vel
  <2> DEFINE r == rx[a]
             v == cache'[a].vel
  <2>1. r \in [vel : Nat, mode : Modes] BY <1>2 DEF RxType
  <2>2. v \in Nat BY <1>4 DEF Params, Fields
  <2>3. rx'[a] = Seeded(r, v) BY <1>1
  <2> HIDE DEF r, v
  <2>4. /\ Seeded(r, v) \in [vel : Nat, mode : Modes] /\ Seeded(r, v).mode = r.mode
        /\ VelocityMapped => Seeded(r, v).vel = v
    BY <2>1, <2>2, SeededStep
  <2> QED BY <2>3, <2>4 DEF r, v
<1>6. rx' \in [Axes -> [vel : Nat, mode : Modes]] BY <1>1, <1>5
<1>7. od' \in [Axes -> Drive] /\ \A a \in Axes : ExchangedFits(od'[a], od[a], rx'[a])
  BY <1>1, <1>3, <1>6, ExchangedStep
<1>8. UnitsFit'
  <2>1. "exp" \in Fields /\ "exp" # "vel" BY DEF Fields
  <2>2. \A a \in Axes : od'[a].param.exp = od[a].param.exp BY <1>7, <2>1 DEF ExchangedFits
  <2> QED BY <1>1, <2>2 DEF ParameterInv, UnitsFit
<1>9. ASSUME NEW a \in Axes
      PROVE  conv'[a] = cache'[a].exp /\ ctl'[a] = LimitOf(cache'[a], cache'[a].exp)
             /\ ctl'[a] \in [limit : Nat, exp : Exps]
  <2> DEFINE c == cache'[a]
  <2>1. conv'[a] = c.exp /\ ctl'[a] = LimitOf(c, c.exp) BY <1>1
  <2>2. c \in Params /\ c.exp \in Exps BY <1>4
  <2> HIDE DEF c
  <2>3. LimitOf(c, c.exp) \in [limit : Nat, exp : Exps] BY <2>2, LimitOfType
  <2> QED BY <2>1, <2>3 DEF c
<1>10. CacheTellsTheTruth'
  <2>1. ASSUME NEW a \in Axes, NEW f \in Fields PROVE FieldTrue(a, f)'
    <3>1. CASE f = "vel" /\ VelocityMapped BY <1>5, <3>1 DEF FieldTrue, Effective
    <3>2. CASE ~(f = "vel" /\ VelocityMapped)
      <4>1. od'[a].param[f] = od[a].param[f] BY <1>7, <3>2 DEF ExchangedFits
      <4> QED BY <1>4, <3>2, <4>1 DEF FieldTrue, Effective
    <3> QED BY <3>1, <3>2
  <2> QED BY <2>1, TruthByFieldPrime DEF AllTrue
<1>11. TypeOK'
  <2>1. OdType' /\ RxType' BY <1>6, <1>7 DEF OdType, RxType, Drive
  <2>2. CacheType'
    <3>1. cache' = [a \in Axes |-> cache'[a]] BY <1>1
    <3> QED BY <1>4, <3>1 DEF CacheType
  <2>3. DoubtType'
    <3>1. doubt' = [a \in Axes |-> doubt'[a]] BY <1>1
    <3> QED BY <1>4, <3>1 DEF DoubtType
  <2>4. CtlType' BY <1>1, <1>9 DEF CtlType
  <2>5. OtherTypes' BY <1>1, <1>2, <1>4 DEF OtherTypes
  <2>6. AnswerType' BY <1>1, <1>2 DEF AnswerType
  <2> QED BY <2>1, <2>2, <2>3, <2>4, <2>5, <2>6, TypePartsPrime
<1>12. CopiesFollowCache' BY <1>9 DEF CopiesFollowCache
<1>13. AnswerIsCurrent' /\ SuccessIsReal'
  <2>1. ~answer'.ok BY <1>1 DEF ParameterInv, AnswerIsCurrent
  <2> QED BY <2>1 DEF AnswerIsCurrent, SuccessIsReal
<1>14. RunningIsValid' /\ ModeIsCommanded' /\ FreshServer'
  BY <1>1, <1>5 DEF RunningIsValid, ModeIsCommanded, FreshServer, ParameterInv
<1>15. StartKept
  <2>1. ASSUME NEW a \in Axes, NEW f \in Fields
        PROVE  od'[a].param[f] = od[a].param[f] \/ (f = "vel" /\ "vel" \in doubt'[a])
    <3>1. CASE f = "vel" /\ VelocityMapped
      <4>1. od'[a].param["vel"] = cache'[a].vel BY <1>5, <1>7, <3>1 DEF ExchangedFits
      <4>2. "vel" \in doubt'[a] \/ cache'[a].vel = od[a].param["vel"]
        BY <1>4, <3>1, FieldGroups
      <4> QED BY <3>1, <4>1, <4>2
    <3>2. CASE ~(f = "vel" /\ VelocityMapped) BY <1>7, <3>2 DEF ExchangedFits
    <3> QED BY <3>1, <3>2
  <2> QED BY <2>1 DEF StartKept
<1> QED BY <1>1, <1>8, <1>10, <1>11, <1>12, <1>13, <1>14, <1>15, QuietKept
  DEF ParameterInv, ServerAgrees
-----------------------------------------------------------------------------
(* The specification                                                       *)

LEMMA InitInv == Init => ParameterInv
<1> SUFFICES ASSUME Init PROVE ParameterInv OBVIOUS
<1>1. /\ phase = "start" /\ saved \in [Axes -> InitialParameters]
      /\ od = [a \in Axes |-> [param |-> saved[a], mode |-> "pp"]]
      /\ cache = [a \in Axes |-> Zero] /\ invalid = {}
      /\ conv = [a \in Axes |-> DefaultExp]
      /\ ctl = [a \in Axes |-> [limit |-> 0, exp |-> DefaultExp]]
      /\ rx = [a \in Axes |-> [vel |-> 0, mode |-> "pp"]]
      /\ modes = [a \in Axes |-> "pp"] /\ doubt = [a \in Axes |-> Groups]
      /\ answer = NoAnswer /\ served = 0 /\ losses = 0
  BY DEF Init
<1>2. \A a \in Axes : saved[a] \in Params /\ saved[a].exp \in Exps
  BY <1>1 DEF InitialParameters, Params
<1>3. "pp" \in Modes /\ DefaultExp \in Exps BY ParametersAssumption DEF Modes
<1>4. Zero \in Params BY DEF Zero, Params
<1>5. OdType BY <1>1, <1>2, <1>3 DEF OdType
<1>6. CacheType BY <1>1, <1>4 DEF CacheType
<1>7. CtlType BY <1>1, <1>3 DEF CtlType
<1>8. RxType BY <1>1, <1>3 DEF RxType
<1>9. DoubtType BY <1>1 DEF DoubtType
<1>10. answer.ok = FALSE /\ answer.axes = {} /\ answer.set = <<>> BY <1>1 DEF NoAnswer
<1>11. AnswerType
  <2>1. DOMAIN (<<>>) = {} OBVIOUS
  <2>2. DOMAIN answer.set = {} BY <1>10, <2>1
  <2> QED BY <1>10, <2>2 DEF AnswerType
<1>12. OtherTypes
  <2>1. saved \in [Axes -> Params] BY <1>1, <1>2
  <2>2. served \in 0..MaxRequests /\ losses \in 0..MaxLosses BY <1>1, ParametersAssumption
  <2> QED BY <1>1, <1>3, <2>1, <2>2 DEF OtherTypes
<1>13. TypeOK BY <1>5, <1>6, <1>7, <1>8, <1>9, <1>11, <1>12, TypeParts
<1>14. CopiesFollowCache /\ RunningIsValid /\ ModeIsCommanded /\ CacheTellsTheTruth
  BY <1>1 DEF CopiesFollowCache, RunningIsValid, ModeIsCommanded, CacheTellsTheTruth
<1>15. UnitsFit BY <1>1, <1>2 DEF UnitsFit
<1>16. FreshServer BY <1>1 DEF FreshServer
<1>17. AnswerIsCurrent /\ SuccessIsReal BY <1>10 DEF AnswerIsCurrent, SuccessIsReal
<1> QED BY <1>13, <1>14, <1>15, <1>16, <1>17 DEF ParameterInv, ServerAgrees

LEMMA SettingsRequestKeeps ==
  ASSUME ParameterInv, NEW axes \in SUBSET Axes, SettingsRequest(axes)
  PROVE  ParameterInv' /\ OthersKept
<1>1. PICK fields \in Pairs : \E api \in Requests(fields) : \E loses \in Losing(api, fields) :
        LET count == [a \in axes |-> IF "vel" \in fields /\ modes[a] = "pv" THEN 1 ELSE 2]
        IN \E o \in RequestOutcomes(axes, count) :
             \/ "low" \in fields /\ SetSoftwarePositionLimits(axes, api, loses, o)
             \/ "pos" \in fields /\ SetMotionLimits(axes, api, loses, o)
             \/ "vel" \in fields /\ SetProfile(axes, api, loses, o)
  BY DEF SettingsRequest, Pairs
<1>2. PICK count : count = [a \in axes |-> IF "vel" \in fields /\ modes[a] = "pv" THEN 1 ELSE 2]
  OBVIOUS
<1>3. PICK api \in Requests(fields) : \E loses \in Losing(api, fields) :
         \E o \in RequestOutcomes(axes, count) :
           \/ "low" \in fields /\ SetSoftwarePositionLimits(axes, api, loses, o)
           \/ "pos" \in fields /\ SetMotionLimits(axes, api, loses, o)
           \/ "vel" \in fields /\ SetProfile(axes, api, loses, o)
  BY <1>1, <1>2
<1>4. PICK loses \in Losing(api, fields), o \in RequestOutcomes(axes, count) :
        \/ "low" \in fields /\ SetSoftwarePositionLimits(axes, api, loses, o)
        \/ "pos" \in fields /\ SetMotionLimits(axes, api, loses, o)
        \/ "vel" \in fields /\ SetProfile(axes, api, loses, o)
  BY <1>3
<1>5. \A a \in axes : count[a] = IF "vel" \in fields /\ modes[a] = "pv" THEN 1 ELSE 2 BY <1>2
<1>6. CASE "low" \in fields /\ SetSoftwarePositionLimits(axes, api, loses, o)
  <2>1. fields = LimitObjects BY <1>6 DEF Pairs, LimitObjects, MotionObjects, ProfileObjects
  <2>2. \A a \in axes : count[a] = 2 BY <1>5, <2>1 DEF LimitObjects
  <2> QED BY <1>6, <2>1, <2>2, SetSoftwarePositionLimitsKeeps
<1>7. CASE "pos" \in fields /\ SetMotionLimits(axes, api, loses, o)
  <2>1. fields = MotionObjects BY <1>7 DEF Pairs, LimitObjects, MotionObjects, ProfileObjects
  <2>2. \A a \in axes : count[a] = 2 BY <1>5, <2>1 DEF MotionObjects
  <2> QED BY <1>7, <2>1, <2>2, SetMotionLimitsKeeps
<1>8. CASE "vel" \in fields /\ SetProfile(axes, api, loses, o)
  <2>1. fields = ProfileObjects BY <1>8 DEF Pairs, LimitObjects, MotionObjects, ProfileObjects
  <2>2. \A a \in axes : count[a] = IF modes[a] = "pv" THEN 1 ELSE 2 BY <1>5, <1>8
  <2> QED BY <1>8, <2>1, <2>2, SetProfileKeeps
<1> QED BY <1>4, <1>6, <1>7, <1>8

LEMMA RequestKeeps ==
  ASSUME ParameterInv, Request
  PROVE  ParameterInv' /\ OthersKept
<1>1. \A axes \in AxisSets : axes \in SUBSET Axes BY DEF AxisSets
<1>2. CASE \E axes \in AxisSets : SettingsRequest(axes) BY <1>1, <1>2, SettingsRequestKeeps
<1>3. CASE \E axes \in AxisSets : \E v \in Values : MoveWithVelocity(axes, v)
  BY <1>1, <1>3, MoveWithVelocityKeeps
<1>4. CASE \E axes \in AxisSets : \E m \in Modes, f \in [axes -> {"none", "before", "after"}] :
             SetMode(axes, m, f)
  BY <1>1, <1>4, SetModeKeeps
<1>5. CASE \E a \in Axes : \E f \in RawObjects, d \in BOOLEAN :
             \E v \in IF f = "exp" THEN Exps ELSE Values : WriteParameter(a, f, v, d)
  <2>0. PICK a \in Axes, f \in RawObjects, d \in BOOLEAN :
          \E v \in IF f = "exp" THEN Exps ELSE Values : WriteParameter(a, f, v, d)
    BY <1>5
  <2>1. PICK v \in IF f = "exp" THEN Exps ELSE Values : WriteParameter(a, f, v, d)
    BY <2>0
  <2>2. f \in Fields BY ParametersAssumption
  <2>3. v \in Nat /\ (f = "exp" => v \in Exps)
    <3>1. Exps \subseteq Nat /\ Values \subseteq Nat BY ParametersAssumption DEF Exps
    <3> QED BY <3>1
  <2> QED BY <2>1, <2>2, <2>3, WriteParameterKeeps
<1>6. CASE \E a \in Axes : SaveParameters(a) BY <1>6, SaveParametersKeeps
<1>7. CASE \E a \in Axes : \E bad \in {{}, {a}} : Restarts(a, bad) BY <1>7, RestartsKeeps
<1>8. CASE \E a \in Axes : RestartFails(a) BY <1>8, RestartFailsKeeps
<1> QED BY <1>2, <1>3, <1>4, <1>5, <1>6, <1>7, <1>8 DEF Request

\* The action of StartKeepsDrives.
StartAction == phase # "run" /\ phase' = "run" => StartKept

LEMMA NextKeeps ==
  ASSUME ParameterInv, [Next]_vars
  PROVE  ParameterInv' /\ OthersKept /\ StartAction
<1>1. CASE \E failed \in StartFailures : Starts(failed)
  BY <1>1, StartsKeeps DEF StartAction
<1>2. CASE StartFails
  <2>1. phase' = "failed" BY <1>2 DEF StartFails
  <2> QED BY <1>2, <2>1, StartFailsKeeps DEF StartAction
<1>3. CASE Request
  <2>1. phase = "run" BY <1>3 DEF Request
  <2> QED BY <1>3, <2>1, RequestKeeps DEF StartAction
<1>4. CASE \E a \in Axes : LosesPower(a)
  <2>1. phase' = "lost" BY <1>4 DEF LosesPower
  <2> QED BY <1>4, <2>1, LosesPowerKeeps DEF StartAction
<1>5. CASE \E a \in Axes : \E bad \in Unread : ReconnectFails(a, bad)
  <2>1. phase' = phase BY <1>5 DEF ReconnectFails
  <2> QED BY <1>5, <2>1, ReconnectFailsKeeps DEF StartAction
<1>6. CASE \E bad \in Unread : Reconnects(bad)
  BY <1>6, ReconnectsKeeps DEF StartAction
<1>7. CASE Cycle
  <2>1. phase' = phase BY <1>7 DEF Cycle
  <2> QED BY <1>7, <2>1, CycleKeeps DEF StartAction
<1>8. CASE UNCHANGED vars
  <2>1. UNCHANGED <<phase, od, saved, cache, invalid, conv, ctl, rx, modes, doubt,
                    answer, served, losses>>
    BY <1>8 DEF vars
  <2>2. TypeOK' /\ UnitsFit' /\ FreshServer' /\ AnswerIsCurrent'
    BY <2>1 DEF ParameterInv, ServerAgrees, TypeOK, UnitsFit, FreshServer, AnswerIsCurrent
  <2>3. CopiesFollowCache' /\ RunningIsValid' /\ ModeIsCommanded'
    BY <2>1 DEF ParameterInv, ServerAgrees, CopiesFollowCache, RunningIsValid, ModeIsCommanded
  <2>4. CacheTellsTheTruth' /\ SuccessIsReal'
    BY <2>1 DEF ParameterInv, CacheTellsTheTruth, SuccessIsReal, Effective
  <2> QED BY <2>1, <2>2, <2>3, <2>4, QuietKept DEF ParameterInv, ServerAgrees, StartAction
<1> QED BY <1>1, <1>2, <1>3, <1>4, <1>5, <1>6, <1>7, <1>8 DEF Next

(* ParameterInv holds in every state the server and its drives reach.      *)
THEOREM ParameterInvariant == Spec => []ParameterInv
<1>1. ParameterInv /\ [Next]_vars => ParameterInv' BY NextKeeps
<1> QED BY InitInv, <1>1, PTL DEF Spec

(* What the server keeps besides its cache (unit converters, limits of the *)
(* controller, validity, modes) agrees with the cache and with the bus.    *)
THEOREM TheServerAgrees == Spec => []ServerAgrees
<1>1. ParameterInv => ServerAgrees BY DEF ParameterInv
<1> QED BY ParameterInvariant, <1>1, PTL

(* While the bus runs the cache of axis_parameters.py says of a group of   *)
(* parameters what the drive has, unless it is known not to be read back.  *)
THEOREM TheCacheTellsTheTruth == Spec => []CacheTellsTheTruth
<1>1. ParameterInv => CacheTellsTheTruth BY DEF ParameterInv
<1> QED BY ParameterInvariant, <1>1, PTL

(* A settings request that is answered with success has reached every      *)
(* drive it names, and the cycles that follow do not undo it.              *)
THEOREM TheSuccessIsReal == Spec => []SuccessIsReal
<1>1. ParameterInv => SuccessIsReal BY DEF ParameterInv
<1> QED BY ParameterInvariant, <1>1, PTL

(* Starting, reconnecting and settings requests change no parameter of a   *)
(* drive that nobody asked to change.                                      *)
THEOREM TheParametersAreKept == Spec => ParametersAreKept
<1>1. ParameterInv /\ [Next]_vars =>
        [ phase # "run" /\ phase' = "run"
          => \A a \in Axes : \A f \in Fields :
               \/ od'[a].param[f] = od[a].param[f]
               \/ f = "vel" /\ "vel" \in doubt'[a] ]_vars
  BY NextKeeps DEF StartAction, StartKept
<1>2. ParameterInv /\ [Next]_vars =>
        [ served' # served /\ answer'.ok /\ Cardinality(DOMAIN answer'.set) = 1
          => \A a \in answer'.axes : \A f \in DOMAIN answer'.set :
               LET g == Other(f) IN
               \/ GroupOf(g) \in doubt[a]
               \/ Effective(a, g)' = Effective(a, g)
               \/ /\ g \in {"pos", "vel", "acc"}
                  /\ Effective(a, g)' = Effective(a, g) - 1 ]_vars
  BY NextKeeps DEF OthersKept
<1> QED BY ParameterInvariant, <1>1, <1>2, PTL
  DEF Spec, ParametersAreKept, StartKeepsDrives, UnnamedIsKept
=============================================================================
