----------------------- MODULE ClientConnection_proofs -----------------------
(***************************************************************************)
(* Proofs about the two ends of a client connection, for every bound.      *)
(*                                                                         *)
(* The server's end is CommandAuthority, for every set of connections:     *)
(* IdInv is inductive; the action properties and the refinement of         *)
(* AuthorityLock follow from it step by step.  The client's end is         *)
(* ReferenceClient, for every set of calling threads: the table of pending *)
(* requests is sound and stop() is final.  ClientInv is its inductive      *)
(* invariant.                                                              *)
(***************************************************************************)
EXTENDS CommandAuthority, ReferenceClient, SequenceTheorems, TLAPS

-----------------------------------------------------------------------------
(* Command authority *)

\* What recv returns is a sequence of requests.
LEMMA ChunkType == Chunks \subseteq Seq(Requests)
<1>1. ASSUME NEW n \in 1 .. MaxChunk, NEW s \in [1 .. n -> Requests]
      PROVE  s \in Seq(Requests)
  BY <1>1, MaxChunkAssumption
<1> QED BY <1>1 DEF Chunks

LEMMA NoChunkType == <<>> \in Seq(Requests)
OBVIOUS

LEMMA IdRanges == 0 \in 0 .. MaxId /\ 1 \in 1 .. MaxId + 1
BY MaxIdAssumption

\* A step that leaves the ids alone keeps everything said about them, if the
\* owner stays a client's id and the serviced clients stay in the list.
LEMMA SameIds ==
    ASSUME IdInv, AuthorityTypeOK', UNCHANGED <<id, nextClientId>>,
           loop' = "degraded" => loop = "degraded",
           owner' # 0 => owner' = owner \/ \E c \in Conns : id[c] # 0 /\ owner' = id[c],
           ServicedIsClient'
    PROVE  IdInv'
<1>1. ClientsDiffer' BY DEF IdInv, ClientsDiffer
<1>2. CounterIsAhead' BY DEF IdInv, CounterIsAhead
<1>3. NoOrphanedAuthority'
  BY DEF IdInv, NoOrphanedAuthority, UsedIds, Clients
<1> QED BY <1>1, <1>2, <1>3 DEF IdInv

\* A new client gets an id that no other client has.
LEMMA NewClient ==
    ASSUME IdInv, AuthorityTypeOK', NEW c \in Conns, NEW n \in 1 .. MaxId,
           id[c] = 0, \A d \in Conns : id[d] # n,
           id' = [id EXCEPT ![c] = n],
           UNCHANGED owner, CounterIsAhead', ServicedIsClient'
    PROVE  IdInv'
<1>1. \A d \in Conns : id'[d] = IF d = c THEN n ELSE id[d]
  BY DEF IdInv, AuthorityTypeOK
<1>2. ClientsDiffer' BY <1>1 DEF IdInv, ClientsDiffer
<1>3. NoOrphanedAuthority'
  BY <1>1 DEF IdInv, NoOrphanedAuthority, UsedIds, Clients
<1> QED BY <1>2, <1>3 DEF IdInv

\* Closing a client gives back its id and its authority.
LEMMA ClosedClient ==
    ASSUME IdInv, AuthorityTypeOK', NEW c \in Conns, id[c] # 0,
           CloseClient(c), UNCHANGED <<loop, nextClientId>>, ServicedIsClient'
    PROVE  IdInv'
<1>1. \A d \in Conns : id'[d] = IF d = c THEN 0 ELSE id[d]
  BY DEF IdInv, AuthorityTypeOK, CloseClient
<1>2. ClientsDiffer' BY <1>1 DEF IdInv, ClientsDiffer
<1>3. CounterIsAhead'
  <2>1. nextClientId > 0 BY DEF IdInv, AuthorityTypeOK
  <2> QED BY <1>1, <2>1 DEF IdInv, CounterIsAhead
<1>4. NoOrphanedAuthority'
  <2> SUFFICES ASSUME owner' # 0 PROVE owner' \in UsedIds'
    BY DEF NoOrphanedAuthority
  <2>1. owner' = owner /\ owner # id[c] BY DEF CloseClient
  <2>2. PICK d \in Conns : id[d] # 0 /\ id[d] = owner
    BY <2>1 DEF IdInv, NoOrphanedAuthority, UsedIds, Clients
  <2>3. id'[d] = owner' /\ id'[d] # 0 BY <1>1, <2>1, <2>2
  <2> QED BY <2>3 DEF UsedIds, Clients
<1> QED BY <1>2, <1>3, <1>4 DEF IdInv

\* A dispatched request leaves the ids, the round and the network alone.
LEMMA DispatchFacts ==
    ASSUME IdInv, DispatchRequest
    PROVE  /\ current \in Conns /\ id[current] \in 1 .. MaxId
           /\ chunk # <<>> /\ chunk' \in Seq(Requests)
           /\ UNCHANGED <<round, peer, id, nextClientId, current>>
           /\ recovered' \in BOOLEAN /\ restartRequested' \in BOOLEAN
           /\ \/ owner' = owner
              \/ Head(chunk) = "request" /\ owner = 0 /\ owner' = id[current]
              \/ Head(chunk) = "release" /\ owner = id[current] /\ owner' = 0
<1>1. PICK r \in Requests : Dispatch(r)
  BY DEF DispatchRequest, RequestAuthority, ReleaseAuthority, CommandRefused,
    CommandRuns, RestartAccepted, ReconnectCompletes, InitReconnectCompletes, Requests
<1>2. /\ current \in Conns /\ id[current] \in 1 .. MaxId
      /\ chunk # <<>> /\ chunk' \in Seq(Requests)
      /\ UNCHANGED <<round, peer, id, nextClientId, current>>
  <2>1. /\ current \in Conns /\ chunk # <<>> /\ chunk' = Tail(chunk)
        /\ UNCHANGED <<round, peer, id, nextClientId, current>>
    BY <1>1 DEF Dispatch, IdInv, AuthorityTypeOK
  <2>2. id[current] \in 1 .. MaxId
    BY <2>1, MaxIdAssumption, NoConnAssumption DEF IdInv, AuthorityTypeOK, ServicedIsClient
  <2>3. chunk' \in Seq(Requests) BY <2>1 DEF IdInv, AuthorityTypeOK
  <2> QED BY <2>1, <2>2, <2>3
<1>3. recovered' \in BOOLEAN /\ restartRequested' \in BOOLEAN
  BY DEF DispatchRequest, RequestAuthority, ReleaseAuthority, CommandRefused,
    CommandRuns, RestartAccepted, ReconnectCompletes, InitReconnectCompletes, IdInv, AuthorityTypeOK
<1>4. \/ owner' = owner
      \/ Head(chunk) = "request" /\ owner = 0 /\ owner' = id[current]
      \/ Head(chunk) = "release" /\ owner = id[current] /\ owner' = 0
  BY DEF DispatchRequest, RequestAuthority, ReleaseAuthority, CommandRefused,
    CommandRuns, RestartAccepted, ReconnectCompletes, InitReconnectCompletes, Dispatch
<1> QED BY <1>2, <1>3, <1>4

\* Client ids are unique and the owner is one of them, whatever connects,
\* disconnects, fails, reconnects or restarts.
THEOREM IdsIdentifyClients == AuthoritySpec => []IdInv
<1>1. ASSUME AuthorityInit PROVE IdInv
  <2>1. id \in [Conns -> 0 .. MaxId] /\ nextClientId \in 1 .. MaxId + 1 /\ owner \in 0 .. MaxId
    BY <1>1, IdRanges DEF AuthorityInit
  <2>2. AuthorityTypeOK BY <1>1, <2>1, NoChunkType DEF AuthorityInit, AuthorityTypeOK
  <2>3. ClientsDiffer /\ ServicedIsClient /\ NoOrphanedAuthority
    BY <1>1 DEF AuthorityInit, ClientsDiffer, ServicedIsClient, NoOrphanedAuthority
  <2>4. CounterIsAhead BY <1>1 DEF AuthorityInit, CounterIsAhead
  <2> QED BY <2>2, <2>3, <2>4 DEF IdInv
<1>2. ASSUME IdInv, [AuthorityNext]_authorityVars PROVE IdInv'
  <2>0. AuthorityTypeOK /\ ServicedIsClient /\ CounterIsAhead BY <1>2 DEF IdInv
  <2>1. CASE PeerStep
    <3>1. PICK c \in Conns : Connect(c) \/ HangUp(c) BY <2>1 DEF PeerStep
    <3>2. AuthorityTypeOK' BY <2>0, <3>1 DEF AuthorityTypeOK, Connect, HangUp, round
    <3>3. ServicedIsClient' BY <2>0, <3>1 DEF ServicedIsClient, Connect, HangUp, round
    <3> QED BY <1>2, <3>1, <3>2, <3>3, SameIds DEF Connect, HangUp, round
  <2>2. CASE CycleRuns \/ CycleLosesBus
    <3>1. current = NoConn
      BY <2>0, <2>2 DEF AuthorityTypeOK, ServicedIsClient, CycleRuns, CycleLosesBus
    <3>2. AuthorityTypeOK' BY <2>0, <2>2 DEF AuthorityTypeOK, CycleRuns, CycleLosesBus
    <3>3. ServicedIsClient'
      BY <2>0, <2>2, <3>1 DEF ServicedIsClient, CycleRuns, CycleLosesBus
    <3> QED BY <1>2, <2>2, <3>2, <3>3, SameIds DEF CycleRuns, CycleLosesBus
  <2>3. CASE \E c \in Conns : ServerAccepts(c) \/ DisconnectedAccepts(c)
    <3>1. PICK c \in Conns : ServerAccepts(c) \/ DisconnectedAccepts(c) BY <2>3
    <3>2. PICK n \in 1 .. MaxId : AllocatedId(n) /\ id' = [id EXCEPT ![c] = n]
      BY <3>1 DEF ServerAccepts, DisconnectedAccepts, AppendClient
    <3>3. /\ id[c] = 0 /\ \A d \in Conns : id[d] # n
          /\ current = NoConn /\ current' = NoConn
          /\ UNCHANGED <<owner, loop>> /\ loop # "degraded"
      BY <2>0, <3>1, <3>2 DEF ServerAccepts, DisconnectedAccepts, AppendClient, Waiting,
        AllocatedId, UsedIds, Clients, ServicedIsClient, round
    <3>4. turn' \subseteq Conns /\ \A d \in turn' : id'[d] # 0
      BY <2>0, <3>1, <3>2 DEF ServerAccepts, DisconnectedAccepts, StartService, round,
        ServicedIsClient, AuthorityTypeOK
    <3>5. AuthorityTypeOK'
      BY <2>0, <3>1, <3>2, <3>4 DEF AuthorityTypeOK, ServerAccepts, DisconnectedAccepts,
        StartService, round
    <3>6. CounterIsAhead' BY <3>3 DEF CounterIsAhead
    <3>7. ServicedIsClient' BY <3>3, <3>4 DEF ServicedIsClient
    <3> QED BY <1>2, <3>2, <3>3, <3>5, <3>6, <3>7, NewClient
  <2>4. CASE \E c \in Conns : DegradedAccepts(c)
    <3>1. PICK c \in Conns : DegradedAccepts(c) BY <2>4
    <3>2. /\ nextClientId \in 1 .. MaxId /\ id' = [id EXCEPT ![c] = nextClientId]
          /\ nextClientId' = nextClientId + 1 /\ loop = "degraded"
          /\ UNCHANGED <<loop, owner, current>> /\ id[c] = 0 /\ phase = "accept"
      BY <2>0, <3>1 DEF DegradedAccepts, AuthorityTypeOK, Waiting
    <3>3. \A d \in Conns : id[d] # nextClientId
      BY <2>0, <3>2 DEF CounterIsAhead, AuthorityTypeOK
    <3>4. current' = NoConn BY <2>0, <3>2 DEF ServicedIsClient
    <3>5. turn' \subseteq Conns /\ \A d \in turn' : id'[d] # 0
      BY <3>1 DEF DegradedAccepts, StartService
    <3>6. AuthorityTypeOK'
      <4>1. id' \in [Conns -> 0 .. MaxId] /\ nextClientId' \in 1 .. MaxId + 1
        BY <2>0, <3>2, MaxIdAssumption DEF AuthorityTypeOK
      <4> QED BY <2>0, <3>1, <3>2, <3>5, <4>1 DEF AuthorityTypeOK, DegradedAccepts, StartService
    <3>7. CounterIsAhead'
      BY <2>0, <3>2 DEF CounterIsAhead, AuthorityTypeOK
    <3>8. ServicedIsClient' BY <3>4, <3>5 DEF ServicedIsClient
    <3> QED BY <1>2, <3>2, <3>3, <3>6, <3>7, <3>8, NewClient
  <2>5. CASE NobodyWaits
    <3>1. current = NoConn BY <2>0, <2>5 DEF ServicedIsClient, NobodyWaits
    <3>2. AuthorityTypeOK' BY <2>0, <2>5 DEF AuthorityTypeOK, NobodyWaits, StartService
    <3>3. ServicedIsClient'
      BY <2>5, <3>1 DEF ServicedIsClient, NobodyWaits, StartService
    <3> QED BY <1>2, <2>5, <3>2, <3>3, SameIds DEF NobodyWaits
  <2>6. CASE \E c \in Conns : NothingReadable(c) \/ ReadChunk(c)
    <3>1. PICK c \in Conns : NothingReadable(c) \/ ReadChunk(c) BY <2>6
    <3>2. AuthorityTypeOK'
      BY <2>0, <3>1, ChunkType DEF AuthorityTypeOK, NothingReadable, ReadChunk, InTurn
    <3>3. ServicedIsClient'
      BY <2>0, <3>1 DEF ServicedIsClient, NothingReadable, ReadChunk, InTurn
    <3> QED BY <1>2, <3>1, <3>2, <3>3, SameIds DEF NothingReadable, ReadChunk
  <2>7. CASE \E c \in Conns : EndOfFile(c) \/ ServiceRaises(c)
    <3>1. PICK c \in Conns : EndOfFile(c) \/ ServiceRaises(c) BY <2>7
    <3>2. id[c] # 0 /\ CloseClient(c) /\ UNCHANGED <<loop, phase, nextClientId>>
      BY <2>0, <3>1, NoConnAssumption DEF ServicedIsClient, EndOfFile, ServiceRaises, InTurn
    <3>3. current' = NoConn /\ turn' = turn \ {c} /\ chunk' \in Seq(Requests)
      BY <2>0, <3>1, NoChunkType DEF EndOfFile, ServiceRaises, InTurn, AuthorityTypeOK
    <3>4. AuthorityTypeOK'
      <4>1. id' \in [Conns -> 0 .. MaxId] /\ owner' \in 0 .. MaxId
            /\ peer' \in [Conns -> {"away", "up", "leaving", "gone"}]
        BY <2>0, <3>2, MaxIdAssumption DEF CloseClient, AuthorityTypeOK
      <4>2. UNCHANGED <<recovered, restartRequested>>
        BY <3>1 DEF EndOfFile, ServiceRaises
      <4> QED BY <2>0, <3>2, <3>3, <4>1, <4>2 DEF AuthorityTypeOK
    <3>5. ServicedIsClient'
      BY <2>0, <3>2, <3>3 DEF ServicedIsClient, CloseClient, AuthorityTypeOK
    <3> QED BY <1>2, <3>2, <3>4, <3>5, ClosedClient
  <2>8. CASE ServiceEnds
    <3>1. AuthorityTypeOK' BY <2>0, <2>8 DEF AuthorityTypeOK, ServiceEnds, round
    <3>2. ServicedIsClient' BY <2>0, <2>8 DEF ServicedIsClient, ServiceEnds, round
    <3> QED BY <1>2, <2>8, <3>1, <3>2, SameIds DEF ServiceEnds, round
  <2>9. CASE DispatchRequest
    <3>1. /\ UNCHANGED <<loop, phase, turn, peer, id, nextClientId, current>>
          /\ current \in Conns /\ id[current] \in 1 .. MaxId
          /\ chunk' \in Seq(Requests)
          /\ recovered' \in BOOLEAN /\ restartRequested' \in BOOLEAN
          /\ owner' = owner \/ owner' = id[current] \/ owner' = 0
      BY <1>2, <2>9, DispatchFacts DEF round
    <3>2. AuthorityTypeOK'
      <4>1. owner' \in 0 .. MaxId BY <2>0, <3>1, MaxIdAssumption DEF AuthorityTypeOK
      <4> QED BY <2>0, <3>1, <4>1 DEF AuthorityTypeOK
    <3>3. ServicedIsClient' BY <2>0, <3>1 DEF ServicedIsClient
    <3> QED BY <1>2, <3>1, <3>2, <3>3, SameIds
  <2>10. CASE NextRound
    <3>1. AuthorityTypeOK' BY <2>0, <2>10 DEF AuthorityTypeOK, NextRound
    <3>2. ServicedIsClient' BY <2>0, <2>10 DEF ServicedIsClient, NextRound, RoundDone
    <3> QED BY <1>2, <2>10, <3>1, <3>2, SameIds DEF NextRound
  <2>11. CASE Restart
    <3>0. id' \in [Conns -> 0 .. MaxId] /\ nextClientId' \in 1 .. MaxId + 1
          /\ owner' \in 0 .. MaxId
      BY <2>11, IdRanges DEF Restart
    <3>1. AuthorityTypeOK' BY <2>0, <2>11, <3>0 DEF AuthorityTypeOK, Restart
    <3>2. ServicedIsClient' BY <2>0, <2>11 DEF ServicedIsClient, Restart, RoundDone
    <3> QED BY <2>11, <3>1, <3>2 DEF IdInv, Restart, ClientsDiffer, CounterIsAhead,
      NoOrphanedAuthority
  <2>12. CASE UNCHANGED authorityVars
    BY <1>2, <2>12 DEF authorityVars, IdInv, AuthorityTypeOK, ClientsDiffer, CounterIsAhead,
      ServicedIsClient, NoOrphanedAuthority, UsedIds, Clients
  <2> QED BY <1>2, <2>1, <2>2, <2>3, <2>4, <2>5, <2>6, <2>7, <2>8, <2>9, <2>10, <2>11,
    <2>12 DEF AuthorityNext, ServerStep, Accept, Service
<1> QED BY <1>1, <1>2, PTL DEF AuthoritySpec

\* Authority is never left with an id that no client has.
THEOREM AuthorityIsNotOrphaned == AuthoritySpec => []NoOrphanedAuthority
<1>1. IdInv => NoOrphanedAuthority BY DEF IdInv
<1> QED BY <1>1, IdsIdentifyClients, PTL

\* How a step changes the clients and their authority: it leaves both alone,
\* adds one client, removes one client with its authority, grants or gives
\* back authority at the request of the client itself, or restarts the server.
Attaches(c) ==
    /\ id[c] = 0 /\ id'[c] # 0
    /\ ~HasAuthority(c)'
    /\ \A d \in Conns \ {c} : id'[d] = id[d] /\ (HasAuthority(d)' <=> HasAuthority(d))

Detaches(c) ==
    /\ id[c] # 0 /\ id'[c] = 0
    /\ \A d \in Conns \ {c} : id'[d] = id[d] /\ (HasAuthority(d)' <=> HasAuthority(d))

Grants(c) ==
    /\ UNCHANGED id
    /\ current = c /\ chunk # <<>> /\ Head(chunk) = "request" /\ id[c] # 0
    /\ \A d \in Conns : ~HasAuthority(d) /\ (HasAuthority(d)' <=> d = c)

GivesBack(c) ==
    /\ UNCHANGED id
    /\ current = c /\ chunk # <<>> /\ Head(chunk) = "release"
    /\ \A d \in Conns : (HasAuthority(d) <=> d = c) /\ ~HasAuthority(d)'

Disturbs ==
    \/ UNCHANGED <<id, owner>>
    \/ \E c \in Conns : Attaches(c) \/ Detaches(c) \/ Grants(c) \/ GivesBack(c)
    \/ \A d \in Conns : id'[d] = 0

LEMMA StepDisturbs ==
    ASSUME IdInv, IdInv', [AuthorityNext]_authorityVars
    PROVE  Disturbs
<1>1. CASE \E c \in Conns : ServerAccepts(c) \/ DisconnectedAccepts(c) \/ DegradedAccepts(c)
  <2>1. PICK c \in Conns : ServerAccepts(c) \/ DisconnectedAccepts(c) \/ DegradedAccepts(c)
    BY <1>1
  <2>2. PICK n \in 1 .. MaxId : id' = [id EXCEPT ![c] = n]
    BY <2>1 DEF ServerAccepts, DisconnectedAccepts, DegradedAccepts, AppendClient, IdInv,
      AuthorityTypeOK
  <2>3. id[c] = 0 /\ owner' = owner
    BY <2>1 DEF ServerAccepts, DisconnectedAccepts, DegradedAccepts, AppendClient, Waiting
  <2>4. id'[c] = n /\ n # 0 /\ \A d \in Conns \ {c} : id'[d] = id[d]
    BY <2>2, MaxIdAssumption DEF IdInv, AuthorityTypeOK
  <2>5. owner # n
    <3> SUFFICES ASSUME owner = n PROVE FALSE OBVIOUS
    <3>1. PICK d \in Conns : id[d] # 0 /\ id[d] = n
      BY <2>4 DEF IdInv, NoOrphanedAuthority, UsedIds, Clients
    <3>2. id'[d] = n /\ d # c BY <2>3, <2>4, <3>1
    <3> QED BY <2>4, <3>2 DEF IdInv, ClientsDiffer
  <2> QED BY <2>3, <2>4, <2>5 DEF Disturbs, Attaches, HasAuthority
<1>2. CASE \E c \in Conns : EndOfFile(c) \/ ServiceRaises(c)
  <2>1. PICK c \in Conns : EndOfFile(c) \/ ServiceRaises(c) BY <1>2
  <2>2. id[c] # 0 /\ CloseClient(c)
    BY <2>1, NoConnAssumption DEF IdInv, ServicedIsClient, EndOfFile, ServiceRaises, InTurn
  <2>3. id'[c] = 0 /\ \A d \in Conns \ {c} : id'[d] = id[d]
    BY <2>2 DEF CloseClient, IdInv, AuthorityTypeOK
  <2>4. \A d \in Conns \ {c} : HasAuthority(d)' <=> HasAuthority(d)
    BY <2>2, <2>3 DEF CloseClient, HasAuthority, IdInv, ClientsDiffer
  <2> QED BY <2>2, <2>3, <2>4 DEF Disturbs, Detaches
<1>3. CASE DispatchRequest
  <2>1. /\ current \in Conns /\ id[current] \in 1 .. MaxId /\ chunk # <<>> /\ UNCHANGED id
        /\ \/ owner' = owner
           \/ Head(chunk) = "request" /\ owner = 0 /\ owner' = id[current]
           \/ Head(chunk) = "release" /\ owner = id[current] /\ owner' = 0
    BY <1>3, DispatchFacts
  <2>2. id[current] # 0 BY <2>1, MaxIdAssumption
  <2>3. CASE owner' = owner BY <2>1, <2>3 DEF Disturbs
  <2>4. CASE Head(chunk) = "request" /\ owner = 0 /\ owner' = id[current]
    <3>1. Grants(current)
      BY <2>1, <2>2, <2>4 DEF Grants, HasAuthority, IdInv, ClientsDiffer
    <3> QED BY <2>1, <3>1 DEF Disturbs
  <2>5. CASE Head(chunk) = "release" /\ owner = id[current] /\ owner' = 0
    <3>1. GivesBack(current)
      BY <2>1, <2>2, <2>5 DEF GivesBack, HasAuthority, IdInv, ClientsDiffer
    <3> QED BY <2>1, <3>1 DEF Disturbs
  <2> QED BY <2>1, <2>3, <2>4, <2>5
<1>4. CASE Restart
  BY <1>4 DEF Restart, Disturbs
<1>5. CASE PeerStep \/ CycleRuns \/ CycleLosesBus \/ NobodyWaits \/ ServiceEnds
           \/ NextRound \/ UNCHANGED authorityVars
           \/ \E c \in Conns : NothingReadable(c) \/ ReadChunk(c)
  BY <1>5 DEF PeerStep, Connect, HangUp, CycleRuns, CycleLosesBus, NobodyWaits, ServiceEnds,
    NextRound, NothingReadable, ReadChunk, authorityVars, Disturbs
<1> QED BY <1>1, <1>2, <1>3, <1>4, <1>5 DEF AuthorityNext, ServerStep, Accept, Service

\* Authority is gained by a request of the connection itself.
THEOREM AuthorityIsRequested == AuthoritySpec => GainedByRequestOnly
<1>1. ASSUME IdInv, IdInv', [AuthorityNext]_authorityVars, NEW c \in Conns, ~HasAuthority(c), HasAuthority(c)'
      PROVE  current = c /\ chunk # <<>> /\ Head(chunk) = "request"
  <2>1. Disturbs BY <1>1, StepDisturbs
  <2> QED BY <1>1, <2>1 DEF Disturbs, Attaches, Detaches, Grants, GivesBack, HasAuthority
<1>2. ASSUME IdInv, IdInv', [AuthorityNext]_authorityVars
      PROVE  [\A c \in Conns : ~HasAuthority(c) /\ HasAuthority(c)' =>
                current = c /\ chunk # <<>> /\ Head(chunk) = "request"]_authorityVars
  BY <1>1, <1>2
<1> QED BY <1>2, IdsIdentifyClients, PTL DEF AuthoritySpec, GainedByRequestOnly

\* Authority is lost by a release of the connection itself or with it.
THEOREM AuthorityIsKept == AuthoritySpec => OwnerKeepsAuthority
<1>1. ASSUME IdInv, IdInv', [AuthorityNext]_authorityVars, NEW c \in Conns, HasAuthority(c), ~HasAuthority(c)'
      PROVE  id'[c] = 0 \/ (current = c /\ chunk # <<>> /\ Head(chunk) = "release")
  <2>1. Disturbs BY <1>1, StepDisturbs
  <2> QED BY <1>1, <2>1 DEF Disturbs, Attaches, Detaches, Grants, GivesBack, HasAuthority
<1>2. ASSUME IdInv, IdInv', [AuthorityNext]_authorityVars
      PROVE  [\A c \in Conns : HasAuthority(c) /\ ~HasAuthority(c)' =>
                \/ id'[c] = 0
                \/ current = c /\ chunk # <<>> /\ Head(chunk) = "release"]_authorityVars
  BY <1>1, <1>2
<1> QED BY <1>2, IdsIdentifyClients, PTL DEF AuthoritySpec, OwnerKeepsAuthority

\* Command authority by client id implements a lock on connections.
THEOREM AuthorityIsALock == AuthoritySpec => ImplementsLock
<1> DEFINE H == {c \in Conns : HasAuthority(c)}
<1>1. AuthorityInit => Lock!Init
  BY DEF AuthorityInit, Lock!Init, Clients, HasAuthority
<1>2. ASSUME IdInv, IdInv', [AuthorityNext]_authorityVars
      PROVE  [Lock!Next]_<<Clients, {c \in Conns : HasAuthority(c)}>>
  <2>1. Disturbs BY <1>2, StepDisturbs
  <2>2. CASE UNCHANGED <<id, owner>>
    BY <2>2 DEF Clients, HasAuthority
  <2>3. ASSUME NEW c \in Conns, Attaches(c) PROVE Lock!Attach(c)
    <3>1. c \notin Clients /\ Clients' = Clients \union {c}
      BY <2>3 DEF Attaches, Clients
    <3>2. H' = H BY <2>3 DEF Attaches, HasAuthority
    <3> QED BY <3>1, <3>2 DEF Lock!Attach
  <2>4. ASSUME NEW c \in Conns, Detaches(c) PROVE Lock!Detach(c)
    <3>1. c \in Clients /\ Clients' = Clients \ {c}
      BY <2>4 DEF Detaches, Clients
    <3>2. H' = H \ {c} BY <2>4 DEF Detaches, HasAuthority
    <3> QED BY <3>1, <3>2 DEF Lock!Detach
  <2>5. ASSUME NEW c \in Conns, Grants(c) PROVE Lock!Grant(c)
    <3>1. c \in Clients /\ Clients' = Clients BY <2>5 DEF Grants, Clients
    <3>2. H = {} /\ H' = {c} BY <2>5 DEF Grants
    <3> QED BY <3>1, <3>2 DEF Lock!Grant
  <2>6. ASSUME NEW c \in Conns, GivesBack(c) PROVE Lock!GiveBack(c)
    <3>1. Clients' = Clients BY <2>6 DEF GivesBack, Clients
    <3>2. H = {c} /\ H' = {} BY <2>6 DEF GivesBack
    <3> QED BY <3>1, <3>2 DEF Lock!GiveBack
  <2>7. CASE \A d \in Conns : id'[d] = 0
    <3>1. Clients' = {} /\ H' = {} BY <2>7 DEF Clients, HasAuthority
    <3> QED BY <3>1 DEF Lock!Next, Lock!Reset
  <2> QED BY <2>1, <2>2, <2>3, <2>4, <2>5, <2>6, <2>7 DEF Disturbs, Lock!Next
<1> QED BY <1>1, <1>2, IdsIdentifyClients, PTL DEF AuthoritySpec, ImplementsLock, Lock!Spec

-----------------------------------------------------------------------------
(* The reference client *)

\* Request ids are drawn in order and no two calls hold the same one.
IdsAreDrawn ==
  /\ pending \subseteq 1 .. nextId
  /\ reader.id \in 0 .. nextId
  /\ \A t \in Threads : tear[t].failed \subseteq 1 .. nextId
  /\ \A c \in Callers : req[c].id \in 0 .. nextId
  /\ \A c, d \in Callers : req[c].id = req[d].id /\ req[c].id # 0 => c = d

\* Who takes a request off the table, or ends its wait, leaves no copy on it.
TakenIsOff ==
  /\ At("setting") => reader.id # 0 /\ reader.id \notin pending
  /\ \A t \in Threads : tear[t].failed \cap pending = {}
  /\ \A c \in Callers :
       req[c].outcome # "none" \/ req[c].pc = "failing" => req[c].id \notin pending

\* A thread is inside _disconnect() exactly where its own code calls it.
TearFits ==
  /\ \A t \in Threads : ~tear[t].busy => tear[t] = NoTear
  /\ tear["reader"].busy => At("tearing")
  /\ halting => ~tear["owner"].busy
  /\ \A c \in Callers : tear[c].busy => req[c].pc = "failing"
  /\ \A c \in Callers : req[c].pc = "idle" <=> req[c].id = 0

\* The reader is the only thread that connects.
ReaderFits ==
  /\ reader.pc \in {"idle", "connecting", "tearing", "ended"} => sock = 0
  /\ reader.pc \in {"receiving", "routing", "setting"} => reader.sock # 0

ClientInv ==
  /\ TypeOK /\ IdsAreDrawn /\ TakenIsOff /\ TearFits /\ ReaderFits
  /\ PendingIsLive /\ NobodyForgotten /\ StopIsFinal
-----------------------------------------------------------------------------
(* Types                                                                   *)

LEMMA Ranges ==
    /\ 0 \in 0 .. MaxConnections /\ 0 \in 0 .. MaxRequests
    /\ Connections \subseteq 0 .. MaxConnections /\ 0 \notin Connections
BY BoundsAssumption DEF Connections

\* The fields of the reader's record.
LEMMA ReaderFields ==
    ASSUME ClientInv
    PROVE  /\ TypeOK /\ reader \in ReaderStates /\ "reader" \in Threads
           /\ reader.batch \in Seq(0 .. MaxRequests)
           /\ reader.pc \in {"receiving", "routing", "setting"} => reader.sock \in Connections
<1>1. TypeOK /\ reader \in ReaderStates /\ "reader" \in Threads
  BY DEF ClientInv, TypeOK, Threads
<1>2. reader.batch \in Seq(0 .. MaxRequests) /\ reader.sock \in 0 .. MaxConnections
  BY <1>1 DEF ReaderStates
<1>3. reader.pc \in {"receiving", "routing", "setting"} => reader.sock # 0
  BY DEF ClientInv, ReaderFits
<1> QED BY <1>1, <1>2, <1>3, BoundsAssumption DEF Connections

\* A call of request() is idle, registers, moves on or gets its outcome.
LEMMA RequestType ==
    ASSUME NEW r \in RequestStates,
           NEW p \in {"idle", "locking", "sending", "waiting", "expired", "rewaiting",
                  "failing"},
           NEW o \in {"none", "response", "error"}
    PROVE  /\ Idle \in RequestStates
           /\ [r EXCEPT !.pc = p] \in RequestStates
           /\ [r EXCEPT !.outcome = o] \in RequestStates
BY BoundsAssumption DEF RequestStates, Idle

LEMMA DetachType ==
    ASSUME TypeOK, NEW t \in Threads, Detach(t)
    PROVE  /\ sock' \in 0 .. MaxConnections
           /\ pending' \subseteq Ids
           /\ tear' \in [Threads -> [busy : BOOLEAN, sock : 0 .. MaxConnections,
                                     failed : SUBSET Ids]]
<1>1. [busy |-> TRUE, sock |-> sock, failed |-> pending]
        \in [busy : BOOLEAN, sock : 0 .. MaxConnections, failed : SUBSET Ids]
  BY DEF TypeOK
<1> QED BY <1>1, BoundsAssumption DEF TypeOK, Detach

LEMMA ReaderKeepsType ==
    ASSUME ClientInv,
           LoopStarts \/ ConnectFails \/ Connects \/ TakesSocket \/ Receives
             \/ ReceiveRaises \/ RoutingRaises \/ BatchDone
    PROVE  TypeOK'
<1> USE BoundsAssumption
<1>0. TypeOK /\ reader \in ReaderStates /\ "reader" \in Threads
  BY ReaderFields
<1>1. CASE LoopStarts
  <2>1. reader' \in ReaderStates BY <1>0, <1>1 DEF ReaderStates, LoopStarts
  <2> QED BY <1>0, <1>1, <2>1 DEF TypeOK, LoopStarts
<1>2. CASE ConnectFails \/ ReceiveRaises
  <2>1. Detach("reader") /\ reader' \in ReaderStates
    BY <1>0, <1>2 DEF ReaderStates, ConnectFails, ReceiveRaises
  <2> QED BY <1>0, <1>2, <2>1, DetachType DEF TypeOK, ConnectFails, ReceiveRaises
<1>3. CASE Connects
  <2>1. reader' \in ReaderStates BY <1>0, <1>3 DEF ReaderStates, Connects
  <2>2. made + 1 \in 1 .. MaxConnections BY <1>0, <1>3 DEF TypeOK, Connects
  <2>3. made' \in 0 .. MaxConnections /\ sock' \in 0 .. MaxConnections
    BY <1>0, <1>3, <2>2 DEF TypeOK, Connects
  <2>4. wire' \in [Connections -> {"none", "up", "stalled", "eof", "closed"}]
    BY <1>0, <1>3 DEF TypeOK, Connects
  <2> QED BY <1>0, <1>3, <2>1, <2>3, <2>4 DEF TypeOK, Connects
<1>4. CASE TakesSocket
  <2>1. reader' \in ReaderStates
    <3>1. \/ reader' = [reader EXCEPT !.pc = "receiving", !.sock = sock]
          \/ reader' = [reader EXCEPT !.pc = "tearing"]
          \/ reader' = [reader EXCEPT !.pc = "idle"]
      BY <1>4 DEF TakesSocket
    <3>2. sock \in 0 .. MaxConnections BY <1>0 DEF TypeOK
    <3> QED BY <1>0, <3>1, <3>2 DEF ReaderStates
  <2>2. Detach("reader") \/ UNCHANGED <<sock, pending, tear>>
    BY <1>4 DEF TakesSocket
  <2>3. CASE Detach("reader")
    BY <1>0, <1>4, <2>1, <2>3, DetachType DEF TypeOK, TakesSocket
  <2> QED BY <1>0, <1>4, <2>1, <2>2, <2>3 DEF TypeOK, TakesSocket
<1>5. CASE Receives
  <2>1. reader.sock \in Connections
    BY <1>5, ReaderFields DEF Receives, At
  <2>2. inbox[reader.sock] \in Seq(0 .. MaxRequests) BY <1>0, <2>1 DEF TypeOK
  <2>3. PICK k \in 1 .. Len(inbox[reader.sock]) :
          /\ reader' = [reader EXCEPT !.pc = "routing",
                                      !.batch = SubSeq(inbox[reader.sock], 1, k)]
          /\ inbox' = [inbox EXCEPT ![reader.sock] = SubSeq(@, k + 1, Len(@))]
    BY <1>5 DEF Receives
  <2>4. /\ SubSeq(inbox[reader.sock], 1, k) \in Seq(0 .. MaxRequests)
        /\ SubSeq(inbox[reader.sock], k + 1, Len(inbox[reader.sock]))
             \in Seq(0 .. MaxRequests)
    <3>1. \A i \in 1 .. Len(inbox[reader.sock]) : inbox[reader.sock][i] \in 0 .. MaxRequests
      BY <2>2
    <3>2. \A i \in 1 .. k : inbox[reader.sock][i] \in 0 .. MaxRequests BY <2>2, <3>1
    <3>3. \A i \in k + 1 .. Len(inbox[reader.sock]) :
            inbox[reader.sock][i] \in 0 .. MaxRequests
      BY <2>2, <3>1
    <3>4. 1 \in Int /\ k \in Int /\ k + 1 \in Int /\ Len(inbox[reader.sock]) \in Int
      BY <2>2
    <3>5. SubSeq(inbox[reader.sock], 1, k) \in Seq(0 .. MaxRequests)
      BY <3>2, <3>4, SubSeqProperties
    <3> QED BY <3>3, <3>4, <3>5, SubSeqProperties
  <2>5. reader' \in ReaderStates BY <1>0, <2>3, <2>4 DEF ReaderStates
  <2>6. inbox' \in [Connections -> Seq(0 .. MaxRequests)]
    BY <1>0, <2>1, <2>3, <2>4 DEF TypeOK
  <2> QED BY <1>0, <1>5, <2>5, <2>6 DEF TypeOK, Receives
<1>6. CASE BatchDone
  <2>1. reader' \in ReaderStates BY <1>0, <1>6, Ranges DEF ReaderStates, BatchDone
  <2> QED BY <1>0, <1>6, <2>1 DEF TypeOK, BatchDone
<1>7. CASE RoutingRaises
  <2>1. <<>> \in Seq(0 .. MaxRequests) OBVIOUS
  <2>2. Detach("reader") /\ reader' \in ReaderStates
    BY <1>0, <1>7, <2>1 DEF ReaderStates, RoutingRaises
  <2> QED BY <1>0, <1>7, <2>2, DetachType DEF TypeOK, RoutingRaises
<1> QED BY <1>1, <1>2, <1>3, <1>4, <1>5, <1>6, <1>7

LEMMA RoutingKeepsType ==
    ASSUME ClientInv, RoutesFeedback \/ RoutesAnswer \/ SetsEvent
    PROVE  TypeOK'
<1> USE BoundsAssumption
<1>0. TypeOK /\ reader \in ReaderStates /\ reader.batch \in Seq(0 .. MaxRequests)
  BY ReaderFields
<1>1. CASE RoutesFeedback
  <2>1. reader.sock \in Connections
    BY <1>1, ReaderFields DEF RoutesFeedback, At
  <2>2. reader' \in ReaderStates
    <3>1. reader.batch # <<>> /\ reader' = [reader EXCEPT !.batch = Tail(reader.batch)]
      BY <1>1 DEF RoutesFeedback
    <3>2. Tail(reader.batch) \in Seq(0 .. MaxRequests) BY <1>0, <3>1, HeadTailProperties
    <3> QED BY <1>0, <3>1, <3>2 DEF ReaderStates
  <2>3. feedback' \in Seq(Connections) /\ Len(feedback') <= QueueSize
    <3>1. CASE Len(feedback) = QueueSize
      <4>1. feedback # <<>> BY <1>0, <3>1 DEF TypeOK
      <4>2. Tail(feedback) \in Seq(Connections) /\ Len(Tail(feedback)) = QueueSize - 1
        BY <1>0, <3>1, <4>1 DEF TypeOK
      <4> QED BY <1>1, <2>1, <3>1, <4>2 DEF RoutesFeedback, Put
    <3>2. CASE Len(feedback) # QueueSize
      BY <1>0, <1>1, <2>1, <3>2 DEF TypeOK, RoutesFeedback, Put
    <3> QED BY <3>1, <3>2
  <2> QED BY <1>0, <1>1, <2>2, <2>3 DEF TypeOK, RoutesFeedback
<1>2. CASE RoutesAnswer
  <2>1. /\ Tail(reader.batch) \in Seq(0 .. MaxRequests)
        /\ Head(reader.batch) \in 0 .. MaxRequests
    <3>1. reader.batch # <<>> BY <1>2 DEF RoutesAnswer
    <3> QED BY <1>0, <3>1, HeadTailProperties
  <2>2. reader' = [reader EXCEPT
                     !.batch = Tail(reader.batch),
                     !.pc = IF Head(reader.batch) \in pending THEN "setting"
                                                              ELSE reader.pc,
                     !.id = IF Head(reader.batch) \in pending THEN Head(reader.batch)
                                                              ELSE reader.id]
    BY <1>2 DEF RoutesAnswer
  <2>3. reader' \in ReaderStates
    BY <1>0, <2>1, <2>2 DEF ReaderStates
  <2> QED BY <1>0, <1>2, <2>3 DEF TypeOK, RoutesAnswer
<1>3. CASE SetsEvent
  <2>1. reader' \in ReaderStates BY <1>0, <1>3, Ranges DEF ReaderStates, SetsEvent
  <2>2. req' \in [Callers -> RequestStates]
    BY <1>0, <1>3, RequestType DEF TypeOK, SetsEvent
  <2> QED BY <1>0, <1>3, <2>1, <2>2 DEF TypeOK, SetsEvent
<1> QED BY <1>1, <1>2, <1>3

LEMMA CallerKeepsType ==
    ASSUME ClientInv, NEW c \in Callers,
           Registers(c) \/ TakesSendLock(c) \/ Sends(c) \/ SendRaises(c) \/ Returns(c)
             \/ Expires(c) \/ GivesUp(c)
    PROVE  TypeOK'
<1> USE BoundsAssumption
<1>0. TypeOK /\ c \in Threads /\ req[c] \in RequestStates
  BY DEF ClientInv, TypeOK, Threads
<1>1. CASE Registers(c)
  <2>1. nextId + 1 \in Ids /\ nextId' \in 0 .. MaxRequests
    BY <1>0, <1>1 DEF TypeOK, Registers, Ids
  <2>2. [pc |-> "locking", id |-> nextId + 1, conn |-> sock, outcome |-> "none"]
          \in RequestStates
    BY <1>0, <2>1 DEF TypeOK, RequestStates, Ids
  <2>3. req' \in [Callers -> RequestStates]
    BY <1>0, <1>1, <2>2 DEF TypeOK, Registers
  <2> QED BY <1>0, <1>1, <2>1, <2>3 DEF TypeOK, Registers
<1>2. CASE Sends(c)
  <2>1. req[c].id \in Ids
    BY <1>0, <1>2 DEF ClientInv, TearFits, Sends, RequestStates, Ids
  <2>2. req' \in [Callers -> RequestStates]
    BY <1>0, <1>2, RequestType DEF TypeOK, Sends
  <2>3. asked' \in [Connections -> SUBSET Ids]
    BY <1>0, <1>2, <2>1 DEF TypeOK, Sends
  <2> QED BY <1>0, <1>2, <2>2, <2>3 DEF TypeOK, Sends
<1>3. CASE SendRaises(c)
  <2>1. req' \in [Callers -> RequestStates]
    BY <1>0, <1>3, RequestType DEF TypeOK, SendRaises
  <2>2. Detach(c) BY <1>3 DEF SendRaises
  <2> QED BY <1>0, <1>3, <2>1, <2>2, DetachType DEF TypeOK, SendRaises
<1>4. CASE TakesSendLock(c) \/ Returns(c) \/ Expires(c)
  <2>1. req' \in [Callers -> RequestStates]
    BY <1>0, <1>4, RequestType DEF TypeOK, TakesSendLock, Returns, Expires
  <2> QED BY <1>0, <1>4, <2>1 DEF TypeOK, TakesSendLock, Returns, Expires
<1>5. CASE GivesUp(c)
  <2>1. req' \in [Callers -> RequestStates]
    BY <1>0, <1>5, RequestType DEF TypeOK, GivesUp
  <2> QED BY <1>0, <1>5, <2>1 DEF TypeOK, GivesUp
<1> QED BY <1>1, <1>2, <1>3, <1>4, <1>5

LEMMA OthersKeepType ==
    ASSUME ClientInv,
           \/ Stop \/ StopDetaches \/ Start \/ GetFeedback \/ Server
           \/ \E t \in Threads : FinishDisconnect(t)
    PROVE  TypeOK'
<1> USE BoundsAssumption
<1>0. TypeOK /\ reader \in ReaderStates /\ "owner" \in Threads
  BY DEF ClientInv, TypeOK, Threads
<1>1. CASE Stop BY <1>0, <1>1 DEF TypeOK, Stop
<1>2. CASE StopDetaches
  <2>1. Detach("owner") BY <1>2 DEF StopDetaches
  <2> QED BY <1>0, <1>2, <2>1, DetachType DEF TypeOK, StopDetaches
<1>3. CASE Start
  <2>1. reader' \in ReaderStates BY <1>0, <1>3 DEF ReaderStates, Start
  <2> QED BY <1>0, <1>3, <2>1 DEF TypeOK, Start
<1>4. CASE GetFeedback
  BY <1>0, <1>4 DEF TypeOK, GetFeedback
<1>5. CASE Server
  <2>1. CASE \E n \in Connections, m \in 0 .. MaxRequests : ServerSends(n, m)
    <3>1. PICK n \in Connections, m \in 0 .. MaxRequests : ServerSends(n, m) BY <2>1
    <3>2. Append(inbox[n], m) \in Seq(0 .. MaxRequests) BY <1>0 DEF TypeOK
    <3>3. /\ inbox' \in [Connections -> Seq(0 .. MaxRequests)]
          /\ asked' \in [Connections -> SUBSET Ids]
      BY <1>0, <3>1, <3>2 DEF TypeOK, ServerSends
    <3> QED BY <1>0, <3>1, <3>3 DEF TypeOK, ServerSends
  <2>2. CASE \E n \in Connections : ServerStalls(n) \/ ServerCloses(n)
    BY <1>0, <2>2 DEF TypeOK, ServerStalls, ServerCloses
  <2> QED BY <1>5, <2>1, <2>2 DEF Server
<1>6. CASE \E t \in Threads : FinishDisconnect(t)
  <2>1. PICK t \in Threads : FinishDisconnect(t) BY <1>6
  <2>2. tear' \in [Threads -> [busy : BOOLEAN, sock : 0 .. MaxConnections,
                               failed : SUBSET Ids]]
    BY <1>0, <2>1 DEF TypeOK, FinishDisconnect, NoTear
  <2>3. reader' \in ReaderStates BY <1>0, <2>1, Ranges DEF ReaderStates, FinishDisconnect
  <2>4. req' \in [Callers -> RequestStates]
    <3>1. ASSUME NEW c \in Callers PROVE req'[c] \in RequestStates
      <4>1. req[c] \in RequestStates BY <1>0 DEF TypeOK
      <4> QED BY <2>1, <4>1, RequestType DEF FinishDisconnect
    <3>2. req' = [c \in Callers |-> req'[c]] BY <2>1 DEF FinishDisconnect
    <3> QED BY <3>1, <3>2
  <2>5. /\ wire' \in [Connections -> {"none", "up", "stalled", "eof", "closed"}]
        /\ asked' \in [Connections -> SUBSET Ids]
    BY <1>0, <2>1 DEF TypeOK, FinishDisconnect
  <2>6. inbox' \in [Connections -> Seq(0 .. MaxRequests)]
    <3>1. \A n \in Connections : inbox[n] \in Seq(0 .. MaxRequests) BY <1>0 DEF TypeOK
    <3>2. <<>> \in Seq(0 .. MaxRequests) OBVIOUS
    <3> QED BY <2>1, <3>1, <3>2 DEF FinishDisconnect
  <2>7. feedback' \in Seq(Connections) /\ Len(feedback') <= QueueSize
    BY <2>1 DEF FinishDisconnect
  <2> QED BY <1>0, <2>1, <2>2, <2>3, <2>4, <2>5, <2>6, <2>7 DEF TypeOK, FinishDisconnect
<1> QED BY <1>1, <1>2, <1>3, <1>4, <1>5, <1>6
-----------------------------------------------------------------------------
(* The invariant                                                           *)

\* A step that leaves the table, the calls and the threads inside
\* _disconnect() alone, and connects only while nothing is pending.
LEMMA TableUntouched ==
    ASSUME ClientInv, TypeOK', ReaderFits', StopIsFinal',
           UNCHANGED <<pending, req, tear, nextId>>,
           reader'.id = reader.id,
           reader'.pc = "setting" <=> reader.pc = "setting",
           reader.pc = "tearing" => reader'.pc = "tearing",
           halting' => halting \/ ~tear["owner"].busy,
           sock' = sock \/ sock = 0
    PROVE  ClientInv'
<1>1. IdsAreDrawn' BY DEF ClientInv, IdsAreDrawn
<1>2. TakenIsOff' BY DEF ClientInv, TakenIsOff, At
<1>3. TearFits' BY DEF ClientInv, TearFits, At
<1>4. PendingIsLive' BY DEF ClientInv, PendingIsLive
<1>5. NobodyForgotten' BY DEF ClientInv, NobodyForgotten, At
<1> QED BY <1>1, <1>2, <1>3, <1>4, <1>5 DEF ClientInv

\* _disconnect() takes the table away: the ids go from the table to the thread
\* that will set their events.
LEMMA Detaching ==
    ASSUME ClientInv, TypeOK', ReaderFits', StopIsFinal',
           NEW t \in Threads, ~tear[t].busy, Detach(t), UNCHANGED nextId,
           \A c \in Callers :
             /\ req'[c].id = req[c].id /\ req'[c].outcome = req[c].outcome
             /\ \/ req'[c].pc = req[c].pc
                \/ c = t /\ req'[c].pc = "failing" /\ req[c].pc # "idle",
           t \in Callers => req'[t].pc = "failing",
           t = "reader" => reader'.pc = "tearing",
           t = "owner" => ~halting',
           halting' => halting,
           reader'.id = reader.id,
           reader'.pc = "setting" <=> reader.pc = "setting",
           reader.pc = "tearing" => reader'.pc = "tearing"
    PROVE  ClientInv'
<1>1. \A u \in Threads :
        tear'[u] = IF u = t THEN [busy |-> TRUE, sock |-> sock, failed |-> pending]
                            ELSE tear[u]
  BY DEF ClientInv, TypeOK, Detach
<1>2. pending' = {} BY DEF Detach
<1>3. tear[t].failed = {} BY DEF ClientInv, TearFits, NoTear
<1>4. IdsAreDrawn' BY <1>1, <1>2 DEF ClientInv, IdsAreDrawn
<1>5. TakenIsOff' BY <1>2 DEF ClientInv, TakenIsOff, At, IdsAreDrawn
<1>6. TearFits'
  BY <1>1, CallersAssumption DEF ClientInv, TearFits, NoTear, At, Threads
<1>7. PendingIsLive' BY <1>2 DEF PendingIsLive
<1>8. NobodyForgotten'
  <2> SUFFICES ASSUME NEW c \in Callers,
                      req'[c].pc \in {"locking", "sending", "waiting", "expired", "rewaiting"},
                      req'[c].outcome = "none",
                      ~(At("setting")' /\ reader'.id = req'[c].id)
               PROVE  \E u \in Threads : req'[c].id \in tear'[u].failed
    BY <1>2 DEF NobodyForgotten
  <2>1. req[c].pc \in {"locking", "sending", "waiting", "expired", "rewaiting"} OBVIOUS
  <2>2. CASE req[c].id \in pending BY <1>1, <2>2
  <2>3. CASE \E u \in Threads : req[c].id \in tear[u].failed
    BY <1>1, <1>3, <2>3
  <2> QED BY <2>1, <2>2, <2>3 DEF ClientInv, NobodyForgotten, At
<1> QED BY <1>4, <1>5, <1>6, <1>7, <1>8 DEF ClientInv

\* The reader connects, receives and leaves the table alone, or disconnects.
LEMMA ReaderKeeps ==
    ASSUME ClientInv,
           LoopStarts \/ ConnectFails \/ Connects \/ TakesSocket \/ Receives
             \/ ReceiveRaises \/ RoutingRaises \/ RoutesFeedback \/ BatchDone
    PROVE  ClientInv'
<1>0. TypeOK' BY ReaderKeepsType, RoutingKeepsType
<1>1. TypeOK /\ reader \in ReaderStates /\ "reader" \in Threads BY ReaderFields
<1>2. reader.pc # "tearing" => ~tear["reader"].busy
  BY DEF ClientInv, TearFits, At
<1>3. CASE LoopStarts \/ Receives \/ RoutesFeedback \/ BatchDone
  <2>1. /\ UNCHANGED <<pending, req, tear, nextId, halting, stopping, sock>>
        /\ reader'.id = reader.id
        /\ reader.pc \notin {"setting", "tearing"} /\ reader'.pc # "setting"
        /\ ReaderFits'
    BY <1>1, <1>3 DEF ReaderStates, LoopStarts, Receives, RoutesFeedback, BatchDone, At,
      ClientInv, ReaderFits
  <2>2. StopIsFinal' BY <2>1 DEF ClientInv, StopIsFinal
  <2> QED BY <1>0, <2>1, <2>2, TableUntouched
<1>4. CASE Connects
  <2>1. sock = 0 /\ sock' \in {0, made + 1} /\ made + 1 # 0 /\ (stopping => sock' = 0)
    BY <1>1, <1>4 DEF ClientInv, ReaderFits, Connects, At, TypeOK
  <2>2. /\ UNCHANGED <<pending, req, tear, nextId, halting, stopping>>
        /\ reader'.id = reader.id /\ reader'.pc = "looping" /\ reader.pc = "connecting"
    BY <1>1, <1>4 DEF ReaderStates, Connects, At
  <2>3. ReaderFits' /\ StopIsFinal' BY <2>1, <2>2 DEF ReaderFits, StopIsFinal
  <2> QED BY <1>0, <2>1, <2>2, <2>3, TableUntouched
<1>5. CASE \/ ConnectFails \/ ReceiveRaises \/ RoutingRaises
           \/ TakesSocket /\ stopping /\ sock # 0
  <2>1. /\ Detach("reader") /\ UNCHANGED <<req, nextId, halting, stopping>>
        /\ reader'.id = reader.id /\ reader'.pc = "tearing"
        /\ reader.pc \notin {"setting", "tearing"}
    BY <1>1, <1>5 DEF ReaderStates, ConnectFails, ReceiveRaises, RoutingRaises, TakesSocket, At
  <2>2. ReaderFits' /\ StopIsFinal' BY <2>1 DEF ReaderFits, StopIsFinal, Detach
  <2> QED BY <1>0, <1>1, <1>2, <2>1, <2>2, Detaching, CallersAssumption
<1>6. CASE TakesSocket /\ ~(stopping /\ sock # 0)
  <2>1. /\ UNCHANGED <<pending, req, tear, nextId, halting, stopping, sock>>
        /\ reader'.id = reader.id
        /\ reader.pc = "looping" /\ reader'.pc \in {"receiving", "idle"}
        /\ ReaderFits'
    BY <1>1, <1>6 DEF ReaderStates, TakesSocket, At, ReaderFits
  <2>2. StopIsFinal' BY <2>1 DEF ClientInv, StopIsFinal
  <2> QED BY <1>0, <2>1, <2>2, TableUntouched
<1> QED BY <1>3, <1>4, <1>5, <1>6

\* The reader takes the answered request off the table under the lock.
LEMMA RoutesAnswerKeeps ==
    ASSUME ClientInv, RoutesAnswer
    PROVE  ClientInv'
<1> DEFINE answered == Head(reader.batch)
<1>0. TypeOK' BY RoutingKeepsType
<1>1. TypeOK /\ reader \in ReaderStates BY ReaderFields
<1>2. /\ UNCHANGED <<req, tear, nextId, halting, stopping, sock>>
      /\ pending' = pending \ {answered} /\ answered # 0 /\ reader.pc = "routing"
      /\ reader'.pc = IF answered \in pending THEN "setting" ELSE "routing"
      /\ reader'.id = IF answered \in pending THEN answered ELSE reader.id
      /\ reader'.sock = reader.sock
  BY <1>1 DEF ReaderStates, RoutesAnswer, At, Feedback
<1>3. IdsAreDrawn'
  <2>1. nextId \in Nat /\ 1 .. nextId \subseteq 0 .. nextId BY <1>1 DEF TypeOK
  <2>2. pending' \subseteq 1 .. nextId BY <1>2 DEF ClientInv, IdsAreDrawn
  <2>3. reader'.id \in 0 .. nextId BY <1>2, <2>1 DEF ClientInv, IdsAreDrawn
  <2> QED BY <1>2, <2>2, <2>3 DEF ClientInv, IdsAreDrawn
<1>4. TakenIsOff' BY <1>2 DEF ClientInv, TakenIsOff, At
<1>5. TearFits' BY <1>2 DEF ClientInv, TearFits, At
<1>6. PendingIsLive' BY <1>2 DEF ClientInv, PendingIsLive
<1>7. NobodyForgotten' BY <1>2 DEF ClientInv, NobodyForgotten, At
<1>8. ReaderFits' /\ StopIsFinal' BY <1>2 DEF ClientInv, ReaderFits, StopIsFinal
<1> QED BY <1>0, <1>3, <1>4, <1>5, <1>6, <1>7, <1>8 DEF ClientInv

\* The event of the request it took is set afterwards, outside the lock.
LEMMA SetsEventKeeps ==
    ASSUME ClientInv, SetsEvent
    PROVE  ClientInv'
<1>0. TypeOK' BY RoutingKeepsType
<1>1. TypeOK /\ reader \in ReaderStates BY ReaderFields
<1>2. /\ UNCHANGED <<pending, tear, nextId, halting, stopping, sock>>
      /\ reader.pc = "setting" /\ reader'.pc = "routing" /\ reader'.id = 0
      /\ reader'.sock = reader.sock
  BY <1>1 DEF ReaderStates, SetsEvent, At
<1>3. \A c \in Callers :
        /\ req'[c].id = req[c].id /\ req'[c].pc = req[c].pc /\ req'[c].conn = req[c].conn
        /\ req'[c].outcome = IF req[c].id = reader.id THEN "response" ELSE req[c].outcome
  BY <1>1 DEF SetsEvent, TypeOK, RequestStates
<1>4. IdsAreDrawn'
  <2>1. nextId \in Nat BY <1>1 DEF TypeOK
  <2> QED BY <1>2, <1>3, <2>1 DEF ClientInv, IdsAreDrawn
<1>5. TakenIsOff' BY <1>2, <1>3 DEF ClientInv, TakenIsOff, At
<1>6. TearFits' BY <1>2, <1>3 DEF ClientInv, TearFits, At
<1>7. PendingIsLive' BY <1>2, <1>3 DEF ClientInv, PendingIsLive
<1>8. NobodyForgotten' BY <1>2, <1>3 DEF ClientInv, NobodyForgotten, At
<1>9. ReaderFits' /\ StopIsFinal' BY <1>2 DEF ClientInv, ReaderFits, StopIsFinal
<1> QED BY <1>0, <1>4, <1>5, <1>6, <1>7, <1>8, <1>9 DEF ClientInv

\* A call gets an id nobody else holds, and is on the table of the connection.
LEMMA RegistersKeeps ==
    ASSUME ClientInv, NEW c \in Callers, Registers(c)
    PROVE  ClientInv'
<1>0. TypeOK' BY CallerKeepsType
<1>1. nextId \in Nat /\ nextId' = nextId + 1 /\ sock # 0
  BY DEF ClientInv, TypeOK, Registers
<1>2. /\ UNCHANGED <<tear, halting, stopping, sock, reader>>
      /\ pending' = pending \cup {nextId + 1} /\ req[c].pc = "idle"
  BY DEF Registers
<1>3. \A d \in Callers :
        req'[d] = IF d = c THEN [pc |-> "locking", id |-> nextId + 1, conn |-> sock,
                                 outcome |-> "none"]
                           ELSE req[d]
  BY DEF ClientInv, TypeOK, Registers
<1>4. IdsAreDrawn'
  <2>1. 1 .. nextId \subseteq 1 .. nextId + 1 /\ 0 .. nextId \subseteq 0 .. nextId + 1
        /\ nextId + 1 \in 1 .. nextId + 1 /\ nextId + 1 \notin 0 .. nextId
        /\ 1 .. nextId + 1 \subseteq 0 .. nextId + 1
    BY <1>1
  <2>2. pending' \subseteq 1 .. nextId + 1 /\ reader'.id \in 0 .. nextId + 1
        /\ \A t \in Threads : tear'[t].failed \subseteq 1 .. nextId + 1
    BY <1>2, <2>1 DEF ClientInv, IdsAreDrawn
  <2>3. \A d \in Callers : req'[d].id \in 0 .. nextId + 1
    BY <1>3, <2>1 DEF ClientInv, IdsAreDrawn
  <2>4. \A d, e \in Callers : req'[d].id = req'[e].id /\ req'[d].id # 0 => d = e
    BY <1>3, <2>1 DEF ClientInv, IdsAreDrawn
  <2> QED BY <1>1, <2>2, <2>3, <2>4 DEF IdsAreDrawn
<1>5. TakenIsOff' BY <1>1, <1>2, <1>3 DEF ClientInv, TakenIsOff, IdsAreDrawn, At
<1>6. TearFits' BY <1>1, <1>2, <1>3 DEF ClientInv, TearFits, At
<1>7. PendingIsLive'
  <2>1. req[c].id \notin pending
    BY <1>2 DEF ClientInv, TearFits, IdsAreDrawn
  <2> QED BY <1>1, <1>2, <1>3, <2>1 DEF ClientInv, PendingIsLive
<1>8. NobodyForgotten' BY <1>2, <1>3 DEF ClientInv, NobodyForgotten, At
<1>9. ReaderFits' /\ StopIsFinal' BY <1>2 DEF ClientInv, ReaderFits, StopIsFinal
<1> QED BY <1>0, <1>4, <1>5, <1>6, <1>7, <1>8, <1>9 DEF ClientInv

\* A call moves on, returns or gives up; only giving up touches the table.
LEMMA CallerKeeps ==
    ASSUME ClientInv, NEW c \in Callers,
           TakesSendLock(c) \/ Sends(c) \/ Returns(c) \/ Expires(c) \/ GivesUp(c)
    PROVE  ClientInv'
<1>0. TypeOK' BY CallerKeepsType
<1>1. /\ UNCHANGED <<tear, halting, stopping, sock, reader, nextId>>
      /\ req[c].pc \notin {"idle", "failing"}
  BY DEF TakesSendLock, Sends, Returns, Expires, GivesUp
<1>2. \/ /\ pending' = pending /\ req'[c].id = req[c].id /\ req'[c].conn = req[c].conn
         /\ req'[c].outcome = req[c].outcome
         /\ req'[c].pc \in {"sending", "waiting", "expired"}
      \/ /\ pending' = pending /\ req'[c].id = req[c].id /\ req'[c].conn = req[c].conn
         /\ req'[c].outcome = req[c].outcome
         /\ req'[c].pc = "rewaiting" /\ req[c].id \notin pending
      \/ /\ pending' = pending \ {req[c].id} /\ req'[c] = Idle
         /\ req[c].id \in pending \/ req[c].outcome # "none"
  <2>1. CASE TakesSendLock(c) \/ Sends(c) \/ Expires(c)
    BY <2>1 DEF ClientInv, TypeOK, RequestStates, TakesSendLock, Sends, Expires
  <2>2. CASE Returns(c)
    BY <2>2 DEF ClientInv, TypeOK, TakenIsOff, Returns
  <2>3. CASE GivesUp(c)
    BY <2>3 DEF ClientInv, TypeOK, RequestStates, GivesUp
  <2> QED BY <2>1, <2>2, <2>3
<1>3. \A d \in Callers : d # c => req'[d] = req[d]
  BY DEF ClientInv, TypeOK, TakesSendLock, Sends, Returns, Expires, GivesUp
<1>4. req[c].id # 0 BY <1>1 DEF ClientInv, TearFits
<1>5. IdsAreDrawn'
  <2>1. nextId \in Nat BY DEF ClientInv, TypeOK
  <2>2. pending' \subseteq pending BY <1>2
  <2>3. \A d \in Callers : req'[d].id = req[d].id \/ req'[d].id = 0
    BY <1>2, <1>3 DEF Idle
  <2>4. \A d \in Callers : req'[d].id \in 0 .. nextId
    BY <2>1, <2>3 DEF ClientInv, IdsAreDrawn
  <2>5. \A d, e \in Callers : req'[d].id = req'[e].id /\ req'[d].id # 0 => d = e
    BY <2>3 DEF ClientInv, IdsAreDrawn
  <2> QED BY <1>1, <2>2, <2>4, <2>5 DEF ClientInv, IdsAreDrawn
<1>6. TakenIsOff' BY <1>1, <1>2, <1>3 DEF ClientInv, TakenIsOff, At, Idle, IdsAreDrawn
<1>7. TearFits' BY <1>1, <1>2, <1>3, <1>4 DEF ClientInv, TearFits, At, Idle
<1>8. PendingIsLive'
  BY <1>1, <1>2, <1>3 DEF ClientInv, PendingIsLive, TakenIsOff
<1>9. NobodyForgotten'
  <2> SUFFICES ASSUME NEW d \in Callers,
                      req'[d].pc \in {"locking", "sending", "waiting", "expired", "rewaiting"},
                      req'[d].outcome = "none"
               PROVE  \/ req'[d].id \in pending'
                      \/ At("setting") /\ reader.id = req'[d].id
                      \/ \E u \in Threads : req'[d].id \in tear[u].failed
    BY <1>1 DEF NobodyForgotten, At
  <2>1. CASE d = c
    <3>1. /\ req'[c].id = req[c].id /\ pending' = pending /\ req[c].outcome = "none"
      BY <1>2, <2>1 DEF Idle
    <3>2. req[c].pc \in {"locking", "sending", "waiting", "expired", "rewaiting"}
      BY DEF TakesSendLock, Sends, Returns, Expires, GivesUp
    <3> QED BY <2>1, <3>1, <3>2 DEF ClientInv, NobodyForgotten
  <2>2. CASE d # c
    <3>1. req'[d] = req[d] BY <1>3, <2>2
    <3>2. req[d].id # req[c].id BY <1>4, <2>2 DEF ClientInv, IdsAreDrawn
    <3>3. req[d].id \in pending => req[d].id \in pending' BY <1>2, <3>2
    <3> QED BY <3>1, <3>3 DEF ClientInv, NobodyForgotten
  <2> QED BY <2>1, <2>2
<1>10. ReaderFits' /\ StopIsFinal' BY <1>1 DEF ClientInv, ReaderFits, StopIsFinal
<1> QED BY <1>0, <1>5, <1>6, <1>7, <1>8, <1>9, <1>10 DEF ClientInv

\* The thread that disconnected wakes the requests it took off the table.
LEMMA FinishDisconnectKeeps ==
    ASSUME ClientInv, NEW t \in Threads, FinishDisconnect(t)
    PROVE  ClientInv'
<1>0. TypeOK' BY OthersKeepType
<1>1. TypeOK /\ reader \in ReaderStates BY ReaderFields
<1>2. /\ UNCHANGED <<pending, halting, stopping, sock, nextId>> /\ tear[t].busy
      /\ reader'.id = reader.id
      /\ IF t = "reader" THEN reader'.pc = "idle" /\ reader.pc = "tearing"
                         ELSE UNCHANGED reader
  BY <1>1 DEF FinishDisconnect, ReaderStates, ClientInv, TearFits, At
<1>3. \A u \in Threads : tear'[u] = IF u = t THEN NoTear ELSE tear[u]
  BY <1>1 DEF FinishDisconnect, TypeOK
<1>4. \A c \in Callers : c # t =>
        /\ req'[c].id = req[c].id /\ req'[c].pc = req[c].pc /\ req'[c].conn = req[c].conn
        /\ req'[c].outcome =
             IF req[c].id \in tear[t].failed THEN "error" ELSE req[c].outcome
  BY <1>1 DEF FinishDisconnect, TypeOK, RequestStates
<1>5. t \in Callers => req'[t] = Idle /\ req[t].pc = "failing" /\ req[t].id \notin pending
  BY <1>2 DEF FinishDisconnect, ClientInv, TearFits, TakenIsOff
<1>6. IdsAreDrawn'
  <2>1. nextId \in Nat BY <1>1 DEF TypeOK
  <2> QED BY <1>2, <1>3, <1>4, <1>5, <2>1 DEF ClientInv, IdsAreDrawn, Idle, NoTear
<1>7. TakenIsOff'
  BY <1>2, <1>3, <1>4, <1>5 DEF ClientInv, TakenIsOff, IdsAreDrawn, At, Idle, NoTear
<1>8. TearFits'
  BY <1>2, <1>3, <1>4, <1>5, CallersAssumption DEF ClientInv, TearFits, At, Idle, NoTear,
    Threads
<1>9. PendingIsLive' BY <1>2, <1>4, <1>5 DEF ClientInv, PendingIsLive
<1>10. NobodyForgotten'
  <2> SUFFICES ASSUME NEW c \in Callers,
                      req'[c].pc \in {"locking", "sending", "waiting", "expired", "rewaiting"},
                      req'[c].outcome = "none"
               PROVE  \/ req'[c].id \in pending'
                      \/ At("setting")' /\ reader'.id = req'[c].id
                      \/ \E u \in Threads : req'[c].id \in tear'[u].failed
    BY DEF NobodyForgotten
  <2>1. c # t BY <1>5 DEF Idle
  <2>2. /\ req[c].pc \in {"locking", "sending", "waiting", "expired", "rewaiting"}
        /\ req[c].outcome = "none" /\ req[c].id \notin tear[t].failed
        /\ req'[c].id = req[c].id
    BY <1>4, <2>1
  <2>3. CASE \E u \in Threads : req[c].id \in tear[u].failed
    BY <1>3, <2>2, <2>3
  <2> QED BY <1>2, <2>2, <2>3 DEF ClientInv, NobodyForgotten, At
<1>11. ReaderFits' /\ StopIsFinal' BY <1>2 DEF ClientInv, ReaderFits, StopIsFinal
<1> QED BY <1>0, <1>6, <1>7, <1>8, <1>9, <1>10, <1>11 DEF ClientInv

\* A failed send disconnects from the thread of the call.
LEMMA SendRaisesKeeps ==
    ASSUME ClientInv, NEW c \in Callers, SendRaises(c)
    PROVE  ClientInv'
<1>1. TypeOK' BY CallerKeepsType
<1>2. /\ c \in Threads /\ ~tear[c].busy /\ c # "reader" /\ c # "owner"
      /\ Detach(c) /\ UNCHANGED <<halting, stopping, reader, nextId>>
  BY CallersAssumption DEF ClientInv, TearFits, SendRaises, Threads
<1>3. \A d \in Callers :
        /\ req'[d].id = req[d].id /\ req'[d].outcome = req[d].outcome
        /\ req'[d].pc = IF d = c THEN "failing" ELSE req[d].pc
  BY DEF ClientInv, TypeOK, RequestStates, SendRaises
<1>4. req[c].pc # "idle" BY DEF SendRaises
<1>5. ReaderFits' /\ StopIsFinal'
  BY <1>2 DEF ClientInv, ReaderFits, StopIsFinal, Detach
<1> QED BY <1>1, <1>2, <1>3, <1>4, <1>5, Detaching

\* The owner and the server.
LEMMA OthersKeep ==
    ASSUME ClientInv, Stop \/ StopDetaches \/ Start \/ GetFeedback \/ Server
    PROVE  ClientInv'
<1>0. TypeOK' BY OthersKeepType
<1>1. reader \in ReaderStates BY ReaderFields
<1>2. CASE Stop \/ GetFeedback \/ Server
  <2>1. /\ UNCHANGED <<pending, req, tear, nextId, sock, reader>>
        /\ halting' => halting \/ ~tear["owner"].busy
        /\ StopIsFinal' /\ ReaderFits'
    BY <1>2 DEF Stop, GetFeedback, Server, ServerSends, ServerStalls, ServerCloses, ClientInv,
      StopIsFinal, ReaderFits
  <2> QED BY <1>0, <2>1, TableUntouched
<1>3. CASE Start
  <2>1. /\ UNCHANGED <<pending, req, tear, nextId, sock, halting>>
        /\ reader'.id = reader.id /\ reader.pc = "ended" /\ reader'.pc = "idle"
        /\ StopIsFinal' /\ ReaderFits'
    BY <1>1, <1>3 DEF Start, At, ReaderStates, ClientInv, StopIsFinal, ReaderFits
  <2> QED BY <1>0, <2>1, TableUntouched
<1>4. CASE StopDetaches
  <2>1. /\ "owner" \in Threads /\ "owner" \notin Callers /\ ~tear["owner"].busy
        /\ Detach("owner") /\ ~halting'
        /\ UNCHANGED <<stopping, reader, req, nextId>>
    BY <1>4, CallersAssumption DEF StopDetaches, Threads, ClientInv, TearFits
  <2>2. ReaderFits' /\ StopIsFinal'
    BY <2>1 DEF ClientInv, ReaderFits, StopIsFinal, Detach
  <2> QED BY <1>0, <2>1, <2>2, Detaching
<1> QED BY <1>2, <1>3, <1>4
-----------------------------------------------------------------------------
(* The theorems                                                            *)

\* ClientInv holds initially and every step of every thread keeps it.
THEOREM ClientInvariant == Spec => []ClientInv
<1>1. ASSUME Init PROVE ClientInv
  <2>1. reader \in ReaderStates /\ Idle \in RequestStates
    BY <1>1, Ranges DEF Init, ReaderStates, RequestStates, Idle
  <2>2. req \in [Callers -> RequestStates] BY <1>1, <2>1 DEF Init
  <2>3. TypeOK
    <3>1. tear \in [Threads -> [busy : BOOLEAN, sock : 0 .. MaxConnections,
                                failed : SUBSET Ids]]
      BY <1>1, Ranges DEF Init, NoTear
    <3>2. <<>> \in Seq(0 .. MaxRequests) /\ <<>> \in Seq(Connections) /\ Len(<<>>) = 0
      OBVIOUS
    <3>3. feedback \in Seq(Connections) /\ Len(feedback) <= QueueSize
      BY <1>1, <3>2, BoundsAssumption DEF Init
    <3>4. inbox \in [Connections -> Seq(0 .. MaxRequests)] BY <1>1, <3>2 DEF Init
    <3> QED BY <1>1, <2>1, <2>2, <3>1, <3>3, <3>4, Ranges DEF Init, TypeOK
  <2>4. IdsAreDrawn BY <1>1 DEF Init, IdsAreDrawn, Idle, NoTear
  <2>5. TakenIsOff BY <1>1 DEF Init, TakenIsOff, At
  <2>6. TearFits BY <1>1 DEF Init, TearFits, At, NoTear, Idle, Threads
  <2>7. ReaderFits /\ PendingIsLive /\ StopIsFinal
    BY <1>1 DEF Init, ReaderFits, PendingIsLive, StopIsFinal
  <2>8. NobodyForgotten BY <1>1 DEF Init, NobodyForgotten, Idle
  <2> QED BY <2>3, <2>4, <2>5, <2>6, <2>7, <2>8 DEF ClientInv
<1>2. ASSUME ClientInv, [Next]_vars PROVE ClientInv'
  <2>0. "reader" \in Threads /\ "owner" \in Threads /\ Callers \subseteq Threads
    BY DEF Threads
  <2>1. CASE ReaderStep
    BY <1>2, <2>0, <2>1, ReaderKeeps, RoutesAnswerKeeps, SetsEventKeeps,
      FinishDisconnectKeeps DEF ReaderStep
  <2>2. CASE \E c \in Callers : Registers(c) \/ CallerStep(c)
    BY <1>2, <2>0, <2>2, RegistersKeeps, CallerKeeps, SendRaisesKeeps,
      FinishDisconnectKeeps DEF CallerStep
  <2>3. CASE Stop \/ OwnerStep \/ Start \/ GetFeedback \/ Server
    BY <1>2, <2>0, <2>3, OthersKeep, FinishDisconnectKeeps DEF OwnerStep
  <2>4. CASE UNCHANGED vars
    BY <1>2, <2>4 DEF vars, ClientInv, TypeOK, IdsAreDrawn, TakenIsOff, TearFits, ReaderFits,
      PendingIsLive, NobodyForgotten, StopIsFinal, At
  <2> QED BY <1>2, <2>1, <2>2, <2>3, <2>4 DEF Next
<1> QED BY <1>1, <1>2, PTL DEF Spec

\* The table of pending requests is sound, with any number of threads calling
\* request(): _disconnect() takes it away with the socket, and whoever takes a
\* request off it ends its wait.
THEOREM TheTableIsSound == Spec => []TableIsSound
<1>1. ClientInv => TableIsSound BY DEF ClientInv, TableIsSound
<1> QED BY <1>1, ClientInvariant, PTL

\* After stop() the client has no connection until start(), although
\* _connect() may have been under way.
THEOREM StopStaysFinal == Spec => []StopIsFinal
<1>1. ClientInv => StopIsFinal BY DEF ClientInv
<1> QED BY <1>1, ClientInvariant, PTL
=============================================================================
