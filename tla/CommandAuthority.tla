---------------------------- MODULE CommandAuthority ----------------------------
(***************************************************************************)
(* Client connections and command authority of the Motion Server.          *)
(*                                                                         *)
(*   motion_server/server.py                accepting clients, rounds of   *)
(*                                          service, restart               *)
(*   motion_server/app/client_transport.py  service_client, close_client,  *)
(*                                          allocate_client_id             *)
(*   motion_server/handlers/authority/      acquire and release            *)
(*                                                                         *)
(* Authority is not bound to a connection but to its integer id in         *)
(* state["command_authority_owner"], and ids are handed out again.  One    *)
(* round accepts connections and then services a snapshot of the client    *)
(* list; its order is left open.  A chunk read from a client holds several *)
(* requests, dispatched one after the other.                               *)
(***************************************************************************)
EXTENDS Naturals, Sequences, FiniteSets

CONSTANTS Conns,      \* TCP connections; one is used again after it was closed
          NoConn,     \* no client is being serviced
          MaxId,      \* bound on the ids of the degraded loop
          MaxChunk    \* bound on the requests of a chunk

ASSUME NoConnAssumption == NoConn \notin Conns
ASSUME MaxIdAssumption == MaxId \in Nat \ {0}
ASSUME MaxChunkAssumption == MaxChunk \in Nat \ {0}

\* system/authority/request and release; system/bus/reconnect and
\* system/server/restart; any other command that needs authority.
Requests == {"request", "release", "reconnect", "restart", "command"}

VARIABLES
    loop,             \* the loop of server.py that runs
    phase,            \* the part of its round
    peer,             \* the other end: not connected, connected, hung up with
                      \* requests still unread, hung up
    id,               \* client["id"]; 0 when the connection is not a client
    nextClientId,     \* next_client_id of the degraded loop
    turn,             \* clients of the snapshot that are still to be serviced
    current,          \* the client whose chunk is being dispatched
    chunk,            \* the requests of that chunk still to be dispatched
    owner,            \* state["command_authority_owner"]; 0 for None
    recovered,        \* the runtime state lets the degraded or disconnected loop end
    restartRequested  \* state["server_restart_requested"]

round == <<loop, phase, turn>>
authorityVars == <<loop, phase, peer, id, nextClientId, turn, current, chunk,
                   owner, recovered, restartRequested>>

AuthorityTypeOK ==
    /\ loop \in {"degraded", "server", "disconnected"}
    /\ phase \in {"cycle", "accept", "serve"}
    /\ peer \in [Conns -> {"away", "up", "leaving", "gone"}]
    /\ id \in [Conns -> 0 .. MaxId]
    /\ nextClientId \in 1 .. MaxId + 1
    /\ turn \subseteq Conns
    /\ current \in Conns \union {NoConn}
    /\ chunk \in Seq(Requests)
    /\ owner \in 0 .. MaxId
    /\ recovered \in BOOLEAN
    /\ restartRequested \in BOOLEAN

Clients == {c \in Conns : id[c] # 0}

UsedIds == {id[c] : c \in Clients}

\* Connected, in the backlog of the listening socket.
Waiting(c) == peer[c] # "away" /\ id[c] = 0

\* client_has_command_authority
HasAuthority(c) == id[c] # 0 /\ owner = id[c]

AuthorityInit ==
    /\ loop \in {"degraded", "server"}
    /\ phase = IF loop = "server" THEN "cycle" ELSE "accept"
    /\ peer = [c \in Conns |-> "away"]
    /\ id = [c \in Conns |-> 0]
    /\ nextClientId = 1
    /\ turn = {}
    /\ current = NoConn
    /\ chunk = <<>>
    /\ owner = 0
    /\ recovered = FALSE
    /\ restartRequested = FALSE

-----------------------------------------------------------------------------
(* The other end of the connections *)

Connect(c) ==
    /\ peer[c] = "away"
    /\ peer' = [peer EXCEPT ![c] = "up"]
    /\ UNCHANGED <<round, id, nextClientId, current, chunk, owner, recovered,
                   restartRequested>>

HangUp(c) ==
    /\ peer[c] = "up"
    /\ peer' \in {[peer EXCEPT ![c] = p] : p \in {"leaving", "gone"}}
    /\ UNCHANGED <<round, id, nextClientId, current, chunk, owner, recovered,
                   restartRequested>>

-----------------------------------------------------------------------------
(* Accepting clients *)

\* The PDO cycle at the start of a round of run_server_loop keeps the bus ...
CycleRuns ==
    /\ loop = "server" /\ phase = "cycle"
    /\ phase' = "accept"
    /\ UNCHANGED <<loop, turn, peer, id, nextClientId, current, chunk, owner,
                   recovered, restartRequested>>

\* ... or loses it: run_bus_disconnected_loop takes over the client list.
CycleLosesBus ==
    /\ loop = "server" /\ phase = "cycle"
    /\ loop' = "disconnected"
    /\ phase' = "accept"
    /\ recovered' = FALSE
    /\ UNCHANGED <<turn, peer, id, nextClientId, current, chunk, owner,
                   restartRequested>>

\* Mutant: the id is the length of the list plus one.
CountedId(n) == n = Cardinality(Clients) + 1

\* allocate_client_id: the lowest id that no client has.
AllocatedId(n) == n \notin UsedIds /\ \A m \in 1 .. n - 1 : m \in UsedIds

\* clients.append in run_server_loop and run_bus_disconnected_loop
AppendClient(c) ==
    /\ Waiting(c)
    /\ \E n \in 1 .. MaxId : AllocatedId(n) /\ id' = [id EXCEPT ![c] = n]

\* The snapshot list(clients) of the round is taken.
StartService ==
    /\ phase' = "serve"
    /\ turn' = {c \in Conns : id'[c] # 0}

\* run_server_loop accepts until the backlog is empty.
ServerAccepts(c) ==
    /\ loop = "server" /\ phase = "accept"
    /\ AppendClient(c)
    /\ UNCHANGED <<round, peer, nextClientId, current, chunk, owner, recovered,
                   restartRequested>>

\* run_bus_disconnected_loop accepts one client a round.
DisconnectedAccepts(c) ==
    /\ loop = "disconnected" /\ phase = "accept"
    /\ AppendClient(c)
    /\ StartService
    /\ UNCHANGED <<loop, peer, nextClientId, current, chunk, owner, recovered,
                   restartRequested>>

\* run_degraded_server_loop accepts one client a round and counts its ids.
DegradedAccepts(c) ==
    /\ loop = "degraded" /\ phase = "accept"
    /\ Waiting(c)
    /\ nextClientId <= MaxId
    /\ id' = [id EXCEPT ![c] = nextClientId]
    /\ nextClientId' = nextClientId + 1
    /\ StartService
    /\ UNCHANGED <<loop, peer, current, chunk, owner, recovered,
                   restartRequested>>

\* accept() raises BlockingIOError, or select finds nothing.
NobodyWaits ==
    /\ phase = "accept"
    /\ \A c \in Conns : Waiting(c) => loop = "degraded" /\ nextClientId > MaxId
    /\ UNCHANGED id
    /\ StartService
    /\ UNCHANGED <<loop, peer, nextClientId, current, chunk, owner, recovered,
                   restartRequested>>

-----------------------------------------------------------------------------
(* Servicing one client of the snapshot *)

InTurn(c) == phase = "serve" /\ current = NoConn /\ c \in turn

\* Mutant: the client is removed and its authority is kept.
CloseKeepsAuthority(c) ==
    /\ id' = [id EXCEPT ![c] = 0]
    /\ peer' = [peer EXCEPT ![c] = "away"]
    /\ UNCHANGED owner

\* close_client and clients.remove
CloseClient(c) ==
    /\ id' = [id EXCEPT ![c] = 0]
    /\ peer' = [peer EXCEPT ![c] = "away"]
    /\ owner' = IF owner = id[c] THEN 0 ELSE owner

NothingReadable(c) ==
    /\ InTurn(c)
    /\ peer[c] = "up"
    /\ turn' = turn \ {c}
    /\ UNCHANGED <<loop, phase, peer, id, nextClientId, current, chunk, owner,
                   recovered, restartRequested>>

\* What one recv of at most 4096 bytes can bring.
Chunks == UNION {[1 .. n -> Requests] : n \in 1 .. MaxChunk}

\* recv returns requests of a client that is connected, or was until now.
ReadChunk(c) ==
    /\ InTurn(c)
    /\ \/ peer[c] = "up" /\ UNCHANGED peer
       \/ peer[c] = "leaving" /\ peer' = [peer EXCEPT ![c] = "gone"]
    /\ chunk' \in Chunks
    /\ current' = c
    /\ turn' = turn \ {c}
    /\ UNCHANGED <<loop, phase, id, nextClientId, owner, recovered,
                   restartRequested>>

\* Mutant: an empty chunk is taken for "nothing to read".
EndOfFileIgnored(c) ==
    /\ InTurn(c)
    /\ peer[c] = "gone"
    /\ turn' = turn \ {c}
    /\ UNCHANGED <<loop, phase, peer, id, nextClientId, current, chunk, owner,
                   recovered, restartRequested>>

\* recv returns no bytes: service_client returns False.
EndOfFile(c) ==
    /\ InTurn(c)
    /\ peer[c] = "gone"
    /\ CloseClient(c)
    /\ turn' = turn \ {c}
    /\ UNCHANGED <<loop, phase, nextClientId, current, chunk, recovered,
                   restartRequested>>

\* OSError: recv, the feedback or the flush fails, or the output buffer of a
\* client that does not read is full.  The rest of the chunk is lost; what its
\* requests did before stays.
ServiceRaises(c) ==
    /\ InTurn(c) \/ current = c
    /\ CloseClient(c)
    /\ turn' = turn \ {c}
    /\ current' = NoConn
    /\ chunk' = <<>>
    /\ UNCHANGED <<loop, phase, nextClientId, recovered, restartRequested>>

ServiceEnds ==
    /\ current # NoConn /\ chunk = <<>>
    /\ current' = NoConn
    /\ UNCHANGED <<round, peer, id, nextClientId, chunk, owner, recovered,
                   restartRequested>>

-----------------------------------------------------------------------------
(* Dispatching one request: route_message *)

Dispatch(r) ==
    /\ current # NoConn
    /\ chunk # <<>>
    /\ Head(chunk) = r
    /\ chunk' = Tail(chunk)
    /\ UNCHANGED <<round, peer, id, nextClientId, current>>

\* acquire_authority
RequestAuthority ==
    /\ Dispatch("request")
    /\ owner' = IF owner = 0 THEN id[current] ELSE owner
    /\ UNCHANGED <<recovered, restartRequested>>

\* release_authority
ReleaseAuthority ==
    /\ Dispatch("release")
    /\ owner' = IF owner = id[current] THEN 0 ELSE owner
    /\ UNCHANGED <<recovered, restartRequested>>

\* A command without authority is answered with Fail.
CommandRefused ==
    /\ \E r \in {"command", "reconnect", "restart"} : Dispatch(r)
    /\ ~HasAuthority(current)
    /\ UNCHANGED <<owner, recovered, restartRequested>>

\* A failed axis restart or reconnect disconnects the bus again; a failed
\* reconnect leaves the degraded loop where it is.
CommandRuns ==
    /\ \E r \in {"command", "reconnect"} : Dispatch(r)
    /\ HasAuthority(current)
    /\ \/ UNCHANGED recovered
       \/ loop = "disconnected" /\ recovered' = FALSE
    /\ UNCHANGED <<owner, restartRequested>>

RestartAccepted ==
    /\ Dispatch("restart")
    /\ HasAuthority(current)
    /\ restartRequested' = TRUE
    /\ UNCHANGED <<owner, recovered>>

\* reconnect_runtime succeeds in the disconnected loop.
ReconnectCompletes ==
    /\ Dispatch("reconnect")
    /\ HasAuthority(current)
    /\ loop = "disconnected"
    /\ recovered' = TRUE
    /\ UNCHANGED <<owner, restartRequested>>

\* reconnect_failed_initialization succeeds: the new state keeps the owner that
\* was read at its start, and forgets a requested restart.
InitReconnectCompletes ==
    /\ Dispatch("reconnect")
    /\ HasAuthority(current)
    /\ loop = "degraded" /\ ~recovered
    /\ recovered' = TRUE
    /\ restartRequested' = FALSE
    /\ UNCHANGED owner

-----------------------------------------------------------------------------
(* The end of a round *)

RoundDone == phase = "serve" /\ turn = {} /\ current = NoConn

\* requested_server_action; the degraded loop looks at the runtime first.
RestartDue == restartRequested /\ ~(loop = "degraded" /\ recovered)

NextRound ==
    /\ RoundDone
    /\ ~RestartDue
    /\ loop' = IF recovered THEN "server" ELSE loop
    /\ phase' = IF loop' = "server" THEN "cycle" ELSE "accept"
    /\ UNCHANGED <<turn, peer, id, nextClientId, current, chunk, owner, recovered,
                   restartRequested>>

\* Every connection is closed, by close_client or with the process, and the
\* new process starts from nothing.
Restart ==
    /\ RoundDone
    /\ RestartDue
    /\ loop' \in {"degraded", "server"}
    /\ phase' = IF loop' = "server" THEN "cycle" ELSE "accept"
    /\ peer' = [c \in Conns |-> "away"]
    /\ id' = [c \in Conns |-> 0]
    /\ nextClientId' = 1
    /\ owner' = 0
    /\ recovered' = FALSE
    /\ restartRequested' = FALSE
    /\ UNCHANGED <<turn, current, chunk>>

-----------------------------------------------------------------------------

PeerStep ==
    \E c \in Conns : Connect(c) \/ HangUp(c)

Accept ==
    \/ CycleRuns
    \/ CycleLosesBus
    \/ \E c \in Conns : ServerAccepts(c) \/ DisconnectedAccepts(c) \/ DegradedAccepts(c)
    \/ NobodyWaits

\* The client is serviced without an error.
Service ==
    \/ \E c \in Conns : NothingReadable(c) \/ ReadChunk(c) \/ EndOfFile(c)
    \/ ServiceEnds

DispatchRequest ==
    \/ RequestAuthority
    \/ ReleaseAuthority
    \/ CommandRefused
    \/ CommandRuns
    \/ RestartAccepted
    \/ ReconnectCompletes
    \/ InitReconnectCompletes

ServerStep == Accept \/ Service \/ DispatchRequest \/ NextRound \/ Restart

AuthorityNext ==
    \/ PeerStep
    \/ ServerStep
    \/ \E c \in Conns : ServiceRaises(c)

AuthoritySpec == AuthorityInit /\ [][AuthorityNext]_authorityVars

\* The server's loops never block for good: accept and recv are non-blocking
\* and select has a timeout.
FairAuthoritySpec == AuthoritySpec /\ WF_authorityVars(ServerStep)

-----------------------------------------------------------------------------
(* Properties *)

\* Authority never stays with an id that no client has: nobody could take it
\* over.  close_client is called on every path that removes a client.
NoOrphanedAuthority == owner # 0 => owner \in UsedIds

\* A connection gets authority only by its own request, never because it was
\* given the id of the owner (allocate_client_id reuses ids, and the ids of the
\* degraded loop live on in the server loop).
GainedByRequestOnly ==
    [][\A c \in Conns : ~HasAuthority(c) /\ HasAuthority(c)' =>
            current = c /\ chunk # <<>> /\ Head(chunk) = "request"]_authorityVars

\* The owner loses authority only by its own release or with its connection;
\* a lost bus, a reconnect and a recovered start-up leave it (RF-005 213, 220).
OwnerKeepsAuthority ==
    [][\A c \in Conns : HasAuthority(c) /\ ~HasAuthority(c)' =>
            \/ id'[c] = 0
            \/ current = c /\ chunk # <<>> /\ Head(chunk) = "release"]_authorityVars

\* An owner that hung up does not keep authority, however its last requests and
\* its end of file are read.
GoneOwnerIsReleased ==
    \A c \in Conns : HasAuthority(c) /\ peer[c] \in {"leaving", "gone"} ~> ~HasAuthority(c)

Lock == INSTANCE AuthorityLock WITH
            attached <- Clients, holders <- {c \in Conns : HasAuthority(c)}

\* The ids implement a lock on connections: at most one holder, granted when
\* free.
ImplementsLock == Lock!Spec

\* What makes the proofs go through: two clients never have the same id, the
\* ids of the degraded loop are below its counter, and the client being
\* serviced is in the list.
ClientsDiffer ==
    \A c, d \in Conns : id[c] # 0 /\ id[c] = id[d] => c = d

CounterIsAhead == loop = "degraded" => \A c \in Conns : id[c] < nextClientId

ServicedIsClient ==
    /\ current # NoConn => id[current] # 0 /\ current \notin turn /\ phase = "serve"
    /\ \A c \in turn : id[c] # 0

IdInv ==
    /\ AuthorityTypeOK
    /\ ClientsDiffer
    /\ CounterIsAhead
    /\ ServicedIsClient
    /\ NoOrphanedAuthority
=============================================================================
