--------------------------- MODULE ReferenceClient ---------------------------
(***************************************************************************)
(* The Python reference client (reference_clients/python): application     *)
(* threads that call request(), one thread that connects, receives and     *)
(* routes, and a thread that calls stop() and start().  Every action is a  *)
(* section of code that runs under one lock or touches one shared object;  *)
(* between them any other thread may run.                                  *)
(*                                                                         *)
(* A connection is a number; a message from the server is the id of the    *)
(* request it answers, or Feedback.                                        *)
(***************************************************************************)
EXTENDS Naturals, Sequences, FiniteSets

CONSTANTS
  Callers,         \* application threads inside request()
  MaxConnections,  \* bound: connections the client makes
  MaxRequests,     \* bound: request ids drawn
  MaxInbox,        \* bound: messages on the way from the server
  QueueSize        \* feedback_queue_size

ASSUME CallersAssumption == {"reader", "owner"} \cap Callers = {}
ASSUME BoundsAssumption ==
  /\ MaxConnections \in Nat \ {0} /\ MaxRequests \in Nat \ {0}
  /\ MaxInbox \in Nat \ {0} /\ QueueSize \in Nat \ {0}

Threads == Callers \cup {"reader", "owner"}
Connections == 1..MaxConnections
Ids == 1..MaxRequests
Feedback == 0

VARIABLES
  stopping,  \* _stop_event
  halting,   \* stop() has set the event and its _disconnect() is due
  sock,      \* _socket: a connection, or 0 for None; set with _connected_event
  made,      \* connections made so far
  wire,      \* wire[n]: none, up, stalled (the server reads no more and the
             \* buffers are full), eof (closed by the server), closed
  asked,     \* asked[n]: requests the server has received and not answered
  inbox,     \* inbox[n]: messages on the way from the server
  reader,    \* the thread of _connection_loop
  pending,   \* _pending: ids waiting for their answer
  req,       \* req[c]: the call of request() in thread c
  tear,      \* tear[t]: the call of _disconnect() in thread t
  feedback,  \* _feedback: the connection each queued feedback came over
  nextId     \* _request_sequence

vars == <<stopping, halting, sock, made, wire, asked, inbox, reader, pending, req,
          tear, feedback, nextId>>

NoTear == [busy |-> FALSE, sock |-> 0, failed |-> {}]
Idle == [pc |-> "idle", id |-> 0, conn |-> 0, outcome |-> "none"]
-----------------------------------------------------------------------------
(* Types                                                                   *)

ReaderStates ==
  [pc : {"idle", "connecting", "looping", "receiving", "routing", "setting",
         "tearing", "ended"},
   sock : 0..MaxConnections, batch : Seq(0..MaxRequests), id : 0..MaxRequests]

RequestStates ==
  [pc : {"idle", "locking", "sending", "waiting", "expired", "rewaiting",
         "failing"},
   id : 0..MaxRequests, conn : 0..MaxConnections,
   outcome : {"none", "response", "error"}]

(* The state of the client has its shape; the feedback queue is bounded.   *)
TypeOK ==
  /\ stopping \in BOOLEAN /\ halting \in BOOLEAN
  /\ sock \in 0..MaxConnections /\ made \in 0..MaxConnections
  /\ wire \in [Connections -> {"none", "up", "stalled", "eof", "closed"}]
  /\ asked \in [Connections -> SUBSET Ids]
  /\ inbox \in [Connections -> Seq(0..MaxRequests)]
  /\ reader \in ReaderStates
  /\ pending \subseteq Ids
  /\ req \in [Callers -> RequestStates]
  /\ tear \in [Threads -> [busy : BOOLEAN, sock : 0..MaxConnections,
                           failed : SUBSET Ids]]
  /\ feedback \in Seq(Connections) /\ Len(feedback) <= QueueSize
  /\ nextId \in 0..MaxRequests
-----------------------------------------------------------------------------
Init ==
  /\ stopping = FALSE /\ halting = FALSE /\ sock = 0 /\ made = 0
  /\ wire = [n \in Connections |-> "none"]
  /\ asked = [n \in Connections |-> {}]
  /\ inbox = [n \in Connections |-> <<>>]
  /\ reader = [pc |-> "idle", sock |-> 0, batch |-> <<>>, id |-> 0]
  /\ pending = {}
  /\ req = [c \in Callers |-> Idle]
  /\ tear = [t \in Threads |-> NoTear]
  /\ feedback = <<>> /\ nextId = 0
-----------------------------------------------------------------------------
(* _disconnect: the part under the state lock, then closing the socket,    *)
(* clearing the feedback and waking the requests that were pending.        *)

\* Mutant: the requests stay on the table.
DetachKeepsPending(t) ==
  /\ tear' = [tear EXCEPT ![t] = [busy |-> TRUE, sock |-> sock, failed |-> {}]]
  /\ sock' = 0
  /\ UNCHANGED pending

Detach(t) ==
  /\ tear' = [tear EXCEPT ![t] = [busy |-> TRUE, sock |-> sock,
                                  failed |-> pending]]
  /\ sock' = 0
  /\ pending' = {}

FinishDisconnect(t) ==
  /\ tear[t].busy
  /\ tear' = [tear EXCEPT ![t] = NoTear]
  /\ LET Gone(n) == n = tear[t].sock IN
       /\ wire' = [n \in Connections |-> IF Gone(n) THEN "closed" ELSE wire[n]]
       /\ asked' = [n \in Connections |-> IF Gone(n) THEN {} ELSE asked[n]]
       /\ inbox' = [n \in Connections |-> IF Gone(n) THEN <<>> ELSE inbox[n]]
  /\ feedback' = <<>>
  /\ req' = [c \in Callers |->
               IF c = t THEN Idle
               ELSE IF req[c].id \in tear[t].failed
               THEN [req[c] EXCEPT !.outcome = "error"] ELSE req[c]]
  /\ reader' = IF t = "reader" THEN [reader EXCEPT !.pc = "idle", !.sock = 0]
                               ELSE reader
  /\ UNCHANGED <<stopping, halting, sock, made, pending, nextId>>
-----------------------------------------------------------------------------
(* The reader thread                                                       *)

At(pc) == reader.pc = pc

\* Top of _connection_loop, after the reconnect period.
LoopStarts ==
  /\ At("idle")
  /\ reader' = [reader EXCEPT !.pc = IF stopping THEN "ended" ELSE "connecting"]
  /\ UNCHANGED <<stopping, halting, sock, made, wire, asked, inbox, pending, req, tear,
                 feedback, nextId>>

ConnectFails ==
  /\ At("connecting")
  /\ reader' = [reader EXCEPT !.pc = "tearing"]
  /\ Detach("reader")
  /\ UNCHANGED <<stopping, halting, made, wire, asked, inbox, req, feedback, nextId>>

\* Mutant: the stop event is not looked at again.
ConnectsUnchecked ==
  /\ At("connecting") /\ made < MaxConnections
  /\ made' = made + 1
  /\ wire' = [wire EXCEPT ![made + 1] = "up"]
  /\ sock' = made + 1
  /\ reader' = [reader EXCEPT !.pc = "looping"]
  /\ UNCHANGED <<stopping, halting, asked, inbox, pending, req, tear, feedback, nextId>>

\* create_connection has returned; _connect looks at the stop event again.
Connects ==
  /\ At("connecting") /\ made < MaxConnections
  /\ made' = made + 1
  /\ IF stopping
       THEN /\ wire' = [wire EXCEPT ![made + 1] = "closed"]
            /\ UNCHANGED sock
       ELSE /\ wire' = [wire EXCEPT ![made + 1] = "up"]
            /\ sock' = made + 1
  /\ reader' = [reader EXCEPT !.pc = "looping"]
  /\ UNCHANGED <<stopping, halting, asked, inbox, pending, req, tear, feedback, nextId>>

\* Head of _receive_loop; the finally clause of _connection_loop disconnects
\* when the loop ends with a socket.
TakesSocket ==
  /\ At("looping")
  /\ IF ~stopping /\ sock # 0
       THEN /\ reader' = [reader EXCEPT !.pc = "receiving", !.sock = sock]
            /\ UNCHANGED <<sock, pending, tear>>
     ELSE IF sock # 0
       THEN /\ reader' = [reader EXCEPT !.pc = "tearing"]
            /\ Detach("reader")
       ELSE /\ reader' = [reader EXCEPT !.pc = "idle"]
            /\ UNCHANGED <<sock, pending, tear>>
  /\ UNCHANGED <<stopping, halting, made, wire, asked, inbox, req, feedback, nextId>>

\* recv returns what has arrived, up to its size.
Receives ==
  /\ At("receiving") /\ wire[reader.sock] \in {"up", "stalled", "eof"}
  /\ \E k \in 1..Len(inbox[reader.sock]) :
       /\ reader' = [reader EXCEPT !.pc = "routing",
                                   !.batch = SubSeq(inbox[reader.sock], 1, k)]
       /\ inbox' = [inbox EXCEPT ![reader.sock] = SubSeq(@, k + 1, Len(@))]
  /\ UNCHANGED <<stopping, halting, sock, made, wire, asked, pending, req, tear,
                 feedback, nextId>>

\* End of file after the last message, or a socket another thread has closed.
ReceiveRaises ==
  /\ At("receiving")
  /\ \/ wire[reader.sock] = "eof" /\ inbox[reader.sock] = <<>>
     \/ wire[reader.sock] = "closed"
  /\ reader' = [reader EXCEPT !.pc = "tearing"]
  /\ Detach("reader")
  /\ UNCHANGED <<stopping, halting, made, wire, asked, inbox, req, feedback, nextId>>

\* _put_latest_feedback: the oldest makes room.
Put(q, n) ==
  IF Len(q) = QueueSize THEN Append(Tail(q), n) ELSE Append(q, n)

RoutesFeedback ==
  /\ At("routing") /\ reader.batch # <<>> /\ Head(reader.batch) = Feedback
  /\ feedback' = Put(feedback, reader.sock)
  /\ reader' = [reader EXCEPT !.batch = Tail(@)]
  /\ UNCHANGED <<stopping, halting, sock, made, wire, asked, inbox, pending, req, tear,
                 nextId>>

\* _route_message pops the pending request; an answer nobody waits for is
\* dropped.
RoutesAnswer ==
  /\ At("routing") /\ reader.batch # <<>> /\ Head(reader.batch) # Feedback
  /\ LET id == Head(reader.batch) IN
       /\ pending' = pending \ {id}
       /\ reader' = [reader EXCEPT !.batch = Tail(@),
                                   !.pc = IF id \in pending THEN "setting" ELSE @,
                                   !.id = IF id \in pending THEN id ELSE @]
  /\ UNCHANGED <<stopping, halting, sock, made, wire, asked, inbox, req, tear, feedback,
                 nextId>>

\* pending.response is stored and the event set, outside the lock.
SetsEvent ==
  /\ At("setting")
  /\ req' = [c \in Callers |->
               IF req[c].id = reader.id
               THEN [req[c] EXCEPT !.outcome = "response"] ELSE req[c]]
  /\ reader' = [reader EXCEPT !.pc = "routing", !.id = 0]
  /\ UNCHANGED <<stopping, halting, sock, made, wire, asked, inbox, pending, tear,
                 feedback, nextId>>

\* A line that is no JSON object: the connection is given up, and with it
\* whatever recv had returned behind that line.
RoutingRaises ==
  /\ At("routing") /\ reader.batch # <<>>
  /\ reader' = [reader EXCEPT !.pc = "tearing", !.batch = <<>>]
  /\ Detach("reader")
  /\ UNCHANGED <<stopping, halting, made, wire, asked, inbox, req, feedback, nextId>>

BatchDone ==
  /\ At("routing") /\ reader.batch = <<>>
  /\ reader' = [reader EXCEPT !.pc = "looping", !.sock = 0]
  /\ UNCHANGED <<stopping, halting, sock, made, wire, asked, inbox, pending, req, tear,
                 feedback, nextId>>

ReaderStep ==
  \/ LoopStarts \/ ConnectFails \/ Connects \/ TakesSocket \/ Receives
  \/ ReceiveRaises \/ RoutesFeedback \/ RoutesAnswer \/ SetsEvent
  \/ RoutingRaises \/ BatchDone \/ FinishDisconnect("reader")
-----------------------------------------------------------------------------
(* request() in thread c                                                   *)

\* Under the state lock: the id is drawn and registered with the socket.
Registers(c) ==
  /\ req[c].pc = "idle" /\ sock # 0 /\ nextId < MaxRequests
  /\ nextId' = nextId + 1
  /\ pending' = pending \cup {nextId + 1}
  /\ req' = [req EXCEPT ![c] = [pc |-> "locking", id |-> nextId + 1,
                                conn |-> sock, outcome |-> "none"]]
  /\ UNCHANGED <<stopping, halting, sock, made, wire, asked, inbox, reader, tear,
                 feedback>>

\* The send lock is free; whoever holds it is inside sendall.
TakesSendLock(c) ==
  /\ req[c].pc = "locking" /\ \A d \in Callers : req[d].pc # "sending"
  /\ req' = [req EXCEPT ![c].pc = "sending"]
  /\ UNCHANGED <<stopping, halting, sock, made, wire, asked, inbox, reader, pending,
                 tear, feedback, nextId>>

\* sendall returns and the lock is released.  The socket has no timeout: on a
\* stalled connection it does not return.  The server may be gone without a
\* notice.
Sends(c) ==
  /\ req[c].pc = "sending" /\ wire[req[c].conn] \in {"up", "eof"}
  /\ req' = [req EXCEPT ![c].pc = "waiting"]
  /\ asked' = [asked EXCEPT ![req[c].conn] =
                 IF wire[req[c].conn] = "up" THEN @ \cup {req[c].id} ELSE @]
  /\ UNCHANGED <<stopping, halting, sock, made, wire, inbox, reader, pending, tear,
                 feedback, nextId>>

\* OSError, of a sendall that was blocked as well, for closing the socket wakes
\* it: the lock is released and whatever connection the client has by now is torn down.
SendRaises(c) ==
  /\ req[c].pc = "sending" /\ wire[req[c].conn] \in {"eof", "closed"}
  /\ req' = [req EXCEPT ![c].pc = "failing"]
  /\ Detach(c)
  /\ UNCHANGED <<stopping, halting, made, wire, asked, inbox, reader, feedback, nextId>>

\* The event is set: the response is returned or the error raised.
Returns(c) ==
  /\ req[c].pc \in {"waiting", "rewaiting"} /\ req[c].outcome # "none"
  /\ req' = [req EXCEPT ![c] = Idle]
  /\ UNCHANGED <<stopping, halting, sock, made, wire, asked, inbox, reader, pending,
                 tear, feedback, nextId>>

Expires(c) ==
  /\ req[c].pc = "waiting" /\ req[c].outcome = "none"
  /\ req' = [req EXCEPT ![c].pc = "expired"]
  /\ UNCHANGED <<stopping, halting, sock, made, wire, asked, inbox, reader, pending,
                 tear, feedback, nextId>>

\* Mutant: the timeout waits for the event although the request is on the table.
GivesUpWithoutLooking(c) ==
  /\ req[c].pc = "expired"
  /\ req' = [req EXCEPT ![c].pc = "rewaiting"]
  /\ UNCHANGED <<stopping, halting, sock, made, wire, asked, inbox, reader, pending, tear,
                 feedback, nextId>>

\* Under the state lock: time out, unless somebody has taken the request off
\* the table and is about to set its event.
GivesUp(c) ==
  /\ req[c].pc = "expired"
  /\ req' = [req EXCEPT ![c] =
               IF req[c].id \in pending THEN Idle
                                       ELSE [@ EXCEPT !.pc = "rewaiting"]]
  /\ pending' = pending \ {req[c].id}
  /\ UNCHANGED <<stopping, halting, sock, made, wire, asked, inbox, reader, tear,
                 feedback, nextId>>

CallerStep(c) ==
  \/ TakesSendLock(c) \/ Sends(c) \/ SendRaises(c) \/ Returns(c) \/ Expires(c)
  \/ GivesUp(c) \/ FinishDisconnect(c)
-----------------------------------------------------------------------------
(* stop() and start() in the thread that owns the client                   *)

\* stop() sets the event first; until it disconnects the others go on.
Stop ==
  /\ ~halting /\ ~tear["owner"].busy
  /\ stopping' = TRUE /\ halting' = TRUE
  /\ UNCHANGED <<sock, made, wire, asked, inbox, reader, pending, req, tear,
                 feedback, nextId>>

StopDetaches ==
  /\ halting /\ halting' = FALSE
  /\ Detach("owner")
  /\ UNCHANGED <<stopping, made, wire, asked, inbox, reader, req, feedback,
                 nextId>>

\* start() does nothing while the old thread is alive.
Start ==
  /\ stopping /\ ~halting /\ ~tear["owner"].busy /\ At("ended")
  /\ stopping' = FALSE
  /\ reader' = [reader EXCEPT !.pc = "idle"]
  /\ UNCHANGED <<halting, sock, made, wire, asked, inbox, pending, req, tear,
                 feedback, nextId>>

OwnerStep == StopDetaches \/ FinishDisconnect("owner")

\* get_feedback
GetFeedback ==
  /\ feedback # <<>>
  /\ feedback' = Tail(feedback)
  /\ UNCHANGED <<stopping, halting, sock, made, wire, asked, inbox, reader, pending, req,
                 tear, nextId>>
-----------------------------------------------------------------------------
(* The server, as far as the client can tell                               *)

ServerSends(n, m) ==
  /\ wire[n] \in {"up", "stalled"} /\ Len(inbox[n]) < MaxInbox
  /\ m = Feedback \/ m \in asked[n]
  /\ inbox' = [inbox EXCEPT ![n] = Append(@, m)]
  /\ asked' = [asked EXCEPT ![n] = @ \ {m}]
  /\ UNCHANGED <<stopping, halting, sock, made, wire, reader, pending, req, tear,
                 feedback, nextId>>

\* The server reads no more, for good: a pause is a send that takes its time.
ServerStalls(n) ==
  /\ wire[n] = "up"
  /\ wire' = [wire EXCEPT ![n] = "stalled"]
  /\ UNCHANGED <<stopping, halting, sock, made, asked, inbox, reader, pending, req, tear,
                 feedback, nextId>>

ServerCloses(n) ==
  /\ wire[n] \in {"up", "stalled"}
  /\ wire' = [wire EXCEPT ![n] = "eof"]
  /\ asked' = [asked EXCEPT ![n] = {}]
  /\ UNCHANGED <<stopping, halting, sock, made, inbox, reader, pending, req, tear,
                 feedback, nextId>>

Server ==
  \E n \in Connections : \/ \E m \in 0..MaxRequests : ServerSends(n, m)
                         \/ ServerStalls(n) \/ ServerCloses(n)

Next ==
  \/ ReaderStep
  \/ \E c \in Callers : Registers(c) \/ CallerStep(c)
  \/ Stop \/ OwnerStep \/ Start \/ GetFeedback
  \/ Server

(* The threads run; callers, the owner's decisions and the server are free, *)
(* so a stalled connection may stay as it is.                              *)
Fairness ==
  /\ WF_vars(ReaderStep)
  /\ \A c \in Callers : WF_vars(CallerStep(c))
  /\ WF_vars(OwnerStep)

Spec == Init /\ [][Next]_vars /\ Fairness
-----------------------------------------------------------------------------
(* Properties                                                              *)

(* A request is on the table only while the connection it was registered   *)
(* on is the client's connection: _disconnect takes the table away with    *)
(* the socket, so no answer of a later connection can reach it.            *)
PendingIsLive ==
  \A id \in pending : \E c \in Callers :
    req[c].id = id /\ req[c].conn = sock /\ sock # 0

(* A call that still waits is on the table, or a thread that took it off   *)
(* is about to set its event: the second, unlimited wait of request()      *)
(* cannot hang.                                                            *)
NobodyForgotten ==
  \A c \in Callers :
    req[c].pc \in {"locking", "sending", "waiting", "expired", "rewaiting"}
      => \/ req[c].outcome # "none"
         \/ req[c].id \in pending
         \/ At("setting") /\ reader.id = req[c].id
         \/ \E t \in Threads : req[c].id \in tear[t].failed

(* Once stop() has taken the connection away the client stays without one  *)
(* until start(), although the reader may have been connecting meanwhile.  *)
StopIsFinal == stopping /\ ~halting => sock = 0

(* A call of request() is held up in front of the wait its timeout bounds:  *)
(* some call, this one or the holder of the send lock it waits for, is      *)
(* inside sendall on a connection the server reads no more.                 *)
HeldUp(c) ==
  /\ req[c].pc \in {"locking", "sending"}
  /\ \E d \in Callers : req[d].pc = "sending" /\ wire[req[d].conn] = "stalled"

(* Every call of request() ends, with the answer, an error or a timeout,    *)
(* whatever the server and the other threads do; the one exception is a     *)
(* call that is held up for ever, because the server stopped reading for    *)
(* good and neither it nor anybody in the client closes that connection.    *)
RequestEnds ==
  \A c \in Callers : \/ req[c].pc # "idle" ~> req[c].pc = "idle"
                     \/ <>[]HeldUp(c)

(* The table of pending requests is sound: bounded queues and counters,    *)
(* entries of the current connection only, and every waiting call on it or *)
(* in the hands of a thread that will end its wait.                        *)
TableIsSound == TypeOK /\ PendingIsLive /\ NobodyForgotten
=============================================================================
