----------------------------- MODULE AuthorityLock -----------------------------
(***************************************************************************)
(* What command authority promises the clients of the Motion Server: a     *)
(* lock that at most one attached connection holds, that is granted only   *)
(* when it is free, and that its holder gives back or loses with its       *)
(* connection.  CommandAuthority implements this specification with client *)
(* ids that are reused.                                                    *)
(***************************************************************************)

CONSTANT Conns        \* TCP connections

VARIABLES attached,   \* the connections the server has accepted
          holders     \* the connections that hold command authority

Init == attached = {} /\ holders = {}

Attach(c) ==
    /\ c \notin attached
    /\ attached' = attached \union {c}
    /\ UNCHANGED holders

\* The connection ends, and with it its authority.
Detach(c) ==
    /\ c \in attached
    /\ attached' = attached \ {c}
    /\ holders' = holders \ {c}

Grant(c) ==
    /\ c \in attached
    /\ holders = {}
    /\ holders' = {c}
    /\ UNCHANGED attached

GiveBack(c) ==
    /\ holders = {c}
    /\ holders' = {}
    /\ UNCHANGED attached

\* The server process restarts.
Reset == attached' = {} /\ holders' = {}

Next ==
    \/ \E c \in Conns : Attach(c) \/ Detach(c) \/ Grant(c) \/ GiveBack(c)
    \/ Reset

Spec == Init /\ [][Next]_<<attached, holders>>
===============================================================================
