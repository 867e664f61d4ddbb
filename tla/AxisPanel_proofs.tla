-------------------------- MODULE AxisPanel_proofs --------------------------
(***************************************************************************)
(* Proofs about AxisPanel, for any set of servers with any number of axes  *)
(* and any number of things the user does and servers fail at.             *)
(*                                                                         *)
(* PanelInv, the inductive invariant, falls into four parts that the       *)
(* actions disturb one by one: the connection thread and what it shares    *)
(* with the panel (ConnectionInv), the axes the panel was built for        *)
(* (PanelIsBuilt), the repeats with their callbacks (RepeatInv), and what  *)
(* the servers move (MotionInv).                                           *)
(***************************************************************************)
EXTENDS AxisPanel, FiniteSetTheorems, TLAPS

(* The server knows no other session than that of the panel's connection,  *)
(* and outside a round of the thread there is neither.                     *)
OneSession ==
  /\ srv.sess \in {NoEnd, cl.sock}
  /\ thread.pc \in {"idle", "connecting"} => cl.sock = NoEnd /\ ~cl.valid
  /\ thread.pc = "connecting" => thread.to \in Endpoints

(* The address that the thread connects to is the wanted one, unless it    *)
(* was changed since.                                                      *)
ConnectingIsWanted ==
  thread.pc = "connecting" /\ ~raced => cl.enabled /\ thread.to = cl.want

ConnectionInv == OneSession /\ ConnectingIsWanted /\ ConnectionIsWanted

(* The panel is shown for a known number of axes, and one of them is       *)
(* selected.                                                               *)
PanelIsBuilt ==
  /\ gui.tab \notin {"boot", "closed"} => cl.count > 0
  /\ gui.sel = 1 \/ gui.sel <= cl.count

(* The callbacks T of kind k are not ahead of the repeat r; while it waits *)
(* one of them is its own, and otherwise none is.                          *)
Own(t, k, r) == t.kind = k /\ t.gen = r.gen

CallbacksFit(k, r, T) ==
  /\ \A t \in T : t.kind = k => t.gen <= r.gen
  /\ r.on /\ r.waiting =>
       /\ r.last = 1 - r.idx
       /\ \E t \in T : /\ Own(t, k, r) /\ t.axes = r.axes /\ t.pt = r.idx
                       /\ \A u \in T : Own(u, k, r) => u = t
  /\ r.on /\ ~r.waiting =>
       /\ r.last \in {NoPoint, r.idx}
       /\ \A u \in T : ~Own(u, k, r)

RepeatInv ==
  RepeatNeedsData /\ CallbacksFit("single", rep, timers) /\ CallbacksFit("multi", mul, timers)

(* What the panel jogs, it jogs in its session.                            *)
MotionIsOurs == \A x \in srv.jog \ srv.left : x[1] = srv.sess

MotionInv == MotionIsOurs /\ MotionIsAttended

PanelInv == TypeOK /\ ConnectionInv /\ PanelIsBuilt /\ RepeatInv /\ MotionInv
-----------------------------------------------------------------------------
(* Parts of the type invariant                                             *)

ThreadType == thread \in ThreadState
ClientType == cl \in ClientState
GuiType == gui \in GuiState
RepeatType == /\ rep \in Repeat /\ mul \in Repeat
              /\ rep.axes \subseteq PanelAxes /\ mul.axes \subseteq PanelAxes
              /\ timers \subseteq Callback
ServerFits(s) ==
  s \in ServerState /\ s.sess \in s.up \cup {NoEnd} /\ s.left \subseteq s.jog
RestType == raced \in BOOLEAN /\ clicks \in 0..MaxClicks /\ faults \in 0..MaxFaults

LEMMA TypeParts ==
  TypeOK <=> ThreadType /\ ClientType /\ GuiType /\ RepeatType /\ ServerFits(srv) /\ RestType
BY DEF TypeOK, ThreadType, ClientType, GuiType, RepeatType, ServerFits, RestType

LEMMA AxisFacts ==
  /\ Axes \subseteq Nat \ {0}
  /\ 1 \in Axes
  /\ \A e \in Endpoints : CountOf[e] \in Nat \ {0}
  /\ \A e \in Endpoints, a \in Axes : a \in AxesAt(e) <=> a <= CountOf[e]
<1>1. \A e \in Endpoints : CountOf[e] \in Nat \ {0}
  BY PanelAssumption
<1>2. Axes \subseteq Nat \ {0}
  BY <1>1 DEF Axes
<1>3. 1 \in 1..CountOf[Configured]
  BY <1>1, PanelAssumption
<1>4. 1 \in Axes
  BY <1>3, PanelAssumption DEF Axes
<1> QED
  BY <1>1, <1>2, <1>4 DEF AxesAt
-----------------------------------------------------------------------------
(* Repeats                                                                 *)

LEMMA RepeatTypes ==
  ASSUME NEW r \in Repeat, NEW A \in SUBSET Axes
  PROVE  /\ NoRepeat \in Repeat /\ NoRepeat.axes = {} /\ NoRepeat.on = FALSE
         /\ Stopped(r) \in Repeat /\ Stopped(r).axes = r.axes /\ Stopped(r).on = FALSE
         /\ StoppedMulti(r) \in Repeat /\ StoppedMulti(r).axes = {}
         /\ StoppedMulti(r).on = FALSE
         /\ Started(r, A) \in Repeat /\ Started(r, A).axes = A
<1>1. NoRepeat \in Repeat /\ NoRepeat.axes = {} /\ NoRepeat.on = FALSE
  BY DEF Repeat, NoRepeat, Points, NoPoint
<1>0. r.gen + 1 \in Nat /\ 0 \in Points /\ {} \in SUBSET Axes
  BY DEF Repeat, Points
<1>2. Stopped(r) \in Repeat /\ Stopped(r).axes = r.axes /\ Stopped(r).on = FALSE
  BY <1>0 DEF Repeat, Stopped
<1>3. /\ StoppedMulti(r) \in Repeat /\ StoppedMulti(r).axes = {}
      /\ StoppedMulti(r).on = FALSE
  BY <1>0 DEF Repeat, StoppedMulti
<1>4. Started(r, A) \in Repeat /\ Started(r, A).axes = A
  BY <1>0 DEF Repeat, Started
<1> QED
  BY <1>1, <1>2, <1>3, <1>4

(* A new generation has no callback yet.                                   *)
LEMMA NewGeneration ==
  ASSUME NEW k, NEW r \in Repeat, NEW T \in SUBSET Callback, NEW A \in SUBSET Axes,
         CallbacksFit(k, r, T)
  PROVE  /\ CallbacksFit(k, Stopped(r), T)
         /\ CallbacksFit(k, StoppedMulti(r), T)
         /\ CallbacksFit(k, Started(r, A), T)
<1>1. \A t \in T : t.gen \in Nat /\ (t.kind = k => t.gen <= r.gen)
  BY DEF CallbacksFit, Callback
<1>2. r.gen \in Nat
  BY DEF Repeat
<1>3. \A t \in T : t.kind = k => t.gen <= r.gen + 1 /\ t.gen # r.gen + 1
  BY <1>1, <1>2
<1>4. CallbacksFit(k, Stopped(r), T)
  BY <1>3 DEF CallbacksFit, Stopped, Repeat
<1>5. CallbacksFit(k, StoppedMulti(r), T)
  BY <1>3 DEF CallbacksFit, StoppedMulti, Repeat
<1>6. CallbacksFit(k, Started(r, A), T)
  BY <1>3 DEF CallbacksFit, Started, Repeat, Own
<1> QED
  BY <1>4, <1>5, <1>6

(* Callbacks of the other kind do not matter.                              *)
LEMMA OtherCallbacks ==
  ASSUME NEW k, NEW r \in Repeat, NEW T \in SUBSET Callback, NEW S,
         CallbacksFit(k, r, T), \A t \in S : t.kind # k
  PROVE  CallbacksFit(k, r, T \cup S)
BY DEF CallbacksFit, Own

LEMMA UpdatedFits ==
  ASSUME NEW k \in {"single", "multi"}, NEW r \in Repeat, NEW pos \in Points \cup {NoPoint},
         NEW T \in SUBSET Callback, CallbacksFit(k, r, T)
  PROVE  /\ Updated(k, r, pos) \in Repeat
         /\ Updated(k, r, pos).axes = r.axes /\ Updated(k, r, pos).on = r.on
         /\ NewTimers(k, r, pos) \in SUBSET Callback
         /\ \A t \in NewTimers(k, r, pos) : t.kind = k
         /\ CallbacksFit(k, Updated(k, r, pos), T \cup NewTimers(k, r, pos))
<1> DEFINE u == Updated(k, r, pos)
           N == NewTimers(k, r, pos)
           new == [kind |-> k, axes |-> r.axes, pt |-> 1 - r.idx, gen |-> r.gen]
<1>1. new \in Callback /\ new.kind = k /\ new.gen = r.gen /\ new.axes = r.axes
      /\ new.pt = 1 - r.idx
  BY DEF Callback, Repeat, Points
<1>2. CASE r.on /\ r.last = NoPoint
  <2>1. u = [r EXCEPT !.last = r.idx] /\ N = {}
    BY <1>2 DEF Updated, NewTimers, Turns
  <2>2. u \in Repeat /\ u.last = r.idx /\ u.on /\ u.waiting = r.waiting /\ u.gen = r.gen
        /\ u.idx = r.idx /\ u.axes = r.axes
    BY <1>2, <2>1 DEF Repeat
  <2>3. ~r.waiting
    BY <1>2 DEF CallbacksFit, Repeat, Points, NoPoint
  <2>4. CallbacksFit(k, u, T \cup N)
    BY <1>2, <2>1, <2>2, <2>3 DEF CallbacksFit, Own
  <2> QED
    BY <1>2, <2>1, <2>2, <2>4
<1>3. CASE ~(r.on /\ r.last = NoPoint) /\ Turns(k, r, pos)
  <2>1. u = [r EXCEPT !.idx = 1 - @, !.waiting = TRUE] /\ N = {new}
    BY <1>3 DEF Updated, NewTimers
  <2>2. r.on /\ ~r.waiting /\ r.last = r.idx
    BY <1>3 DEF Turns, CallbacksFit
  <2>3. u \in Repeat /\ u.last = r.last /\ u.on = r.on /\ u.waiting /\ u.gen = r.gen
        /\ u.idx = 1 - r.idx /\ u.axes = r.axes
    <3>1. 1 - r.idx \in Points
      BY DEF Repeat, Points
    <3> QED
      BY <2>1, <3>1 DEF Repeat
  <2>4. u.last = 1 - u.idx
    BY <2>2, <2>3 DEF Repeat, Points
  <2>5. \A t \in T : ~Own(t, k, r)
    BY <2>2 DEF CallbacksFit
  <2>6. Own(new, k, u) /\ new.axes = u.axes /\ new.pt = u.idx /\ new \in T \cup N
    BY <1>1, <2>1, <2>3 DEF Own
  <2>7. \A t \in T \cup N : Own(t, k, u) => t = new
    BY <2>1, <2>3, <2>5 DEF Own
  <2>8. \A t \in T \cup N : t.kind = k => t.gen <= u.gen
    BY <1>1, <2>1, <2>3 DEF CallbacksFit, Repeat
  <2>9. CallbacksFit(k, u, T \cup N)
    BY <2>3, <2>4, <2>6, <2>7, <2>8 DEF CallbacksFit
  <2> QED
    BY <1>1, <2>1, <2>3, <2>9
<1>4. CASE ~(r.on /\ r.last = NoPoint) /\ ~Turns(k, r, pos)
  <2>1. u = r /\ N = {}
    BY <1>4 DEF Updated, NewTimers
  <2> QED
    BY <2>1
<1> QED
  BY <1>2, <1>3, <1>4

(* A callback that fires is gone; when it was the repeat's own, the repeat *)
(* waits no longer.                                                        *)
LEMMA FiredFits ==
  ASSUME NEW k, NEW r \in Repeat, NEW T \in SUBSET Callback, NEW t \in T,
         CallbacksFit(k, r, T)
  PROVE  /\ t.kind = k /\ Live(t, r) =>
              /\ [r EXCEPT !.last = t.pt, !.waiting = FALSE] \in Repeat
              /\ CallbacksFit(k, [r EXCEPT !.last = t.pt, !.waiting = FALSE], T \ {t})
         /\ ~(t.kind = k /\ Live(t, r)) => CallbacksFit(k, r, T \ {t})
<1>1. CASE t.kind = k /\ Live(t, r)
  <2> DEFINE n == [r EXCEPT !.last = t.pt, !.waiting = FALSE]
  <2>1. Own(t, k, r) /\ r.on
    BY <1>1 DEF Own, Live
  <2>2. r.waiting
    BY <2>1 DEF CallbacksFit, Repeat
  <2>3. t.pt = r.idx /\ \A u \in T : Own(u, k, r) => u = t
    BY <2>1, <2>2 DEF CallbacksFit
  <2>4. n \in Repeat /\ n.last = r.idx /\ n.on /\ ~n.waiting /\ n.gen = r.gen /\ n.idx = r.idx
    BY <2>1, <2>3 DEF Repeat
  <2>5. \A u \in T \ {t} : ~Own(u, k, n)
    BY <2>3, <2>4 DEF Own
  <2>6. CallbacksFit(k, n, T \ {t})
    BY <2>4, <2>5 DEF CallbacksFit
  <2> QED
    BY <1>1, <2>4, <2>6
<1>2. CASE ~(t.kind = k /\ Live(t, r))
  <2>1. r.on => ~Own(t, k, r)
    BY <1>2 DEF Own, Live
  <2>2. CallbacksFit(k, r, T \ {t})
    BY <2>1 DEF CallbacksFit
  <2> QED
    BY <1>2, <2>2
<1> QED
  BY <1>1, <1>2
-----------------------------------------------------------------------------
(* What the servers do                                                     *)

(* Nothing moves but what was given up.                                    *)
Unattended(s) == s.jog \subseteq s.left

(* t is s with no more jogs of the panel.                                  *)
Calmer(s, t) ==
  ServerFits(t) /\ t.sess = s.sess /\ t.jog \ t.left \subseteq s.jog \ s.left

LEMMA CalmerStill ==
  ASSUME NEW s, NEW t, NEW u, Calmer(s, t), Calmer(t, u)
  PROVE  Calmer(s, u)
BY DEF Calmer

LEMMA AtFacts ==
  ASSUME NEW s, s.sess \in Endpoints, NEW A \in SUBSET Axes
  PROVE  /\ At(s, A) \subseteq Endpoints \X Axes
         /\ At(s, AxesAt(s.sess)) \subseteq Endpoints \X Axes
         /\ \A x \in At(s, A) : x[1] = s.sess /\ x[2] \in A
         /\ \A x \in Endpoints \X Axes : x[1] = s.sess /\ x[2] \in A => x \in At(s, A)
BY DEF At, AxesAt

(* Jogs that end, and jogs that are given up                               *)
LEMMA HaltedCalms ==
  ASSUME NEW s, ServerFits(s), NEW A
  PROVE  /\ Calmer(s, Halted(s, A)) /\ Halted(s, A).jog = s.jog \ At(s, A)
         /\ Halted(s, A).bus = s.bus /\ Halted(s, A).fault = s.fault
         /\ Halted(s, A).off = s.off /\ Halted(s, A).cold = s.cold
<1> DEFINE t == Halted(s, A)
           D == At(s, A)
<1>1. s \in ServerState /\ t = [s EXCEPT !.jog = @ \ D, !.left = @ \ D]
  BY DEF ServerFits, Halted
<1> HIDE DEF t, D
<1>2. /\ t \in ServerState /\ t.up = s.up /\ t.sess = s.sess /\ t.bus = s.bus
      /\ t.jog = s.jog \ D /\ t.left = s.left \ D /\ t.fault = s.fault /\ t.off = s.off
      /\ t.cold = s.cold
  <2>1. s.jog \ D \in SUBSET (Endpoints \X Axes) /\ s.left \ D \in SUBSET (Endpoints \X Axes)
    BY <1>1 DEF ServerState
  <2> QED
    BY <1>1, <2>1 DEF ServerState
<1>3. Calmer(s, t)
  BY <1>2 DEF Calmer, ServerFits
<1> QED
  BY <1>2, <1>3 DEF t, D

LEMMA GivenUpCalms ==
  ASSUME NEW s, ServerFits(s), NEW A
  PROVE  /\ Calmer(s, GivenUp(s, A)) /\ GivenUp(s, A).jog = s.jog
         /\ s.jog \cap At(s, A) \subseteq GivenUp(s, A).left
<1> DEFINE t == GivenUp(s, A)
           D == s.jog \cap At(s, A)
<1>1. s \in ServerState /\ t = [s EXCEPT !.left = @ \cup D] /\ D \subseteq s.jog
  BY DEF ServerFits, GivenUp
<1> HIDE DEF t, D
<1>2. /\ t \in ServerState /\ t.up = s.up /\ t.sess = s.sess
      /\ t.jog = s.jog /\ t.left = s.left \cup D
  <2>1. s.left \cup D \in SUBSET (Endpoints \X Axes)
    BY <1>1 DEF ServerState
  <2> QED
    BY <1>1, <2>1 DEF ServerState
<1>3. Calmer(s, t)
  BY <1>1, <1>2 DEF Calmer, ServerFits
<1> QED
  BY <1>2, <1>3 DEF t, D

(* Faults, disabled axes and buses that come and go                        *)
LEMMA MarksCalm ==
  ASSUME NEW s, ServerFits(s), NEW t,
         NEW B \in SUBSET Endpoints, NEW F \in SUBSET (Endpoints \X (Axes \cup {NoAxis})),
         NEW O \in SUBSET (Endpoints \X Axes), NEW C \in SUBSET (Endpoints \X Axes),
         t = [s EXCEPT !.bus = B, !.fault = F, !.off = O, !.cold = C]
  PROVE  Calmer(s, t)
<1>1. /\ t \in ServerState /\ t.up = s.up /\ t.sess = s.sess
      /\ t.jog = s.jog /\ t.left = s.left
  BY DEF ServerFits, ServerState
<1> QED
  BY <1>1 DEF Calmer, ServerFits

LEMMA DisabledCalms ==
  ASSUME NEW s, ServerFits(s), s.sess \in Endpoints, NEW A \in SUBSET Axes
  PROVE  /\ Calmer(s, Disabled(s, A))
         /\ Calmer(s, [Disabled(s, A) EXCEPT !.fault = @ \ At(s, A), !.cold = @ \ At(s, A)])
         /\ Calmer(s, [Halted(s, A) EXCEPT !.off = @ \ (At(s, A) \ s.cold)])
         /\ Calmer(s, [s EXCEPT !.fault = @ \ At(s, {NoAxis})])
         /\ Calmer(s, Revived(s))
<1> DEFINE D == At(s, A)
           N == At(s, {NoAxis})
           E == At(s, AxesAt(s.sess))
<1>1. D \subseteq Endpoints \X Axes /\ E \subseteq Endpoints \X Axes
  BY AtFacts
<1>2. /\ s \in ServerState /\ s.bus \cup {s.sess} \in SUBSET Endpoints
      /\ s.bus \in SUBSET Endpoints
      /\ s.fault \in SUBSET (Endpoints \X (Axes \cup {NoAxis}))
      /\ s.off \in SUBSET (Endpoints \X Axes) /\ s.cold \in SUBSET (Endpoints \X Axes)
  BY DEF ServerFits, ServerState
<1> HIDE DEF D, N, E
<1>3. /\ s.off \cup D \in SUBSET (Endpoints \X Axes)
      /\ s.off \ (D \ s.cold) \in SUBSET (Endpoints \X Axes)
      /\ s.cold \ D \in SUBSET (Endpoints \X Axes)
      /\ s.off \cup E \in SUBSET (Endpoints \X Axes) /\ s.cold \cup E \in SUBSET (Endpoints \X Axes)
      /\ s.fault \ D \in SUBSET (Endpoints \X (Axes \cup {NoAxis}))
      /\ s.fault \ N \in SUBSET (Endpoints \X (Axes \cup {NoAxis}))
  BY <1>1, <1>2
<1>4. ASSUME NEW X
      PROVE  /\ Calmer(s, Halted(s, X)) /\ ServerFits(Halted(s, X))
             /\ Halted(s, X) \in ServerState /\ Halted(s, X).bus = s.bus
             /\ Halted(s, X).fault = s.fault /\ Halted(s, X).off = s.off
             /\ Halted(s, X).cold = s.cold
  BY HaltedCalms DEF Calmer, ServerFits
<1>5. Calmer(s, Disabled(s, A)) /\ Calmer(s, [Disabled(s, A) EXCEPT !.fault = @ \ D, !.cold = @ \ D])
  <2> DEFINE h == Halted(s, A)
             t == [h EXCEPT !.off = @ \cup D]
             u == [t EXCEPT !.fault = @ \ D, !.cold = @ \ D]
  <2>1. Disabled(s, A) = t
    BY DEF Disabled, D
  <2>2. ServerFits(h) /\ h \in ServerState /\ h.bus = s.bus /\ h.fault = s.fault /\ h.off = s.off
        /\ h.cold = s.cold /\ Calmer(s, h)
    BY <1>4
  <2> HIDE DEF h
  <2>3. /\ t = [h EXCEPT !.bus = s.bus, !.fault = s.fault, !.off = s.off \cup D, !.cold = s.cold]
        /\ u = [h EXCEPT !.bus = s.bus, !.fault = s.fault \ D, !.off = s.off \cup D,
                         !.cold = s.cold \ D]
    BY <2>2 DEF ServerState
  <2>4. Calmer(h, t) /\ Calmer(h, u)
    <3> HIDE DEF t, u
    <3> QED
      BY <1>2, <1>3, <2>2, <2>3, MarksCalm
  <2> QED
    BY <2>1, <2>2, <2>4, CalmerStill
<1>6. Calmer(s, [Halted(s, A) EXCEPT !.off = @ \ (D \ s.cold)])
  <2> DEFINE h == Halted(s, A)
             t == [h EXCEPT !.off = @ \ (D \ s.cold)]
  <2>1. ServerFits(h) /\ h \in ServerState /\ h.bus = s.bus /\ h.fault = s.fault /\ h.off = s.off
        /\ h.cold = s.cold /\ Calmer(s, h)
    BY <1>4
  <2> HIDE DEF h
  <2>2. t = [h EXCEPT !.bus = s.bus, !.fault = s.fault, !.off = s.off \ (D \ s.cold),
                      !.cold = s.cold]
    BY <2>1 DEF ServerState
  <2>3. Calmer(h, t)
    <3> HIDE DEF t
    <3> QED
      BY <1>2, <1>3, <2>1, <2>2, MarksCalm
  <2>4. Calmer(s, t)
    BY <2>1, <2>3, CalmerStill
  <2> QED
    BY <2>4 DEF h
<1>7. Calmer(s, [s EXCEPT !.fault = @ \ N])
  <2> DEFINE t == [s EXCEPT !.fault = @ \ N]
  <2>1. t = [s EXCEPT !.bus = s.bus, !.fault = s.fault \ N, !.off = s.off, !.cold = s.cold]
    BY <1>2 DEF ServerState
  <2> HIDE DEF t
  <2>2. Calmer(s, t)
    BY <1>2, <1>3, <2>1, MarksCalm
  <2> QED
    BY <2>2 DEF t
<1>8. Calmer(s, Revived(s))
  <2> DEFINE h == Halted(s, Axes)
  <2>1. ServerFits(h) /\ h \in ServerState /\ h.bus = s.bus /\ h.fault = s.fault /\ h.off = s.off
        /\ h.cold = s.cold /\ Calmer(s, h)
    BY <1>4
  <2>2. Revived(s) = [h EXCEPT !.bus = h.bus \cup {s.sess}, !.fault = h.fault \ N,
                               !.off = h.off \cup E, !.cold = h.cold \cup E]
    BY DEF Revived, N, E
  <2> HIDE DEF h
  <2> DEFINE B == h.bus \cup {s.sess}
             F == h.fault \ N
             O == h.off \cup E
             C == h.cold \cup E
  <2>3. /\ B \in SUBSET Endpoints /\ O \in SUBSET (Endpoints \X Axes)
        /\ C \in SUBSET (Endpoints \X Axes)
        /\ F \in SUBSET (Endpoints \X (Axes \cup {NoAxis}))
    BY <1>2, <1>3, <2>1
  <2> HIDE DEF B, F, O, C
  <2>4. Revived(s) = [h EXCEPT !.bus = B, !.fault = F, !.off = O, !.cold = C]
    BY <2>2 DEF B, F, O, C
  <2>5. Calmer(h, Revived(s))
    BY <2>1, <2>3, <2>4, MarksCalm
  <2> QED
    BY <2>1, <2>5, CalmerStill
<1> QED
  BY <1>5, <1>6, <1>7, <1>8 DEF D, N

Quiet == {"stop", "jog_stop", "home", "move", "enable", "disable", "fault_reset",
          "server_fault_reset", "server_restart", "reconnect", "axis_restart"}

(* A command that starts no jog                                            *)
LEMMA SentCalms ==
  ASSUME NEW s, ServerFits(s), NEW A \in SUBSET Axes, NEW cmd \in Quiet
  PROVE  Calmer(s, Sent(s, cmd, A))
<1>1. Calmer(s, s)
  BY DEF Calmer
<1>2. CASE ~(cl.sock # NoEnd /\ s.sess = cl.sock)
  BY <1>1, <1>2 DEF Sent
<1>3. CASE cl.sock # NoEnd /\ s.sess = cl.sock
  <2>1. Sent(s, cmd, A) = Take(s, cmd, A)
    BY <1>3 DEF Sent
  <2>2. s.sess \in Endpoints
    BY <1>3 DEF ServerFits, ServerState
  <2>3. /\ Calmer(s, Disabled(s, A))
        /\ Calmer(s, [Disabled(s, A) EXCEPT !.fault = @ \ At(s, A), !.cold = @ \ At(s, A)])
        /\ Calmer(s, [Halted(s, A) EXCEPT !.off = @ \ (At(s, A) \ s.cold)])
        /\ Calmer(s, [s EXCEPT !.fault = @ \ At(s, {NoAxis})])
        /\ Calmer(s, Revived(s))
    BY <2>2, DisabledCalms
  <2>4. Calmer(s, Halted(s, A)) /\ Calmer(s, GivenUp(s, A))
    BY HaltedCalms, GivenUpCalms
  <2>5. Calmer(s, GivenUp(Halted(s, Halts(s, A)), A))
    <3>1. Calmer(s, Halted(s, Halts(s, A))) /\ ServerFits(Halted(s, Halts(s, A)))
      BY HaltedCalms DEF Calmer
    <3>2. Calmer(Halted(s, Halts(s, A)), GivenUp(Halted(s, Halts(s, A)), A))
      BY <3>1, GivenUpCalms
    <3> QED
      BY <3>1, <3>2, CalmerStill
  <2>6. \/ Take(s, cmd, A) = s
        \/ Take(s, cmd, A) = Revived(s)
        \/ Take(s, cmd, A) = [s EXCEPT !.fault = @ \ At(s, {NoAxis})]
        \/ Take(s, cmd, A) = [Disabled(s, A) EXCEPT !.fault = @ \ At(s, A),
                                                   !.cold = @ \ At(s, A)]
        \/ Take(s, cmd, A) = Disabled(s, A)
        \/ Take(s, cmd, A) = [Halted(s, A) EXCEPT !.off = @ \ (At(s, A) \ s.cold)]
        \/ Take(s, cmd, A) = GivenUp(Halted(s, Halts(s, A)), A)
        \/ Take(s, cmd, A) = Halted(s, A)
        \/ Take(s, cmd, A) = GivenUp(s, A)
    BY DEF Take, Quiet
  <2> QED
    BY <1>1, <2>1, <2>3, <2>4, <2>5, <2>6
<1> QED
  BY <1>2, <1>3

(* The end of a jog that arrives ends it, or it is given up.               *)
LEMMA SentGivesUp ==
  ASSUME NEW s, ServerFits(s), NEW a \in Axes, s.sess # NoEnd, s.sess = cl.sock,
         NEW x \in Endpoints \X Axes, x[1] = s.sess, x[2] = a
  PROVE  x \in Sent(s, "jog_stop", {a}).jog => x \in Sent(s, "jog_stop", {a}).left
<1> DEFINE t == Sent(s, "jog_stop", {a})
<1>1. t = Halted(s, {a}) \/ t = GivenUp(s, {a})
  BY DEF Sent, Take
<1>2. s.sess \in Endpoints
  BY DEF ServerFits, ServerState
<1>3. x \in At(s, {a})
  BY <1>2, AtFacts
<1> HIDE DEF t
<1>4. t = Halted(s, {a}) => x \notin t.jog
  BY <1>3, HaltedCalms
<1>5. t = GivenUp(s, {a}) => (x \in t.jog => x \in t.left)
  BY <1>3, GivenUpCalms
<1>6. x \in t.jog => x \in t.left
  BY <1>1, <1>4, <1>5
<1> QED
  BY <1>6 DEF t

(* The button of a jog is released: nothing the panel jogs is left over.   *)
LEMMA StoppedJogCalms ==
  ASSUME TypeOK, OneSession, MotionInv
  PROVE  Calmer(srv, StoppedJog(srv)) /\ Unattended(StoppedJog(srv))
<1> DEFINE s == StoppedJog(srv)
<1>0. ServerFits(srv) /\ gui.jog \in Axes \cup {NoAxis}
  BY TypeParts DEF GuiType, GuiState
<1>1. Calmer(srv, s)
  <2>1. Calmer(srv, srv)
    BY <1>0 DEF Calmer
  <2>2. gui.jog # NoAxis => Calmer(srv, Sent(srv, "jog_stop", {gui.jog}))
    BY <1>0, SentCalms DEF Quiet
  <2> QED
    BY <2>1, <2>2 DEF StoppedJog
<1>2. s.jog \subseteq s.left
  <2> SUFFICES ASSUME NEW x \in s.jog, x \notin s.left
               PROVE  FALSE
    OBVIOUS
  <2>1. x \in srv.jog \ srv.left
    BY <1>1 DEF Calmer
  <2>2. x \in Endpoints \X Axes /\ x[1] = srv.sess /\ x[2] = gui.jog
    BY <1>0, <2>1 DEF ServerFits, ServerState, MotionInv, MotionIsOurs, MotionIsAttended
  <2>3. x[1] \in Endpoints /\ x[2] \in Axes
    BY <2>2
  <2>4. /\ gui.jog \in Axes /\ gui.jog # NoAxis
        /\ srv.sess # NoEnd /\ srv.sess = cl.sock
    BY <2>2, <2>3, PanelAssumption, AxisFacts DEF OneSession, NoAxis
  <2>5. s = Sent(srv, "jog_stop", {gui.jog})
    BY <2>4 DEF StoppedJog
  <2> QED
    BY <1>0, <2>2, <2>4, <2>5, SentGivesUp
<1> QED
  BY <1>1, <1>2 DEF Unattended

(* stop_tab_motion ends what the panel attends to.                         *)
LEMMA StopTabCalms ==
  ASSUME TypeOK, OneSession, MotionInv, NEW pv
  PROVE  Calmer(srv, StopTabMotion(srv, pv)) /\ Unattended(StopTabMotion(srv, pv))
<1> DEFINE s == StoppedJog(srv)
           t == StoppedPv(s, pv)
<1>1. Calmer(srv, s) /\ Unattended(s) /\ ServerFits(s) /\ gui.sel \in Axes
  BY StoppedJogCalms, TypeParts DEF Calmer, GuiType, GuiState
<1> HIDE DEF s
<1>2. Calmer(s, t)
  <2>1. Calmer(s, s)
    BY <1>1 DEF Calmer
  <2>2. Calmer(s, Sent(s, "stop", {gui.sel}))
    BY <1>1, SentCalms DEF Quiet
  <2> QED
    BY <2>1, <2>2 DEF StoppedPv
<1>3. Calmer(srv, t) /\ Unattended(t)
  BY <1>1, <1>2, CalmerStill DEF Calmer, Unattended
<1> QED
  BY <1>3 DEF StopTabMotion, s

(* A session that ends leaves everything to nobody.                        *)
LEMMA AbandonedFits ==
  ASSUME NEW s, ServerFits(s), \A x \in s.jog \ s.left : x[1] = s.sess
  PROVE  /\ ServerFits(Abandoned(s)) /\ Unattended(Abandoned(s))
         /\ Abandoned(s).sess = s.sess
         /\ ServerFits([Abandoned(s) EXCEPT !.sess = NoEnd])
         /\ Unattended([Abandoned(s) EXCEPT !.sess = NoEnd])
         /\ [Abandoned(s) EXCEPT !.sess = NoEnd].sess = NoEnd
         /\ [Abandoned(s) EXCEPT !.sess = NoEnd].up = s.up
<1> DEFINE L == s.left \cup {x \in s.jog : x[1] = s.sess}
           t == Abandoned(s)
           n == [t EXCEPT !.sess = NoEnd]
<1>1. s \in ServerState /\ s.sess \in s.up \cup {NoEnd} /\ s.left \subseteq s.jog
  BY DEF ServerFits
<1>2. s.jog \subseteq L /\ L \subseteq s.jog
  BY <1>1
<1>3. t = [s EXCEPT !.own = FALSE, !.left = L]
  BY DEF Abandoned
<1> HIDE DEF L
<1>4. L \subseteq Endpoints \X Axes
  BY <1>1, <1>2 DEF ServerState
<1>5. /\ t \in ServerState /\ t.up = s.up /\ t.bus = s.bus /\ t.sess = s.sess
      /\ t.jog = s.jog /\ t.left = L
  BY <1>1, <1>3, <1>4 DEF ServerState
<1> HIDE DEF t
<1>6. /\ n \in ServerState /\ n.up = s.up /\ n.sess = NoEnd
      /\ n.jog = s.jog /\ n.left = L
  BY <1>5 DEF ServerState
<1> HIDE DEF n
<1>7. ServerFits(t) /\ Unattended(t)
  BY <1>1, <1>2, <1>5 DEF ServerFits, Unattended
<1>8. ServerFits(n) /\ Unattended(n)
  BY <1>2, <1>6 DEF ServerFits, Unattended
<1> QED
  BY <1>5, <1>6, <1>7, <1>8 DEF t, n

(* Motion of the panel belongs to its session, also when there is less.    *)
LEMMA CalmerIsOurs ==
  ASSUME NEW s, Calmer(srv, s), MotionIsOurs
  PROVE  \A x \in s.jog \ s.left : x[1] = s.sess
BY DEF Calmer, MotionIsOurs

LEMMA UnattendedFits ==
  ASSUME Unattended(srv')
  PROVE  MotionInv'
BY DEF Unattended, MotionInv, MotionIsOurs, MotionIsAttended

LEMMA CalmerFits ==
  ASSUME MotionInv, Calmer(srv, srv'),
         gui'.jog = gui.jog, gui'.sel = gui.sel, gui'.tab = gui.tab
  PROVE  MotionInv' /\ ServerFits(srv') /\ srv'.sess = srv.sess
<1>1. srv'.sess = srv.sess /\ srv'.jog \ srv'.left \subseteq srv.jog \ srv.left /\ ServerFits(srv')
  BY DEF Calmer
<1>2. \A x \in srv'.jog \ srv'.left : x \in srv.jog \ srv.left
  BY <1>1
<1>4. MotionIsOurs'
  BY <1>1, <1>2 DEF MotionInv, MotionIsOurs
<1>5. MotionIsAttended'
  BY <1>2 DEF MotionInv, MotionIsAttended
<1> QED
  BY <1>1, <1>4, <1>5 DEF MotionInv
-----------------------------------------------------------------------------
(* The parts of the invariant, under the steps that leave most alone       *)

(* A repeat that goes on or is stopped                                     *)
LEMMA RepeatsKept ==
  ASSUME TypeOK, RepeatInv, rep' \in {rep, Stopped(rep)}, mul' \in {mul, StoppedMulti(mul)},
         timers' = timers, gui'.valid = gui.valid, cl'.count = cl.count
  PROVE  RepeatInv' /\ RepeatType'
<1>1. rep \in Repeat /\ mul \in Repeat /\ timers \in SUBSET Callback
      /\ rep.axes \subseteq PanelAxes /\ mul.axes \subseteq PanelAxes
  BY DEF TypeOK
<1>0. {} \in SUBSET Axes
  OBVIOUS
<1>2. rep' \in Repeat /\ rep'.axes = rep.axes /\ (rep'.on => rep.on)
  <2>1. Stopped(rep) \in Repeat /\ Stopped(rep).axes = rep.axes /\ Stopped(rep).on = FALSE
    BY <1>0, <1>1, RepeatTypes
  <2> QED
    BY <1>1, <2>1
<1>3. mul' \in Repeat /\ mul'.axes \subseteq mul.axes /\ (mul'.on => mul.on)
  <2>1. /\ StoppedMulti(mul) \in Repeat /\ StoppedMulti(mul).axes = {}
        /\ StoppedMulti(mul).on = FALSE
    BY <1>0, <1>1, RepeatTypes
  <2> QED
    BY <1>1, <2>1
<1>4. CallbacksFit("single", rep, timers)'
  BY <1>1, NewGeneration DEF RepeatInv
<1>5. CallbacksFit("multi", mul, timers)'
  BY <1>1, NewGeneration DEF RepeatInv
<1>6. RepeatNeedsData'
  BY <1>2, <1>3 DEF RepeatInv, RepeatNeedsData
<1>7. PanelAxes' = PanelAxes
  BY DEF PanelAxes
<1> QED
  BY <1>1, <1>2, <1>3, <1>4, <1>5, <1>6, <1>7 DEF RepeatInv, RepeatType

(* A step of the Tk thread or of the world that leaves the thread and the  *)
(* client alone                                                            *)
LEMMA ClientKept ==
  ASSUME PanelInv, thread' = thread, cl' = cl, raced' = raced,
         clicks' \in 0..MaxClicks, faults' \in 0..MaxFaults, GuiType', PanelIsBuilt',
         RepeatInv', RepeatType', ServerFits(srv'), srv'.sess \in {NoEnd, srv.sess},
         MotionInv'
  PROVE  PanelInv'
<1>1. ThreadType' /\ ClientType' /\ RestType'
  BY DEF PanelInv, TypeOK, ThreadType, ClientType, RestType
<1>2. TypeOK'
  BY <1>1 DEF TypeOK, ThreadType, ClientType, RestType, GuiType, RepeatType, ServerFits
<1>3. ConnectionInv'
  BY DEF PanelInv, ConnectionInv, OneSession, ConnectingIsWanted, ConnectionIsWanted
<1> QED
  BY <1>2, <1>3 DEF PanelInv

(* The panel closes the connection: s is the server before, c the client.  *)
LEMMA ClosedFits ==
  ASSUME PanelInv, NEW c \in ClientState, NEW s, Calmer(srv, s),
         \A x \in s.jog \ s.left : x[1] = s.sess,
         ClosesWith(c, s), c.sock = cl.sock
  PROVE  /\ cl' \in ClientState /\ cl'.sock = NoEnd /\ ~cl'.valid
         /\ cl'.want = c.want /\ cl'.enabled = c.enabled /\ cl'.count = c.count
         /\ ServerFits(srv') /\ srv'.sess = NoEnd
         /\ Unattended(srv')
<1>1. cl' \in ClientState /\ cl'.sock = NoEnd /\ ~cl'.valid
      /\ cl'.want = c.want /\ cl'.enabled = c.enabled /\ cl'.count = c.count
  BY DEF ClosesWith, Closed, ClientState
<1>2. s.sess = srv.sess /\ s.sess \in {NoEnd, cl.sock} /\ ServerFits(s)
  BY DEF Calmer, PanelInv, ConnectionInv, OneSession
<1>3. CASE s.sess = NoEnd
  <2>1. srv' = s
    BY <1>3 DEF ClosesWith
  <2>2. \A x \in s.jog \ s.left : x \in Endpoints \X Axes
    BY <1>2 DEF ServerFits, ServerState
  <2>3. \A x \in Endpoints \X Axes : x[1] # NoEnd
    BY PanelAssumption
  <2>4. Unattended(s)
    BY <1>3, <2>2, <2>3 DEF Unattended
  <2> QED
    BY <1>1, <1>2, <1>3, <2>1, <2>4
<1>4. CASE s.sess # NoEnd
  <2>1. srv' = [Abandoned(s) EXCEPT !.sess = NoEnd]
    BY <1>2, <1>4 DEF ClosesWith
  <2> QED
    BY <1>1, <1>2, <2>1, AbandonedFits
<1> QED
  BY <1>3, <1>4

LEMMA ClosingKeeps ==
  ASSUME PanelInv, thread' = thread, GuiType', PanelIsBuilt', RepeatInv', RepeatType',
         cl' \in ClientState, cl'.sock = NoEnd, ~cl'.valid,
         clicks' \in 0..MaxClicks, faults' \in 0..MaxFaults, raced' \in BOOLEAN,
         \/ cl'.want = cl.want /\ cl'.enabled = cl.enabled /\ raced' = raced
         \/ thread.pc = "connecting" => raced',
         ServerFits(srv'), srv'.sess = NoEnd, Unattended(srv')
  PROVE  PanelInv'
<1>1. TypeOK'
  BY DEF PanelInv, TypeOK, GuiType, RepeatType, ServerFits
<1>2. OneSession'
  BY DEF PanelInv, ConnectionInv, OneSession
<1>3. ConnectingIsWanted'
  BY DEF PanelInv, ConnectionInv, ConnectingIsWanted
<1>4. ConnectionIsWanted'
  BY DEF ConnectionIsWanted
<1>5. MotionInv'
  BY UnattendedFits
<1> QED
  BY <1>1, <1>2, <1>3, <1>4, <1>5 DEF PanelInv, ConnectionInv
-----------------------------------------------------------------------------
(* The steps of the connection thread                                      *)

(* The thread goes on; the window and the servers stay as they are.        *)
LEMMA ThreadKeeps ==
  ASSUME PanelInv, Gui, faults' = faults, ThreadType', ClientType', raced' \in BOOLEAN,
         ConnectionInv', ServerFits(srv'), MotionInv',
         cl'.count = cl.count \/ cl.count = 0
  PROVE  PanelInv'
<1>1. gui' = gui /\ rep' = rep /\ mul' = mul /\ timers' = timers /\ clicks' = clicks
  BY DEF Gui
<1>2. PanelAxes \subseteq PanelAxes'
  <2>1. cl.count \in Nat /\ cl'.count \in Nat
    BY DEF PanelInv, TypeOK, ClientType, ClientState
  <2> SUFFICES ASSUME NEW a \in PanelAxes
               PROVE  a \in Axes /\ a <= cl'.count
    BY DEF PanelAxes
  <2>2. a \in Axes /\ a <= cl.count /\ a \in Nat /\ a # 0
    BY AxisFacts DEF PanelAxes
  <2> QED
    BY <2>1, <2>2
<1>3. TypeOK'
  BY <1>1, <1>2 DEF PanelInv, TypeOK, ThreadType, ClientType, ServerFits
<1>4. PanelIsBuilt'
  <2>1. cl.count \in Nat /\ cl'.count \in Nat /\ gui.sel \in Nat
    BY AxisFacts DEF PanelInv, TypeOK, ClientType, ClientState, GuiState
  <2>2. cl.count = 0 => gui.sel = 1
    BY <2>1, AxisFacts DEF PanelInv, PanelIsBuilt, TypeOK, GuiState
  <2> QED
    BY <1>1, <2>1, <2>2 DEF PanelInv, PanelIsBuilt
<1>5. RepeatInv'
  BY <1>1 DEF PanelInv, RepeatInv, RepeatNeedsData
<1> QED
  BY <1>3, <1>4, <1>5 DEF PanelInv

LEMMA MotionUndisturbed ==
  ASSUME PanelInv, gui' = gui, srv' = srv
  PROVE  ServerFits(srv') /\ MotionInv'
BY DEF PanelInv, TypeOK, ServerFits, MotionInv, MotionIsOurs, MotionIsAttended

LEMMA ThreadStep ==
  ASSUME PanelInv, Thread
  PROVE  PanelInv'
<1>0. /\ thread \in ThreadState /\ cl \in ClientState /\ raced \in BOOLEAN
      /\ ServerFits(srv)
  BY DEF PanelInv, TypeOK, ServerFits
<1>1. CASE BeginsToConnect
  <2>1. /\ thread' = [thread EXCEPT !.pc = "connecting", !.to = cl.want]
        /\ cl' = cl /\ srv' = srv /\ raced' = raced /\ faults' = faults /\ Gui /\ gui' = gui
        /\ thread.pc = "idle" /\ cl.enabled
    BY <1>1 DEF BeginsToConnect, Gui
  <2>2. ThreadType' /\ ClientType' /\ thread'.pc = "connecting" /\ thread'.to = cl.want
        /\ cl.want \in Endpoints
    BY <1>0, <2>1 DEF ThreadType, ClientType, ThreadState, ClientState
  <2>3. ConnectionInv'
    BY <2>1, <2>2 DEF PanelInv, ConnectionInv, OneSession, ConnectingIsWanted,
                      ConnectionIsWanted
  <2> QED
    BY <1>0, <2>1, <2>2, <2>3, MotionUndisturbed, ThreadKeeps
<1>2. CASE Connects
  <2>1. /\ thread.pc = "connecting" /\ thread.to \in srv.up
        /\ thread' = [thread EXCEPT !.pc = "reading", !.to = NoEnd]
        /\ cl' = [cl EXCEPT !.sock = thread.to]
        /\ srv' = [srv EXCEPT !.sess = thread.to, !.own = FALSE]
        /\ raced' = raced /\ faults' = faults /\ Gui /\ gui' = gui
    BY <1>2 DEF Connects, Gui
  <2>2. thread.to \in Endpoints /\ srv.sess = NoEnd
    BY <2>1 DEF PanelInv, ConnectionInv, OneSession
  <2>3. ThreadType' /\ thread'.pc = "reading"
    BY <1>0, <2>1 DEF ThreadType, ThreadState
  <2>4. ClientType' /\ cl'.sock = thread.to /\ cl'.enabled = cl.enabled
        /\ cl'.want = cl.want /\ cl'.count = cl.count
    BY <1>0, <2>1, <2>2 DEF ClientType, ClientState
  <2>5. /\ srv' \in ServerState /\ srv'.sess = thread.to /\ srv'.up = srv.up
        /\ srv'.jog = srv.jog /\ srv'.left = srv.left
    BY <1>0, <2>1, <2>2 DEF ServerFits, ServerState
  <2>6. ServerFits(srv')
    BY <1>0, <2>1, <2>5 DEF ServerFits
  <2>7. Unattended(srv')
    <3>1. \A x \in srv.jog \ srv.left : x \in Endpoints \X Axes /\ x[1] = NoEnd
      BY <1>0, <2>2 DEF ServerFits, ServerState, PanelInv, MotionInv, MotionIsOurs
    <3>2. \A x \in Endpoints \X Axes : x[1] # NoEnd
      BY PanelAssumption
    <3> QED
      BY <2>5, <3>1, <3>2 DEF Unattended
  <2>8. ConnectionInv'
    <3>1. OneSession'
      BY <2>3, <2>4, <2>5 DEF OneSession
    <3>2. ConnectingIsWanted'
      BY <2>3 DEF ConnectingIsWanted
    <3>3. ConnectionIsWanted'
      BY <2>1, <2>4 DEF PanelInv, ConnectionInv, ConnectingIsWanted, ConnectionIsWanted
    <3> QED
      BY <3>1, <3>2, <3>3 DEF ConnectionInv
  <2>9. MotionInv'
    BY <2>7, UnattendedFits
  <2> QED
    BY <1>0, <2>1, <2>3, <2>4, <2>6, <2>8, <2>9, ThreadKeeps
<1>3. CASE ConnectFails \/ ReadEnds
  <2>1. /\ cl' = cl /\ srv' = srv /\ raced' = raced /\ faults' = faults /\ Gui /\ gui' = gui
        /\ ThreadType' /\ thread'.pc = "closing"
    BY <1>0, <1>3 DEF ConnectFails, ReadEnds, Gui, ThreadType, ThreadState
  <2>2. ConnectionInv'
    BY <2>1 DEF PanelInv, ConnectionInv, OneSession, ConnectingIsWanted, ConnectionIsWanted
  <2> QED
    BY <1>0, <2>1, <2>2, MotionUndisturbed, ThreadKeeps DEF ClientType
<1>4. CASE Reads
  <2>1. /\ cl' = cl /\ srv' = srv /\ raced' = raced /\ faults' = faults /\ Gui /\ gui' = gui
        /\ cl.sock # NoEnd
    BY <1>4 DEF Reads, Gui
  <2>2. PICK n \in {0, CountOf[cl.sock]} :
          thread' = [thread EXCEPT !.pc = "storing",
            !.msg = [n |-> n, valid |-> cl.sock \in srv.bus, own |-> srv.own]]
    BY <1>4 DEF Reads
  <2>3. n \in Nat /\ srv.own \in BOOLEAN
    BY <1>0, <2>1, AxisFacts DEF ClientState, ServerFits, ServerState
  <2>4. [n |-> n, valid |-> cl.sock \in srv.bus, own |-> srv.own]
          \in [n : Nat, valid : BOOLEAN, own : BOOLEAN]
    BY <2>3
  <2>5. ThreadType' /\ thread'.pc = "storing"
    BY <1>0, <2>2, <2>4 DEF ThreadType, ThreadState
  <2>6. ConnectionInv'
    BY <2>1, <2>5 DEF PanelInv, ConnectionInv, OneSession, ConnectingIsWanted,
                      ConnectionIsWanted
  <2> QED
    BY <1>0, <2>1, <2>5, <2>6, MotionUndisturbed, ThreadKeeps DEF ClientType
<1>5. CASE Stores
  <2>1. /\ srv' = srv /\ raced' = raced /\ faults' = faults /\ Gui /\ gui' = gui
        /\ thread' = [thread EXCEPT !.msg = NoMessage,
             !.pc = IF cl.count = 0 /\ cl'.count > 0 /\ cl.sock = NoEnd
                    THEN "closing" ELSE "reading"]
    BY <1>5 DEF Stores, Gui
  <2>2. ThreadType' /\ thread'.pc \in {"closing", "reading"}
    <3>1. NoMessage \in [n : Nat, valid : BOOLEAN, own : BOOLEAN]
      BY DEF NoMessage
    <3> QED
      BY <1>0, <2>1, <3>1 DEF ThreadType, ThreadState
  <2>3. PICK pos \in Points \cup {NoPoint} :
          cl' = Stored(cl, [n |-> thread.msg.n, valid |-> thread.msg.valid,
                            own |-> thread.msg.own, pos |-> pos])
    BY <1>5 DEF Stores
  <2> DEFINE m == [n |-> thread.msg.n, valid |-> thread.msg.valid,
                   own |-> thread.msg.own, pos |-> pos]
  <2>4. m.n \in Nat /\ m.valid \in BOOLEAN /\ m.own \in BOOLEAN
        /\ m.pos \in Points \cup {NoPoint}
    BY <1>0 DEF ThreadState
  <2> HIDE DEF m
  <2>5. /\ Merged(cl, m) \in ClientState /\ Merged(cl, m).sock = cl.sock
        /\ Merged(cl, m).want = cl.want /\ Merged(cl, m).enabled = cl.enabled
        /\ Merged(cl, m).count = cl.count
    BY <1>0, <2>4 DEF Merged, ClientState
  <2>6. /\ cl' \in ClientState /\ cl'.sock = cl.sock /\ cl'.want = cl.want
        /\ cl'.enabled = cl.enabled /\ (cl'.count = cl.count \/ cl.count = 0)
    <3>1. cl' = Stored(cl, m)
      BY <2>3 DEF m
    <3>2. CASE cl.count = 0 /\ m.n > 0
      <4>1. cl' = [Merged(cl, m) EXCEPT !.count = m.n]
        BY <3>1, <3>2 DEF Stored
      <4> QED
        BY <2>4, <2>5, <3>2, <4>1 DEF ClientState
    <3>3. CASE ~(cl.count = 0 /\ m.n > 0) /\ (cl.count > 0 /\ m.n > 0 /\ m.n # cl.count)
      <4>1. cl' = [cl EXCEPT !.topo = TRUE, !.valid = FALSE]
        BY <3>1, <3>3 DEF Stored
      <4> QED
        BY <1>0, <4>1 DEF ClientState
    <3>4. CASE ~(cl.count = 0 /\ m.n > 0) /\ ~(cl.count > 0 /\ m.n > 0 /\ m.n # cl.count)
      <4>1. cl' = Merged(cl, m)
        BY <3>1, <3>4 DEF Stored
      <4> QED
        BY <2>5, <4>1
    <3> QED
      BY <3>2, <3>3, <3>4
  <2>7. ConnectionInv'
    BY <2>1, <2>2, <2>6 DEF PanelInv, ConnectionInv, OneSession, ConnectingIsWanted,
                            ConnectionIsWanted
  <2> QED
    BY <1>0, <2>1, <2>2, <2>6, <2>7, MotionUndisturbed, ThreadKeeps DEF ClientType
<1>6. CASE ThreadCloses
  <2>1. /\ cl' = Closed(cl) /\ ServerSide /\ raced' = FALSE
        /\ thread' = [thread EXCEPT !.pc = "idle"] /\ faults' = faults /\ Gui /\ gui' = gui
    BY <1>6 DEF ThreadCloses, Gui
  <2>2. ThreadType' /\ thread'.pc = "idle"
    BY <1>0, <2>1 DEF ThreadType, ThreadState
  <2>3. ClientType' /\ cl'.sock = NoEnd /\ ~cl'.valid /\ cl'.count = cl.count
    BY <1>0, <2>1 DEF Closed, ClientType, ClientState
  <2>4. ServerFits(srv') /\ srv'.sess = NoEnd /\ MotionInv'
    <3>1. CASE srv.sess = NoEnd
      <4>1. srv' = srv
        BY <2>1, <3>1 DEF ServerSide
      <4> QED
        BY <2>1, <3>1, <4>1, MotionUndisturbed
    <3>2. CASE srv.sess # NoEnd
      <4>1. srv' = [Abandoned(srv) EXCEPT !.sess = NoEnd]
        BY <2>1, <3>2 DEF ServerSide
      <4>2. \A x \in srv.jog \ srv.left : x[1] = srv.sess
        BY DEF PanelInv, MotionInv, MotionIsOurs
      <4>3. ServerFits(srv') /\ Unattended(srv') /\ srv'.sess = NoEnd
        BY <1>0, <4>1, <4>2, AbandonedFits
      <4> QED
        BY <4>3, UnattendedFits
    <3> QED
      BY <3>1, <3>2
  <2>5. ConnectionInv'
    BY <2>2, <2>3, <2>4 DEF ConnectionInv, OneSession, ConnectingIsWanted, ConnectionIsWanted
  <2> QED
    BY <2>1, <2>2, <2>3, <2>4, <2>5, ThreadKeeps
<1> QED
  BY <1>1, <1>2, <1>3, <1>4, <1>5, <1>6 DEF Thread
-----------------------------------------------------------------------------
(* The steps of the Tk thread: building, update_gui, callbacks             *)

LEMMA ConnFacts ==
  ASSUME PanelInv, Conn
  PROVE  /\ thread' = thread /\ cl' = cl /\ raced' = raced
         /\ faults' \in 0..MaxFaults
         /\ gui \in GuiState /\ ServerFits(srv) /\ clicks \in 0..MaxClicks
         /\ rep \in Repeat /\ mul \in Repeat /\ timers \in SUBSET Callback
         /\ PanelAxes' = PanelAxes
BY DEF PanelInv, TypeOK, Conn, ServerFits, PanelAxes

LEMMA BuildsStep ==
  ASSUME PanelInv, Builds
  PROVE  PanelInv'
<1>1. /\ gui.tab = "boot" /\ cl.count > 0 /\ gui' = [gui EXCEPT !.tab = "motion"]
      /\ rep' = rep /\ mul' = mul /\ timers' = timers /\ srv' = srv /\ clicks' = clicks /\ Conn
  BY DEF Builds
<1>2. GuiType' /\ gui'.tab = "motion" /\ gui'.valid = gui.valid /\ gui'.sel = gui.sel
  BY <1>1, ConnFacts DEF GuiType, GuiState
<1>3. PanelIsBuilt'
  BY <1>1, <1>2, ConnFacts DEF PanelInv, PanelIsBuilt
<1>4. RepeatInv' /\ RepeatType'
  BY <1>1, <1>2, ConnFacts, RepeatsKept DEF PanelInv
<1>5. Unattended(srv')
  BY <1>1 DEF PanelInv, MotionInv, MotionIsAttended, Unattended
<1> QED
  BY <1>1, <1>2, <1>3, <1>4, <1>5, ConnFacts, UnattendedFits, ClientKept

LEMMA SnapshotStep ==
  ASSUME PanelInv, Snapshot
  PROVE  PanelInv'
<1>1. /\ gui' = [gui EXCEPT !.pc = "snap", !.snap = [valid |-> cl.valid, pos |-> cl.pos]]
      /\ rep' = rep /\ mul' = mul /\ timers' = timers /\ srv' = srv /\ clicks' = clicks /\ Conn
  BY DEF Snapshot
<1>2. [valid |-> cl.valid, pos |-> cl.pos] \in [valid : BOOLEAN, pos : Points \cup {NoPoint}]
  BY DEF PanelInv, TypeOK, ClientState
<1>3. /\ GuiType' /\ gui'.tab = gui.tab /\ gui'.valid = gui.valid /\ gui'.sel = gui.sel
      /\ gui'.jog = gui.jog
  BY <1>1, <1>2, ConnFacts DEF GuiType, GuiState
<1>4. PanelIsBuilt'
  BY <1>1, <1>3, ConnFacts DEF PanelInv, PanelIsBuilt
<1>5. RepeatInv' /\ RepeatType'
  BY <1>1, <1>3, ConnFacts, RepeatsKept DEF PanelInv
<1>6. MotionInv'
  BY <1>1, <1>3 DEF PanelInv, MotionInv, MotionIsOurs, MotionIsAttended
<1> QED
  BY <1>1, <1>3, <1>4, <1>5, <1>6, ConnFacts, ClientKept

LEMMA UpdatesInvalidStep ==
  ASSUME PanelInv, UpdatesInvalid
  PROVE  PanelInv'
<1>1. /\ gui' = [gui EXCEPT !.pc = "idle", !.snap = NoSnapshot, !.valid = FALSE,
                            !.jog = IF GoesInvalid THEN NoAxis ELSE @]
      /\ \E pv \in SeenPv : srv' = IF GoesInvalid THEN StopTabMotion(srv, pv) ELSE srv
      /\ rep' = HealthRepeat(rep, Stopped(rep))
      /\ mul' = HealthRepeat(mul, StoppedMulti(mul))
      /\ timers' = timers /\ clicks' = clicks /\ Conn /\ ~SeenValid
  BY DEF UpdatesInvalid
<1>2. NoSnapshot \in [valid : BOOLEAN, pos : Points \cup {NoPoint}]
  BY DEF NoSnapshot
<1>3. /\ GuiType' /\ gui'.tab = gui.tab /\ gui'.valid = FALSE /\ gui'.sel = gui.sel
      /\ (~GoesInvalid => gui'.jog = gui.jog)
  BY <1>1, <1>2, ConnFacts DEF GuiType, GuiState
<1>4. PanelIsBuilt'
  BY <1>1, <1>3, ConnFacts DEF PanelInv, PanelIsBuilt
<1>5. CASE GoesInvalid
  <2>1. /\ rep' = Stopped(rep) /\ mul' = StoppedMulti(mul)
        /\ \E pv \in SeenPv : srv' = StopTabMotion(srv, pv)
    BY <1>1, <1>5 DEF HealthRepeat
  <2>2. Calmer(srv, srv') /\ Unattended(srv')
    BY <2>1, StopTabCalms DEF PanelInv, ConnectionInv
  <2>3. {} \in SUBSET Axes
    OBVIOUS
  <2>0. rep \in Repeat /\ mul \in Repeat
    BY <1>1, ConnFacts
  <2>4. rep' \in Repeat /\ rep'.axes = rep.axes /\ rep'.on = FALSE
    <3>1. Stopped(rep) \in Repeat /\ Stopped(rep).axes = rep.axes /\ Stopped(rep).on = FALSE
      BY <2>0, <2>3, RepeatTypes
    <3> QED
      BY <2>1, <3>1
  <2>5. mul' \in Repeat /\ mul'.axes = {} /\ mul'.on = FALSE
    <3>1. /\ StoppedMulti(mul) \in Repeat /\ StoppedMulti(mul).axes = {}
          /\ StoppedMulti(mul).on = FALSE
      BY <2>0, <2>3, RepeatTypes
    <3> QED
      BY <2>1, <3>1
  <2>6. CallbacksFit("single", rep', timers') /\ CallbacksFit("multi", mul', timers')
    BY <1>1, <2>1, <2>3, ConnFacts, NewGeneration DEF PanelInv, RepeatInv
  <2>7. RepeatInv' /\ RepeatType'
    BY <1>1, <2>4, <2>5, <2>6, ConnFacts
      DEF RepeatInv, RepeatType, RepeatNeedsData, PanelInv, TypeOK
  <2>8. ServerFits(srv') /\ srv'.sess = srv.sess
    BY <2>2 DEF Calmer
  <2> QED
    BY <1>1, <1>3, <1>4, <2>2, <2>7, <2>8, ConnFacts, UnattendedFits, ClientKept
<1>6. CASE ~GoesInvalid
  <2>1. rep' = rep /\ mul' = mul /\ srv' = srv
    BY <1>1, <1>6 DEF HealthRepeat
  <2>2. gui.valid = FALSE
    BY <1>1, <1>6, ConnFacts DEF GoesInvalid, GuiState
  <2>3. RepeatInv' /\ RepeatType'
    BY <1>1, <1>3, <2>1, <2>2, ConnFacts, RepeatsKept DEF PanelInv
  <2>4. MotionInv'
    BY <1>3, <1>6, <2>1 DEF PanelInv, MotionInv, MotionIsOurs, MotionIsAttended
  <2> QED
    BY <1>1, <1>3, <1>4, <2>1, <2>3, <2>4, ConnFacts, ClientKept
<1> QED
  BY <1>5, <1>6

LEMMA UpdatesValidStep ==
  ASSUME PanelInv, UpdatesValid
  PROVE  PanelInv'
<1> DEFINE pos == gui.snap.pos
           U == Updated("single", rep, pos)
           V == Updated("multi", mul, pos)
           M == NewTimers("single", rep, pos)
           N == NewTimers("multi", mul, pos)
<1>1. /\ gui' = [gui EXCEPT !.pc = "idle", !.snap = NoSnapshot, !.valid = TRUE]
      /\ rep' = U /\ mul' = V /\ timers' = timers \cup M \cup N
      /\ srv' = srv /\ clicks' = clicks /\ Conn
  BY DEF UpdatesValid
<1>2. NoSnapshot \in [valid : BOOLEAN, pos : Points \cup {NoPoint}]
  BY DEF NoSnapshot
<1>3. /\ GuiType' /\ gui'.tab = gui.tab /\ gui'.valid = TRUE /\ gui'.sel = gui.sel
      /\ gui'.jog = gui.jog /\ pos \in Points \cup {NoPoint}
  BY <1>1, <1>2, ConnFacts DEF GuiType, GuiState
<1>4. PanelIsBuilt'
  BY <1>1, <1>3, ConnFacts DEF PanelInv, PanelIsBuilt
<1>5. /\ CallbacksFit("single", rep, timers) /\ CallbacksFit("multi", mul, timers)
      /\ rep \in Repeat /\ mul \in Repeat /\ timers \in SUBSET Callback
  BY <1>1, ConnFacts DEF PanelInv, RepeatInv
<1> HIDE DEF pos
<1>6. /\ U \in Repeat /\ U.axes = rep.axes /\ U.on = rep.on
      /\ M \in SUBSET Callback /\ (\A t \in M : t.kind = "single")
      /\ CallbacksFit("single", U, timers \cup M)
  BY <1>3, <1>5, UpdatedFits
<1>7. /\ V \in Repeat /\ V.axes = mul.axes /\ V.on = mul.on
      /\ N \in SUBSET Callback /\ (\A t \in N : t.kind = "multi")
      /\ CallbacksFit("multi", V, timers \cup N)
  BY <1>3, <1>5, UpdatedFits
<1> HIDE DEF U, V, M, N
<1>8. CallbacksFit("single", U, (timers \cup M) \cup N)
  BY <1>5, <1>6, <1>7, OtherCallbacks
<1>9. CallbacksFit("multi", V, (timers \cup N) \cup M)
  BY <1>5, <1>6, <1>7, OtherCallbacks
<1>10. (timers \cup N) \cup M = timers' /\ (timers \cup M) \cup N = timers'
  BY <1>1
<1>11. RepeatInv'
  BY <1>1, <1>3, <1>6, <1>7, <1>8, <1>9, <1>10 DEF PanelInv, RepeatInv, RepeatNeedsData
<1>12. RepeatType'
  BY <1>1, <1>5, <1>6, <1>7, ConnFacts DEF RepeatType, PanelInv, TypeOK
<1>13. MotionInv'
  BY <1>1, <1>3 DEF PanelInv, MotionInv, MotionIsOurs, MotionIsAttended
<1> QED
  BY <1>1, <1>3, <1>4, <1>11, <1>12, <1>13, ConnFacts, ClientKept

LEMMA FiresStep ==
  ASSUME PanelInv, NEW t \in timers, Fires(t)
  PROVE  PanelInv'
<1> DEFINE f(r) == [r EXCEPT !.last = t.pt, !.waiting = FALSE]
<1>1. /\ gui' = gui /\ timers' = timers \ {t} /\ srv' = srv /\ clicks' = clicks /\ Conn
  BY DEF Fires
<1>2. /\ rep' = (IF t.kind = "single" /\ Live(t, rep) THEN f(rep) ELSE rep)
      /\ mul' = (IF t.kind = "multi" /\ Live(t, mul) THEN f(mul) ELSE mul)
  BY DEF Fires
<1>3. /\ CallbacksFit("single", rep, timers) /\ CallbacksFit("multi", mul, timers)
      /\ rep \in Repeat /\ mul \in Repeat /\ timers \in SUBSET Callback
  BY <1>1, ConnFacts DEF PanelInv, RepeatInv
<1>4. CallbacksFit("single", rep', timers') /\ rep' \in Repeat
  <2>1. CASE t.kind = "single" /\ Live(t, rep)
    <3>1. f(rep) \in Repeat /\ CallbacksFit("single", f(rep), timers \ {t})
      BY <1>3, <2>1, FiredFits
    <3> QED
      BY <1>1, <1>2, <2>1, <3>1
  <2>2. CASE ~(t.kind = "single" /\ Live(t, rep))
    <3>1. CallbacksFit("single", rep, timers \ {t})
      BY <1>3, <2>2, FiredFits
    <3> QED
      BY <1>1, <1>2, <1>3, <2>2, <3>1
  <2> QED
    BY <2>1, <2>2
<1>5. CallbacksFit("multi", mul', timers') /\ mul' \in Repeat
  <2>1. CASE t.kind = "multi" /\ Live(t, mul)
    <3>1. f(mul) \in Repeat /\ CallbacksFit("multi", f(mul), timers \ {t})
      BY <1>3, <2>1, FiredFits
    <3> QED
      BY <1>1, <1>2, <2>1, <3>1
  <2>2. CASE ~(t.kind = "multi" /\ Live(t, mul))
    <3>1. CallbacksFit("multi", mul, timers \ {t})
      BY <1>3, <2>2, FiredFits
    <3> QED
      BY <1>1, <1>2, <1>3, <2>2, <3>1
  <2> QED
    BY <2>1, <2>2
<1>6. rep'.axes = rep.axes /\ rep'.on = rep.on /\ mul'.axes = mul.axes /\ mul'.on = mul.on
  BY <1>2, <1>3 DEF Repeat
<1>7. RepeatInv'
  BY <1>1, <1>4, <1>5, <1>6 DEF PanelInv, RepeatInv, RepeatNeedsData
<1>8. RepeatType'
  BY <1>1, <1>3, <1>4, <1>5, <1>6, ConnFacts DEF RepeatType, PanelInv, TypeOK
<1>9. GuiType' /\ PanelIsBuilt'
  BY <1>1, ConnFacts DEF GuiType, PanelInv, PanelIsBuilt
<1> QED
  BY <1>1, <1>7, <1>8, <1>9, ConnFacts, MotionUndisturbed, ClientKept
-----------------------------------------------------------------------------
(* The steps of the user                                                   *)

LEMMA ClickFacts ==
  ASSUME PanelInv, Clicks
  PROVE  clicks' \in 0..MaxClicks /\ gui.tab # "closed"
BY PanelAssumption DEF Clicks, PanelInv, TypeOK

(* A click that leaves the connection alone, stops repeats or not, and     *)
(* under which there is no more motion than before                         *)
LEMMA QuietClick ==
  ASSUME PanelInv, Conn, clicks' \in 0..MaxClicks, gui' = gui, timers' = timers,
         rep' \in {rep, Stopped(rep)}, mul' \in {mul, StoppedMulti(mul)},
         Calmer(srv, srv')
  PROVE  PanelInv'
<1>1. RepeatInv' /\ RepeatType'
  BY ConnFacts, RepeatsKept DEF PanelInv
<1>2. MotionInv' /\ ServerFits(srv') /\ srv'.sess = srv.sess
  BY CalmerFits DEF PanelInv
<1>3. GuiType' /\ PanelIsBuilt'
  BY ConnFacts DEF GuiType, PanelInv, PanelIsBuilt
<1> QED
  BY <1>1, <1>2, <1>3, ConnFacts, ClientKept

(* A click that stops the motion of the tab and may show another one       *)
LEMMA TabClick ==
  ASSUME PanelInv, Conn, clicks' \in 0..MaxClicks, GuiType', PanelIsBuilt',
         gui'.valid = gui.valid, timers' = timers,
         rep' \in {rep, Stopped(rep)}, mul' \in {mul, StoppedMulti(mul)},
         ServerFits(srv'), srv'.sess = srv.sess, Unattended(srv')
  PROVE  PanelInv'
<1>1. RepeatInv' /\ RepeatType'
  BY ConnFacts, RepeatsKept DEF PanelInv
<1> QED
  BY <1>1, UnattendedFits, ConnFacts, ClientKept

LEMMA SelectedAxis ==
  ASSUME PanelInv, gui.tab \in {"motion", "other", "multi"}
  PROVE  gui.sel \in PanelAxes /\ gui.sel \in Axes
<1>1. cl.count > 0 /\ cl.count \in Nat /\ gui.sel \in Axes
  BY DEF PanelInv, PanelIsBuilt, TypeOK, ClientState, GuiState
<1>2. gui.sel <= cl.count
  BY <1>1 DEF PanelInv, PanelIsBuilt
<1> QED
  BY <1>1, <1>2 DEF PanelAxes

LEMMA SameCalm ==
  ASSUME PanelInv
  PROVE  Calmer(srv, srv)
BY DEF PanelInv, TypeOK, Calmer, ServerFits

LEMMA StopTab ==
  ASSUME PanelInv, NEW pv
  PROVE  /\ Calmer(srv, StopTabMotion(srv, pv)) /\ Unattended(StopTabMotion(srv, pv))
         /\ ServerFits(StopTabMotion(srv, pv)) /\ StopTabMotion(srv, pv).sess = srv.sess
<1>1. Calmer(srv, StopTabMotion(srv, pv)) /\ Unattended(StopTabMotion(srv, pv))
  BY StopTabCalms DEF PanelInv, ConnectionInv
<1> QED
  BY <1>1 DEF Calmer

LEMMA JogStopStep ==
  ASSUME PanelInv, JogStop
  PROVE  PanelInv'
<1>1. /\ gui' = [gui EXCEPT !.jog = NoAxis] /\ srv' = StoppedJog(srv) /\ gui.jog # NoAxis
      /\ rep' = rep /\ mul' = mul /\ timers' = timers /\ clicks' = clicks /\ Conn
  BY DEF JogStop
<1>2. /\ GuiType' /\ gui'.tab = gui.tab /\ gui'.valid = gui.valid /\ gui'.sel = gui.sel
  BY <1>1, ConnFacts DEF GuiType, GuiState
<1>3. Unattended(srv') /\ ServerFits(srv') /\ srv'.sess = srv.sess
  BY <1>1, StoppedJogCalms DEF PanelInv, ConnectionInv, Calmer
<1>4. PanelIsBuilt'
  BY <1>1, <1>2, ConnFacts DEF PanelInv, PanelIsBuilt
<1> QED
  BY <1>1, <1>2, <1>3, <1>4, ConnFacts, TabClick

(* A command that starts motion of the selected axis                       *)
LEMMA JogStartStep ==
  ASSUME PanelInv, JogStart
  PROVE  PanelInv'
<1>1. /\ gui' = [gui EXCEPT !.jog = gui.sel] /\ srv' = Sent(srv, "jog_start", {gui.sel})
      /\ gui.jog = NoAxis /\ gui.tab = "motion" /\ Clicks
      /\ rep' = rep /\ mul' = mul /\ timers' = timers /\ Conn
  BY DEF JogStart, Free
<1>2. /\ GuiType' /\ gui'.tab = gui.tab /\ gui'.valid = gui.valid /\ gui'.sel = gui.sel
      /\ gui'.jog = gui.sel
  BY <1>1, ConnFacts DEF GuiType, GuiState
<1>3. RepeatInv' /\ RepeatType'
  BY <1>1, <1>2, ConnFacts, RepeatsKept DEF PanelInv
<1>4. PanelIsBuilt'
  BY <1>1, <1>2, ConnFacts DEF PanelInv, PanelIsBuilt
<1>5. srv.jog \subseteq srv.left
  <2> SUFFICES ASSUME NEW x \in srv.jog, x \notin srv.left
               PROVE  FALSE
    OBVIOUS
  <2>1. x \in Endpoints \X Axes
    BY DEF PanelInv, TypeOK, ServerState
  <2>2. x[2] = NoAxis
    BY <1>1 DEF PanelInv, MotionInv, MotionIsAttended
  <2> QED
    BY <2>1, <2>2, AxisFacts DEF NoAxis
<1>6. ServerFits(srv') /\ srv'.sess = srv.sess /\ MotionInv'
  <2> DEFINE D == At(srv, {gui.sel})
  <2>0. srv \in ServerState /\ gui.sel \in Axes
    BY <1>1, ConnFacts DEF ServerFits, GuiState
  <2>1. \/ srv' = srv
        \/ srv.sess # NoEnd /\ srv' = [srv EXCEPT !.jog = @ \cup D, !.left = @ \ D]
    BY <1>1 DEF Sent, Take
  <2>2. CASE srv.sess # NoEnd /\ srv' = [srv EXCEPT !.jog = @ \cup D, !.left = @ \ D]
    <3>1. srv.sess \in Endpoints
      BY <2>0, <2>2 DEF ServerState
    <3>2. D \subseteq Endpoints \X Axes /\ \A x \in D : x[1] = srv.sess /\ x[2] = gui.sel
      BY <2>0, <3>1, AtFacts
    <3> HIDE DEF D
    <3>3. /\ srv.jog \cup D \in SUBSET (Endpoints \X Axes)
          /\ srv.left \ D \in SUBSET (Endpoints \X Axes)
      BY <2>0, <3>2 DEF ServerState
    <3>4. /\ srv' \in ServerState /\ srv'.up = srv.up /\ srv'.sess = srv.sess
          /\ srv'.jog = srv.jog \cup D /\ srv'.left = srv.left \ D
      BY <2>0, <2>2, <3>3 DEF ServerState
    <3>5. ServerFits(srv')
      BY <1>1, <3>4, ConnFacts DEF ServerFits
    <3>6. \A x \in srv'.jog \ srv'.left : x[1] = srv'.sess /\ x[2] = gui.sel
      BY <1>5, <3>2, <3>4
    <3>7. MotionInv'
      BY <1>1, <1>2, <3>6 DEF MotionInv, MotionIsOurs, MotionIsAttended
    <3> QED
      BY <3>4, <3>5, <3>7
  <2>3. CASE srv' = srv
    <3>1. MotionIsOurs'
      BY <2>3 DEF PanelInv, MotionInv, MotionIsOurs
    <3>2. MotionIsAttended'
      BY <1>2, <1>5, <2>3 DEF PanelInv, MotionInv, MotionIsAttended
    <3> QED
      BY <1>1, <2>3, <3>1, <3>2, ConnFacts DEF MotionInv
  <2> QED
    BY <2>1, <2>2, <2>3
<1> QED
  BY <1>1, <1>2, <1>3, <1>4, <1>6, ConnFacts, ClickFacts, ClientKept

LEMMA CommandSteps ==
  ASSUME PanelInv,
         SendCommand \/ \E cmd \in {"fault_reset", "enable", "disable"} : AxisSwitch(cmd)
  PROVE  PanelInv'
<1>1. PICK cmd \in Quiet :
        /\ gui' = gui /\ Clicks /\ rep' = rep /\ mul' = mul /\ timers' = timers /\ Conn
        /\ srv' = Sent(srv, cmd, {gui.sel})
  BY DEF SendCommand, AxisSwitch, Pressed, Free, Quiet
<1>2. gui.sel \in Axes /\ ServerFits(srv)
  BY <1>1, ConnFacts DEF GuiState
<1>3. Calmer(srv, srv')
  BY <1>1, <1>2, SentCalms
<1> QED
  BY <1>1, <1>3, ClickFacts, QuietClick

(* Clicks that stop repeats, or axes, and start nothing                    *)
LEMMA QuietSteps ==
  ASSUME PanelInv,
         \/ \E cmd \in {"stop", "home"} : AxisStop(cmd)
         \/ StartRepeatRefused \/ StopRepeat
         \/ \E A \in Selections : MultiRun(A) \/ MultiFaultReset(A)
         \/ \E cmd \in {"stop", "home"}, A \in SUBSET PanelAxes : MultiStop(cmd, A)
         \/ StartMultiRepeatRefused \/ StopMultiRepeat
  PROVE  PanelInv'
<1>0. ServerFits(srv) /\ Calmer(srv, srv) /\ PanelAxes \subseteq Axes /\ gui.sel \in Axes
      /\ mul.axes \subseteq Axes
  BY SameCalm DEF PanelInv, TypeOK, ServerFits, PanelAxes, GuiState, Repeat
<1>1. ASSUME NEW cmd \in {"stop", "home"}, AxisStop(cmd)
      PROVE  PanelInv'
  <2>1. Calmer(srv, Sent(srv, cmd, {gui.sel}))
    BY <1>0, SentCalms DEF Quiet
  <2>2. Clicks
    BY <1>1 DEF AxisStop, Pressed, Free
  <2> QED
    BY <1>1, <2>1, <2>2, ClickFacts, QuietClick DEF AxisStop
<1>2. CASE StartRepeatRefused
  <2>1. Clicks
    BY <1>2 DEF StartRepeatRefused, Pressed, Free
  <2> QED
    BY <1>0, <1>2, <2>1, ClickFacts, QuietClick DEF StartRepeatRefused
<1>3. CASE StopRepeat
  <2>1. Clicks
    BY <1>3 DEF StopRepeat, Pressed, Free
  <2> QED
    BY <1>0, <1>3, <2>1, ClickFacts, QuietClick DEF StopRepeat
<1>4. ASSUME NEW A \in Selections, MultiRun(A)
      PROVE  PanelInv'
  <2>1. Clicks
    BY <1>4 DEF MultiRun, Pressed, Free
  <2> QED
    BY <1>0, <1>4, <2>1, ClickFacts, QuietClick DEF MultiRun
<1>5. ASSUME NEW cmd \in {"stop", "home"}, NEW A \in SUBSET PanelAxes, MultiStop(cmd, A)
      PROVE  PanelInv'
  <2>1. Calmer(srv, Sent(srv, cmd, A))
    BY <1>0, SentCalms DEF Quiet
  <2>2. Clicks
    BY <1>5 DEF MultiStop, Pressed, Free
  <2> QED
    BY <1>5, <2>1, <2>2, ClickFacts, QuietClick DEF MultiStop, StopsTab
<1>6. ASSUME NEW A \in Selections, MultiFaultReset(A)
      PROVE  PanelInv'
  <2>1. Clicks
    BY <1>6 DEF MultiFaultReset, Pressed, Free
  <2>2. A \in SUBSET Axes
    BY <1>0 DEF Selections
  <2>3. Calmer(srv, Sent(srv, "fault_reset", A))
    BY <1>0, <2>2, SentCalms DEF Quiet
  <2> QED
    BY <1>6, <2>1, <2>3, ClickFacts, QuietClick DEF MultiFaultReset
<1>7. CASE StartMultiRepeatRefused
  <2>1. Clicks
    BY <1>7 DEF StartMultiRepeatRefused, Pressed, Free
  <2> QED
    BY <1>0, <1>7, <2>1, ClickFacts, QuietClick DEF StartMultiRepeatRefused
<1>8. CASE StopMultiRepeat
  <2>1. Clicks
    BY <1>8 DEF StopMultiRepeat, Pressed, Free
  <2>2. Calmer(srv, Sent(srv, "stop", mul.axes))
    BY <1>0, SentCalms DEF Quiet
  <2>3. Calmer(srv, srv')
    BY <1>0, <1>8, <2>2 DEF StopMultiRepeat
  <2> QED
    BY <1>8, <2>1, <2>3, ClickFacts, QuietClick DEF StopMultiRepeat
<1> QED
  BY <1>1, <1>2, <1>3, <1>4, <1>5, <1>6, <1>7, <1>8

(* Repeats start                                                           *)
LEMMA StartSteps ==
  ASSUME PanelInv, StartRepeat \/ \E A \in Selections : StartMultiRepeat(A)
  PROVE  PanelInv'
<1>0. /\ Conn /\ Clicks /\ gui' = gui /\ timers' = timers /\ srv' = srv /\ gui.valid
      /\ gui.tab \in {"motion", "multi"}
  BY DEF StartRepeat, StartMultiRepeat, Pressed, Free
<1>1. /\ rep \in Repeat /\ mul \in Repeat /\ timers \in SUBSET Callback
      /\ CallbacksFit("single", rep, timers) /\ CallbacksFit("multi", mul, timers)
      /\ rep.axes \subseteq PanelAxes /\ mul.axes \subseteq PanelAxes
  BY DEF PanelInv, TypeOK, RepeatInv
<1>2. PanelAxes' = PanelAxes /\ PanelAxes \subseteq Axes /\ {} \in SUBSET Axes
  BY <1>0, ConnFacts DEF PanelAxes
<1>3. ASSUME StartRepeat
      PROVE  RepeatInv' /\ RepeatType'
  <2>1. mul' = StoppedMulti(mul) /\ rep' = Started(rep, {gui.sel})
    BY <1>3 DEF StartRepeat
  <2>2. {gui.sel} \in SUBSET Axes /\ {gui.sel} \subseteq PanelAxes
    BY <1>0, SelectedAxis
  <2>3. rep' \in Repeat /\ rep'.axes = {gui.sel}
    <3>1. Started(rep, {gui.sel}) \in Repeat /\ Started(rep, {gui.sel}).axes = {gui.sel}
      BY <1>1, <2>2, RepeatTypes
    <3> QED
      BY <2>1, <3>1
  <2>4. mul' \in Repeat /\ mul'.axes = {} /\ mul'.on = FALSE
    <3>1. /\ StoppedMulti(mul) \in Repeat /\ StoppedMulti(mul).axes = {}
          /\ StoppedMulti(mul).on = FALSE
      BY <1>1, <1>2, RepeatTypes
    <3> QED
      BY <2>1, <3>1
  <2>5. CallbacksFit("single", rep', timers') /\ CallbacksFit("multi", mul', timers')
    BY <1>0, <1>1, <1>2, <2>1, <2>2, NewGeneration
  <2>6. RepeatInv' /\ RepeatType'
    BY <1>0, <1>1, <1>2, <2>2, <2>3, <2>4, <2>5 DEF RepeatInv, RepeatType, RepeatNeedsData
  <2> QED
    BY <2>6
<1>4. ASSUME NEW A \in Selections, StartMultiRepeat(A)
      PROVE  RepeatInv' /\ RepeatType'
  <2>1. rep' = Stopped(rep) /\ mul' = Started(mul, A)
    BY <1>4 DEF StartMultiRepeat
  <2>2. A \in SUBSET Axes /\ A \subseteq PanelAxes
    BY <1>2 DEF Selections
  <2>3. mul' \in Repeat /\ mul'.axes = A
    <3>1. Started(mul, A) \in Repeat /\ Started(mul, A).axes = A
      BY <1>1, <2>2, RepeatTypes
    <3> QED
      BY <2>1, <3>1
  <2>4. rep' \in Repeat /\ rep'.axes = rep.axes /\ rep'.on = FALSE
    <3>1. Stopped(rep) \in Repeat /\ Stopped(rep).axes = rep.axes /\ Stopped(rep).on = FALSE
      BY <1>1, <1>2, RepeatTypes
    <3> QED
      BY <2>1, <3>1
  <2>5. CallbacksFit("single", rep', timers') /\ CallbacksFit("multi", mul', timers')
    BY <1>0, <1>1, <1>2, <2>1, <2>2, NewGeneration
  <2> QED
    BY <1>0, <1>1, <1>2, <2>2, <2>3, <2>4, <2>5 DEF RepeatInv, RepeatType, RepeatNeedsData
<1>5. RepeatInv' /\ RepeatType'
  BY <1>3, <1>4
<1>6. GuiType' /\ PanelIsBuilt'
  BY <1>0, ConnFacts DEF GuiType, PanelInv, PanelIsBuilt
<1> QED
  BY <1>0, <1>5, <1>6, MotionUndisturbed, ConnFacts, ClickFacts, ClientKept

(* Another tab or axis is shown.                                           *)
LEMMA TabSteps ==
  ASSUME PanelInv, (\E a \in PanelAxes : SelectAxis(a)) \/ SelectMulti \/ SelectControlTab
  PROVE  PanelInv'
<1>1. ASSUME NEW a \in PanelAxes, SelectAxis(a)
      PROVE  PanelInv'
  <2>1. /\ Clicks /\ gui.tab # "boot" /\ gui' = [gui EXCEPT !.tab = "motion", !.sel = a, !.jog = NoAxis]
        /\ rep' = Stopped(rep) /\ mul' = StoppedMulti(mul)
        /\ \E pv \in SeenPv : srv' = StopTabMotion(srv, pv)
        /\ timers' = timers /\ Conn
    BY <1>1 DEF SelectAxis, StopsTab
  <2>2. GuiType' /\ gui'.valid = gui.valid /\ gui'.tab = "motion" /\ gui'.sel = a
    BY <2>1, ConnFacts DEF GuiType, GuiState, PanelAxes
  <2>3. PanelIsBuilt'
    BY <2>1, <2>2, ConnFacts, ClickFacts DEF PanelInv, PanelIsBuilt, PanelAxes
  <2> QED
    BY <2>1, <2>2, <2>3, ClickFacts, StopTab, TabClick
<1>2. CASE SelectMulti
  <2>1. /\ Clicks /\ gui.tab \in {"motion", "other"}
        /\ gui' = [gui EXCEPT !.tab = "multi", !.jog = NoAxis]
        /\ rep' = Stopped(rep) /\ mul' = StoppedMulti(mul)
        /\ \E pv \in SeenPv : srv' = StopTabMotion(srv, pv)
        /\ timers' = timers /\ Conn
    BY <1>2 DEF SelectMulti, StopsTab
  <2>2. GuiType' /\ gui'.valid = gui.valid /\ gui'.tab = "multi" /\ gui'.sel = gui.sel
    BY <2>1, ConnFacts DEF GuiType, GuiState
  <2>3. PanelIsBuilt'
    BY <2>1, <2>2, ConnFacts DEF PanelInv, PanelIsBuilt
  <2> QED
    BY <2>1, <2>2, <2>3, ClickFacts, StopTab, TabClick
<1>3. CASE SelectControlTab
  <2>1. /\ Clicks /\ gui.tab \in {"motion", "other"}
        /\ gui' = [gui EXCEPT !.tab = IF @ = "motion" THEN "other" ELSE "motion",
                              !.jog = IF gui.tab = "motion" THEN NoAxis ELSE @]
        /\ rep' = (IF gui.tab = "motion" THEN Stopped(rep) ELSE rep)
        /\ \E pv \in SeenPv :
             srv' = (IF gui.tab = "motion" THEN StopTabMotion(srv, pv) ELSE srv)
        /\ mul' = mul /\ timers' = timers /\ Conn
    BY <1>3 DEF SelectControlTab
  <2>2. GuiType' /\ gui'.valid = gui.valid /\ gui'.tab \in {"motion", "other"}
        /\ gui'.sel = gui.sel
    BY <2>1, ConnFacts DEF GuiType, GuiState
  <2>3. PanelIsBuilt'
    BY <2>1, <2>2, ConnFacts DEF PanelInv, PanelIsBuilt
  <2>4. gui.tab # "motion" => Unattended(srv)
    BY DEF PanelInv, MotionInv, MotionIsAttended, Unattended
  <2>5. ServerFits(srv') /\ srv'.sess = srv.sess /\ Unattended(srv')
    BY <2>1, <2>4, StopTab, ConnFacts
  <2>6. rep' \in {rep, Stopped(rep)}
    BY <2>1
  <2> QED
    BY <2>1, <2>2, <2>3, <2>5, <2>6, ClickFacts, TabClick
<1> QED
  BY <1>1, <1>2, <1>3

LEMMA RecoverStep ==
  ASSUME PanelInv,
         NEW cmd \in {"reconnect", "axis_restart", "server_restart", "server_fault_reset"},
         Recover(cmd)
  PROVE  PanelInv'
<1>1. PICK pv \in SeenPv :
        \/ srv' = Sent(StopTabMotion(srv, pv), cmd,
                        IF cmd = "axis_restart" THEN {gui.sel} ELSE {})
        \/ srv' = StopTabMotion(srv, pv)
  BY DEF Recover
<1> DEFINE s == StopTabMotion(srv, pv)
           A == IF cmd = "axis_restart" THEN {gui.sel} ELSE {}
<1>2. /\ Clicks /\ gui.tab # "boot" /\ gui' = [gui EXCEPT !.jog = NoAxis]
      /\ rep' = Stopped(rep) /\ mul' = StoppedMulti(mul) /\ timers' = timers /\ Conn
  BY DEF Recover, StopsTab, Free
<1>3. GuiType' /\ gui'.valid = gui.valid /\ gui'.tab = gui.tab /\ gui'.sel = gui.sel
  BY <1>2, ConnFacts DEF GuiType, GuiState
<1>4. PanelIsBuilt'
  BY <1>2, <1>3, ConnFacts DEF PanelInv, PanelIsBuilt
<1>5. ServerFits(s) /\ s.sess = srv.sess /\ Unattended(s)
  BY StopTab
<1>6. A \in SUBSET Axes /\ cmd \in Quiet
  BY <1>2, ConnFacts DEF GuiState, Quiet
<1> HIDE DEF s, A
<1>7. Calmer(s, srv')
  <2>1. srv' = Sent(s, cmd, A) \/ srv' = s
    BY <1>1 DEF s, A
  <2>2. Calmer(s, s)
    BY <1>5 DEF Calmer
  <2> QED
    BY <1>5, <1>6, <2>1, <2>2, SentCalms
<1>8. ServerFits(srv') /\ srv'.sess = srv.sess /\ Unattended(srv')
  BY <1>5, <1>7 DEF Calmer, Unattended
<1> QED
  BY <1>2, <1>3, <1>4, <1>8, ClickFacts, TabClick

LEMMA ToggleAuthorityStep ==
  ASSUME PanelInv, ToggleAuthority
  PROVE  PanelInv'
<1>1. /\ Clicks /\ gui' = gui /\ rep' = rep /\ mul' = mul /\ timers' = timers /\ Conn
      /\ srv' = Sent(srv, IF cl.own THEN "release" ELSE "request", {})
  BY DEF ToggleAuthority, Free
<1>2. \/ srv' = srv \/ srv' = Abandoned(srv) \/ srv' = [srv EXCEPT !.own = TRUE]
  BY <1>1 DEF Sent, Take
<1>3. CASE srv' = srv
  BY <1>1, <1>3, ClickFacts, SameCalm, QuietClick
<1>4. CASE srv' = Abandoned(srv)
  <2>1. \A x \in srv.jog \ srv.left : x[1] = srv.sess
    BY DEF PanelInv, MotionInv, MotionIsOurs
  <2>2. ServerFits(srv') /\ Unattended(srv') /\ srv'.sess = srv.sess
    <3>1. ServerFits(srv)
      BY <1>1, ConnFacts
    <3>2. /\ ServerFits(Abandoned(srv)) /\ Unattended(Abandoned(srv))
          /\ Abandoned(srv).sess = srv.sess
      BY <2>1, <3>1, AbandonedFits
    <3> QED
      BY <1>4, <3>2
  <2>3. GuiType' /\ PanelIsBuilt'
    BY <1>1, ConnFacts DEF GuiType, PanelInv, PanelIsBuilt
  <2> QED
    BY <1>1, <2>2, <2>3, ClickFacts, TabClick
<1>5. CASE srv' = [srv EXCEPT !.own = TRUE]
  <2>1. /\ srv' \in ServerState /\ srv'.up = srv.up /\ srv'.sess = srv.sess
        /\ srv'.jog = srv.jog /\ srv'.left = srv.left
    BY <1>1, <1>5, ConnFacts DEF ServerFits, ServerState
  <2>2. ServerFits(srv')
    BY <1>1, <2>1, ConnFacts DEF ServerFits
  <2>3. MotionInv'
    BY <1>1, <2>1 DEF PanelInv, MotionInv, MotionIsOurs, MotionIsAttended
  <2>4. RepeatInv' /\ RepeatType'
    BY <1>1, ConnFacts, RepeatsKept DEF PanelInv
  <2>5. GuiType' /\ PanelIsBuilt'
    BY <1>1, ConnFacts DEF GuiType, PanelInv, PanelIsBuilt
  <2> QED
    BY <1>1, <2>1, <2>2, <2>3, <2>4, <2>5, ConnFacts, ClickFacts, ClientKept
<1> QED
  BY <1>2, <1>3, <1>4, <1>5

(* Clicks that close the connection                                        *)
LEMMA ClosingSteps ==
  ASSUME PanelInv, Disconnect \/ \E e \in Endpoints : BootConnect(e) \/ Connect(e)
  PROVE  PanelInv'
<1>0. /\ thread' = thread /\ timers' = timers /\ faults' = faults /\ Clicks /\ Races
  BY DEF Disconnect, BootConnect, Connect, Free
<1>1. /\ rep' \in {rep, Stopped(rep)} /\ mul' \in {mul, StoppedMulti(mul)}
      /\ gui' = gui \/ gui' = [gui EXCEPT !.jog = NoAxis]
  BY DEF Disconnect, BootConnect, Connect, StopsTab
<1>2. cl \in ClientState /\ gui \in GuiState /\ faults \in 0..MaxFaults /\ raced \in BOOLEAN
      /\ TypeOK
  BY DEF PanelInv, TypeOK
<1>3. GuiType' /\ gui'.valid = gui.valid /\ gui'.tab = gui.tab /\ gui'.sel = gui.sel
  BY <1>1, <1>2 DEF GuiType, GuiState
<1> DEFINE Stopping == {srv} \cup {StopTabMotion(srv, pv) : pv \in SeenPv}
<1>4. \E c \in ClientState, s \in Stopping :
         ClosesWith(c, s) /\ c.sock = cl.sock /\ c.count = cl.count
  <2>1. CASE Disconnect
    <3> DEFINE c == [cl EXCEPT !.enabled = FALSE]
    <3>1. c \in ClientState /\ c.sock = cl.sock /\ c.count = cl.count
      BY <1>2 DEF ClientState
    <3>2. PICK pv \in SeenPv : ClosesWith(c, StopTabMotion(srv, pv))
      BY <2>1 DEF Disconnect
    <3> QED
      BY <3>1, <3>2
  <2>2. ASSUME NEW e \in Endpoints, BootConnect(e) \/ Connect(e)
        PROVE  \E c \in ClientState, s \in Stopping :
                  ClosesWith(c, s) /\ c.sock = cl.sock /\ c.count = cl.count
    <3> DEFINE c == [cl EXCEPT !.want = e, !.enabled = TRUE]
    <3>1. c \in ClientState /\ c.sock = cl.sock /\ c.count = cl.count
      BY <1>2 DEF ClientState
    <3>2. ClosesWith(c, srv)
      BY <2>2 DEF BootConnect, Connect
    <3> QED
      BY <3>1, <3>2
  <2> QED
    BY <2>1, <2>2
<1>5. PICK c \in ClientState, s \in Stopping :
         ClosesWith(c, s) /\ c.sock = cl.sock /\ c.count = cl.count
  BY <1>4
<1>6. Calmer(srv, s)
  BY SameCalm, StopTab
<1>7. \A x \in s.jog \ s.left : x[1] = s.sess
  BY <1>6, CalmerIsOurs DEF PanelInv, MotionInv
<1>8. /\ cl' \in ClientState /\ cl'.sock = NoEnd /\ ~cl'.valid /\ cl'.count = cl.count
      /\ ServerFits(srv') /\ srv'.sess = NoEnd /\ Unattended(srv')
  BY <1>5, <1>6, <1>7, ClosedFits
<1>9. RepeatInv' /\ RepeatType'
  BY <1>0, <1>1, <1>2, <1>3, <1>8, RepeatsKept DEF PanelInv
<1>10. PanelIsBuilt'
  BY <1>3, <1>8 DEF PanelInv, PanelIsBuilt
<1>11. raced' \in BOOLEAN /\ (thread.pc = "connecting" => raced')
  BY <1>0, <1>2 DEF Races
<1> QED
  BY <1>0, <1>2, <1>3, <1>8, <1>9, <1>10, <1>11, ClickFacts, ClosingKeeps

LEMMA CloseStep ==
  ASSUME PanelInv, Close
  PROVE  PanelInv'
<1>1. /\ Clicks /\ gui' = [gui EXCEPT !.tab = "closed"]
      /\ rep' = NoRepeat /\ mul' = NoRepeat /\ timers' = {}
      /\ ClosesWith(cl, srv) /\ thread' = thread /\ raced' = raced /\ faults' = faults
  BY DEF Close
<1>2. cl \in ClientState /\ gui \in GuiState /\ faults \in 0..MaxFaults /\ raced \in BOOLEAN
  BY DEF PanelInv, TypeOK
<1>3. GuiType' /\ gui'.tab = "closed" /\ gui'.sel = gui.sel
  BY <1>1, <1>2 DEF GuiType, GuiState
<1>4. \A x \in srv.jog \ srv.left : x[1] = srv.sess
  BY DEF PanelInv, MotionInv, MotionIsOurs
<1>5. /\ cl' \in ClientState /\ cl'.sock = NoEnd /\ ~cl'.valid /\ cl'.count = cl.count
      /\ cl'.want = cl.want /\ cl'.enabled = cl.enabled
      /\ ServerFits(srv') /\ srv'.sess = NoEnd /\ Unattended(srv')
  BY <1>1, <1>2, <1>4, SameCalm, ClosedFits
<1>6. NoRepeat \in Repeat /\ NoRepeat.axes = {} /\ NoRepeat.on = FALSE
  BY DEF Repeat, NoRepeat, Points, NoPoint
<1>7. RepeatInv' /\ RepeatType'
  BY <1>1, <1>6 DEF RepeatInv, RepeatType, RepeatNeedsData, CallbacksFit
<1>8. PanelIsBuilt'
  BY <1>3, <1>5 DEF PanelInv, PanelIsBuilt
<1> QED
  BY <1>1, <1>2, <1>3, <1>5, <1>7, <1>8, ClickFacts, ClosingKeeps

LEMMA UserStep ==
  ASSUME PanelInv, User
  PROVE  PanelInv'
BY ClosingSteps, ToggleAuthorityStep, CommandSteps, QuietSteps, JogStartStep, StartSteps,
   TabSteps, RecoverStep, CloseStep DEF User
-----------------------------------------------------------------------------
(* The world                                                               *)

(* The jogs of a server or bus that is gone are over.                      *)
LEMMA WithoutCalms ==
  ASSUME NEW s, ServerFits(s), NEW e \in Endpoints, NEW B \in SUBSET Axes
  PROVE  /\ Calmer(s, Without(s, e, B)) /\ Without(s, e, B) \in ServerState
         /\ Without(s, e, B).up = s.up /\ Without(s, e, B).bus = s.bus
<1> DEFINE J == {x \in s.jog : x[1] # e}
           L == {x \in s.left : x[1] # e}
           F == {x \in s.fault : x[1] # e \/ x[2] \in B}
           O == {x \in s.off : x[1] # e \/ x[2] \in B}
           C == {x \in s.cold : x[1] # e \/ x[2] \in B}
           t == Without(s, e, B)
<1>1. s \in ServerState /\ s.left \subseteq s.jog
  BY DEF ServerFits
<1>2. /\ J \in SUBSET (Endpoints \X Axes) /\ L \in SUBSET (Endpoints \X Axes) /\ L \subseteq J
      /\ F \in SUBSET (Endpoints \X (Axes \cup {NoAxis})) /\ O \in SUBSET (Endpoints \X Axes)
      /\ C \in SUBSET (Endpoints \X Axes) /\ J \ L \subseteq s.jog \ s.left
  BY <1>1 DEF ServerState
<1>3. t = [s EXCEPT !.jog = J, !.left = L, !.fault = F, !.off = O, !.cold = C]
  BY DEF Without
<1> HIDE DEF J, L, F, O, C, t
<1>4. /\ t \in ServerState /\ t.up = s.up /\ t.bus = s.bus /\ t.sess = s.sess
      /\ t.jog = J /\ t.left = L
  BY <1>1, <1>2, <1>3 DEF ServerState
<1>5. Calmer(s, t)
  BY <1>2, <1>4 DEF Calmer, ServerFits
<1> QED
  BY <1>4, <1>5 DEF t

LEMMA WorldStep ==
  ASSUME PanelInv, World
  PROVE  PanelInv'
<1>1. /\ Panel /\ faults' \in 0..MaxFaults
  <2>1. faults \in 0..MaxFaults
    BY DEF PanelInv, TypeOK
  <2>2. Panel /\ (faults' = faults \/ Faults)
    BY DEF World, SessionLost, ServerDown, ServerUp, BusLost, AxisFaults, ServerFaults
  <2>3. Faults => faults' \in 0..MaxFaults
    BY <2>1, PanelAssumption DEF Faults
  <2> QED
    BY <2>1, <2>2, <2>3
<1>2. /\ thread' = thread /\ cl' = cl /\ gui' = gui /\ rep' = rep /\ mul' = mul
      /\ timers' = timers /\ raced' = raced /\ clicks' = clicks
  BY <1>1 DEF Panel
<1>3. RepeatInv' /\ RepeatType' /\ GuiType' /\ PanelIsBuilt' /\ clicks' \in 0..MaxClicks
  BY <1>2, RepeatsKept DEF PanelInv, GuiType, PanelIsBuilt, TypeOK
<1>4. ServerFits(srv) /\ srv \in ServerState
  BY DEF PanelInv, TypeOK, ServerFits
<1>5. \A x \in srv.jog \ srv.left : x[1] = srv.sess
  BY DEF PanelInv, MotionInv, MotionIsOurs
<1> DEFINE n == [Abandoned(srv) EXCEPT !.sess = NoEnd]
<1>6. ServerFits(n) /\ Unattended(n) /\ n.sess = NoEnd
  BY <1>4, <1>5, AbandonedFits
<1> HIDE DEF n
<1>7. ServerFits(srv') /\ srv'.sess \in {NoEnd, srv.sess} /\ MotionInv'
  <2>1. CASE SessionLost
    <3>1. srv' = n
      BY <2>1 DEF SessionLost, n
    <3> QED
      BY <1>6, <3>1, UnattendedFits
  <2>2. ASSUME NEW e \in Endpoints, ServerDown(e)
        PROVE  ServerFits(srv') /\ srv'.sess \in {NoEnd, srv.sess} /\ MotionInv'
    <3> DEFINE s == IF srv.sess = e THEN n ELSE srv
               t == Without(s, e, {})
    <3>1. srv' = [t EXCEPT !.up = @ \ {e}]
      BY <2>2 DEF ServerDown, n
    <3>2. ServerFits(s) /\ s.sess \in {NoEnd, srv.sess} /\ s.sess # e
      BY <1>4, <1>6, PanelAssumption
    <3>3. s = srv \/ (Unattended(s) /\ s.sess = NoEnd)
      BY <1>6
    <3> HIDE DEF s
    <3>4. Calmer(s, t) /\ t \in ServerState
      BY <3>2, WithoutCalms
    <3> HIDE DEF t
    <3>5. Calmer(s, srv')
      <4>1. ServerFits(t) /\ t.sess = s.sess /\ t.jog \ t.left \subseteq s.jog \ s.left
        BY <3>4 DEF Calmer
      <4>2. /\ srv' \in ServerState /\ srv'.up = t.up \ {e} /\ srv'.sess = t.sess
            /\ srv'.jog = t.jog /\ srv'.left = t.left
        BY <3>1, <3>4 DEF ServerState
      <4> QED
        BY <3>2, <4>1, <4>2 DEF Calmer, ServerFits
    <3>6. CASE s = srv
      BY <1>2, <3>5, <3>6, CalmerFits DEF PanelInv
    <3>7. CASE Unattended(s) /\ s.sess = NoEnd
      <4>1. Unattended(srv') /\ ServerFits(srv') /\ srv'.sess = NoEnd
        BY <3>5, <3>7 DEF Calmer, Unattended
      <4> QED
        BY <4>1, UnattendedFits
    <3> QED
      BY <3>3, <3>6, <3>7
  <2>3. ASSUME NEW e \in Endpoints, ServerUp(e)
        PROVE  ServerFits(srv') /\ srv'.sess \in {NoEnd, srv.sess} /\ MotionInv'
    <3>1. srv' = [srv EXCEPT !.up = @ \cup {e}]
      BY <2>3 DEF ServerUp
    <3>2. /\ srv' \in ServerState /\ srv'.up = srv.up \cup {e} /\ srv'.sess = srv.sess
          /\ srv'.jog = srv.jog /\ srv'.left = srv.left
      BY <1>4, <3>1 DEF ServerState
    <3>3. ServerFits(srv')
      BY <1>4, <3>2 DEF ServerFits
    <3>4. MotionInv'
      BY <1>2, <3>2 DEF PanelInv, MotionInv, MotionIsOurs, MotionIsAttended
    <3> QED
      BY <3>2, <3>3, <3>4
  <2>4. ASSUME Calmer(srv, srv')
        PROVE  ServerFits(srv') /\ srv'.sess \in {NoEnd, srv.sess} /\ MotionInv'
    BY <1>2, <2>4, CalmerFits DEF PanelInv
  <2>5. ASSUME NEW e \in Endpoints, BusLost(e)
        PROVE  Calmer(srv, srv')
    <3> DEFINE t == Without(srv, e, Axes)
    <3>1. srv' = [t EXCEPT !.bus = @ \ {e}]
      BY <2>5 DEF BusLost
    <3>2. Calmer(srv, t) /\ t \in ServerState
      BY <1>4, WithoutCalms
    <3> HIDE DEF t
    <3>3. /\ srv' \in ServerState /\ srv'.up = t.up /\ srv'.sess = t.sess
          /\ srv'.jog = t.jog /\ srv'.left = t.left
      BY <3>1, <3>2 DEF ServerState
    <3> QED
      BY <3>2, <3>3 DEF Calmer, ServerFits
  <2>6. ASSUME NEW e \in Endpoints, NEW a \in Axes, AxisFaults(e, a)
        PROVE  Calmer(srv, srv')
    <3> DEFINE x == <<e, a>>
    <3>1. srv' = [srv EXCEPT !.jog = @ \ {x}, !.left = @ \ {x},
                             !.fault = @ \cup {x}, !.off = @ \cup {x}]
      BY <2>6 DEF AxisFaults
    <3>2. x \in Endpoints \X Axes /\ x \in Endpoints \X (Axes \cup {NoAxis})
      OBVIOUS
    <3> HIDE DEF x
    <3>3. /\ srv.jog \ {x} \in SUBSET (Endpoints \X Axes)
          /\ srv.left \ {x} \in SUBSET (Endpoints \X Axes)
          /\ srv.off \cup {x} \in SUBSET (Endpoints \X Axes)
          /\ srv.fault \cup {x} \in SUBSET (Endpoints \X (Axes \cup {NoAxis}))
      BY <1>4, <3>2 DEF ServerState
    <3>4. /\ srv' \in ServerState /\ srv'.up = srv.up /\ srv'.sess = srv.sess
          /\ srv'.jog = srv.jog \ {x} /\ srv'.left = srv.left \ {x}
      BY <1>4, <3>1, <3>3 DEF ServerState
    <3> QED
      BY <1>4, <3>4 DEF Calmer, ServerFits
  <2>7. ASSUME NEW e \in Endpoints, ServerFaults(e)
        PROVE  Calmer(srv, srv')
    <3> DEFINE F == srv.fault \cup {<<e, NoAxis>>}
    <3>1. srv' = [srv EXCEPT !.fault = F]
      BY <2>7 DEF ServerFaults
    <3>2. F \in SUBSET (Endpoints \X (Axes \cup {NoAxis}))
      BY <1>4 DEF ServerState
    <3> HIDE DEF F
    <3>3. /\ srv' \in ServerState /\ srv'.up = srv.up /\ srv'.sess = srv.sess
          /\ srv'.jog = srv.jog /\ srv'.left = srv.left
      BY <1>4, <3>1, <3>2 DEF ServerState
    <3> QED
      BY <1>4, <3>3 DEF Calmer, ServerFits
  <2> QED
    BY <2>1, <2>2, <2>3, <2>4, <2>5, <2>6, <2>7 DEF World
<1> QED
  BY <1>1, <1>2, <1>3, <1>7, ClientKept
-----------------------------------------------------------------------------
(* The theorems                                                            *)

LEMMA PanelInit ==
  ASSUME Init
  PROVE  PanelInv
<1>1. NoRepeat \in Repeat /\ NoRepeat.axes = {} /\ NoRepeat.on = FALSE
  BY DEF Repeat, NoRepeat, Points, NoPoint
<1>2. thread \in ThreadState
  BY DEF Init, ThreadState, NoMessage
<1>3. cl \in ClientState
  BY PanelAssumption DEF Init, ClientState
<1>4. gui \in GuiState
  BY AxisFacts DEF Init, GuiState, NoSnapshot
<1>5. srv \in ServerState /\ srv.sess = NoEnd /\ srv.left = {} /\ srv.jog = {}
  BY DEF Init, ServerState
<1>6. TypeOK
  <2>1. rep = NoRepeat /\ mul = NoRepeat /\ timers = {} /\ raced = FALSE
        /\ clicks = 0 /\ faults = 0
    BY DEF Init
  <2>2. 0 \in 0..MaxClicks /\ 0 \in 0..MaxFaults
    BY PanelAssumption
  <2>3. RepeatType /\ RestType
    BY <1>1, <2>1, <2>2 DEF RepeatType, RestType
  <2>4. ServerFits(srv)
    BY <1>5 DEF ServerFits
  <2> QED
    BY <1>2, <1>3, <1>4, <2>3, <2>4, TypeParts DEF ThreadType, ClientType, GuiType
<1>7. ConnectionInv
  BY <1>5 DEF Init, ConnectionInv, OneSession, ConnectingIsWanted, ConnectionIsWanted
<1>8. PanelIsBuilt
  BY DEF Init, PanelIsBuilt
<1>9. RepeatInv
  BY <1>1 DEF Init, RepeatInv, RepeatNeedsData, CallbacksFit
<1>10. MotionInv
  BY <1>5 DEF MotionInv, MotionIsOurs, MotionIsAttended
<1> QED
  BY <1>6, <1>7, <1>8, <1>9, <1>10 DEF PanelInv

(* The invariant of the panel is inductive: every step of the thread, the  *)
(* Tk thread, the user and the servers keeps it.                           *)
THEOREM PanelInvariant == Spec => []PanelInv
<1>1. Init => PanelInv
  BY PanelInit
<1>2. PanelInv /\ [Next]_vars => PanelInv'
  <2> SUFFICES ASSUME PanelInv, [Next]_vars
               PROVE  PanelInv'
    OBVIOUS
  <2>1. CASE UNCHANGED vars
    BY <2>1 DEF vars, PanelInv, TypeOK, PanelAxes, ConnectionInv, OneSession,
       ConnectingIsWanted, ConnectionIsWanted, PanelIsBuilt, RepeatInv, RepeatNeedsData,
       MotionInv, MotionIsOurs, MotionIsAttended
  <2>2. CASE Next
    BY <2>2, ThreadStep, BuildsStep, SnapshotStep, UpdatesInvalidStep, UpdatesValidStep,
       FiresStep, UserStep, JogStopStep, WorldStep DEF Next, Update
  <2> QED
    BY <2>1, <2>2
<1> QED
  BY <1>1, <1>2, PTL DEF Spec

Current(k, r, T) ==
  LET live == {t \in T : t.kind = k /\ Live(t, r)}
  IN /\ r.on => Cardinality(live) = IF r.waiting THEN 1 ELSE 0
     /\ \A t \in live : t.axes = r.axes /\ t.pt = r.idx /\ t.pt # r.last

(* One callback at most is alive, the one the repeat waits for.            *)
LEMMA FitIsCurrent ==
  ASSUME NEW k, NEW r \in Repeat, NEW T \in SUBSET Callback, CallbacksFit(k, r, T)
  PROVE  Current(k, r, T)
<1> USE DEF Current
<1> DEFINE live == {t \in T : t.kind = k /\ Live(t, r)}
<1>1. CASE ~r.on
  <2>1. live = {}
    BY <1>1 DEF Live
  <2> QED
    BY <1>1, <2>1
<1>2. CASE r.on /\ r.waiting
  <2>1. PICK t \in T : /\ Own(t, k, r) /\ t.axes = r.axes /\ t.pt = r.idx
                       /\ \A u \in T : Own(u, k, r) => u = t
    BY <1>2 DEF CallbacksFit
  <2>2. live = {t}
    BY <1>2, <2>1 DEF Live, Own
  <2>3. Cardinality(live) = 1
    BY <2>2, FS_Singleton
  <2>4. r.last = 1 - r.idx /\ r.idx \in {0, 1}
    BY <1>2 DEF CallbacksFit, Repeat, Points
  <2> QED
    BY <1>2, <2>1, <2>2, <2>3, <2>4
<1>3. CASE r.on /\ ~r.waiting
  <2>1. live = {}
    BY <1>3 DEF CallbacksFit, Live, Own
  <2>2. Cardinality(live) = 0
    BY <2>1, FS_EmptySet
  <2> QED
    BY <1>3, <2>1, <2>2
<1> QED
  BY <1>1, <1>2, <1>3

(* What the panel shows and repeats has a ground (PanelIsSound), for any   *)
(* servers and however often the user clicks: valid data have a connection *)
(* the user wants, a repeat has valid data, and one that waits has exactly *)
(* one callback that will act.                                             *)
THEOREM ThePanelIsSound == Spec => []PanelIsSound
<1>1. PanelInv => PanelIsSound
  <2> SUFFICES ASSUME PanelInv
               PROVE  PanelIsSound
    OBVIOUS
  <2>1. DisconnectedIsInvalid
    BY DEF PanelInv, ConnectionInv, OneSession, DisconnectedIsInvalid
  <2>2. rep \in Repeat /\ mul \in Repeat /\ timers \in SUBSET Callback
        /\ CallbacksFit("single", rep, timers) /\ CallbacksFit("multi", mul, timers)
    BY DEF PanelInv, TypeOK, RepeatInv
  <2>3. CallbackIsCurrent
    <3>1. Current("single", rep, timers) /\ Current("multi", mul, timers)
      BY <2>2, FitIsCurrent
    <3> QED
      BY <3>1 DEF CallbackIsCurrent, Current
  <2> QED
    BY <2>1, <2>3 DEF PanelIsSound, PanelInv, ConnectionInv, RepeatInv
<1> QED
  BY <1>1, PanelInvariant, PTL

(* An axis that the panel jogs has its button held and its tab shown,      *)
(* unless the jog was given up (MotionIsAttended): whatever ends the tab,  *)
(* the end of the jog is sent, and only a session or authority that ends   *)
(* and a server that refuses the stop let it go on.                        *)
THEOREM TheMotionIsAttended == Spec => []MotionIsAttended
<1>1. PanelInv => MotionIsAttended
  BY DEF PanelInv, MotionInv
<1> QED
  BY <1>1, PanelInvariant, PTL
=============================================================================
