-------------------------- MODULE RoundTripProofs ---------------------------
(***************************************************************************)
(* For any operations, endpoints, policy and retry limit, and with or      *)
(* without the heartbeat: there is never more than one healthy connection  *)
(* to an endpoint, a pinned request is sent once at most and to its own    *)
(* address, an operation the policy refuses to retry is executed once at   *)
(* most, and a healthy active connection is replaced only for a task that  *)
(* saw its address fail.  And the throttle of reconnects, for every window *)
(* and every limit.                                                        *)
(***************************************************************************)
EXTENDS RoundTrip, Throttle, FiniteSetTheorems, TLAPS

----------------------------------------------------------------------------
\* A set without two different members has one at most.
LEMMA AtMostOneMember ==
    ASSUME NEW S, \A x, y \in S : x = y
    PROVE  Cardinality(S) <= 1
  <1>1. CASE S = {}
    BY <1>1, FS_EmptySet
  <1>2. ASSUME NEW x \in S PROVE Cardinality(S) <= 1
    <2>1. S = {x}
      BY <1>2
    <2>2. Cardinality({x}) = 1
      BY FS_Singleton
    <2> QED
      BY <2>1, <2>2
  <1> QED
    BY <1>1, <1>2

----------------------------------------------------------------------------
(* One connection per endpoint *)

\* Whoever dials holds channel_connect_guard and saw no healthy connection to the
\* endpoint when it took it; only the holder adds one.
DialInv ==
    /\ DOMAIN pc = Actor /\ DOMAIN job = Actor
    /\ \A a \in Actor : pc[a] = "dial" =>
          dialing = a /\ \A c \in up : c[1] # job[a].try
    /\ \A c, d \in up : c[1] = d[1] => c = d

LEMMA InitDial == Init => DialInv
  BY DEF Init, DialInv

\* A step of a that does not begin to dial, and adds no connection.
LEMMA QuietStep ==
    ASSUME DialInv, NEW a \in Actor, NEW l, l # "dial", pc' = [pc EXCEPT ![a] = l],
           up' \subseteq up, DOMAIN job' = Actor,
           \A b \in Actor \ {a} : job'[b] = job[b] /\ (dialing = b => dialing' = b)
    PROVE  DialInv'
  BY DEF DialInv

\* A step that moves no task and adds no connection.
LEMMA StillStep ==
    ASSUME DialInv, pc' = pc, up' \subseteq up, UNCHANGED <<job, dialing>>
    PROVE  DialInv'
  BY DEF DialInv

LEMMA PostMoves ==
    ASSUME NEW o, NEW c, NEW f, Post(o, c, f)
    PROVE  \E l : l # "dial" /\ pc' = [pc EXCEPT ![o] = l]
  <1>1. CASE c \in up
    <2>1. pc' = [pc EXCEPT ![o] = "sent"]
      BY <1>1 DEF Post, Goto
    <2> QED
      BY <2>1
  <1>2. CASE c \notin up
    <2>1. pc' = [pc EXCEPT ![o] = "failed"]
      BY <1>2 DEF Post, Goto
    <2> QED
      BY <2>1
  <1> QED
    BY <1>1, <1>2

LEMMA ConnectedMoves ==
    ASSUME DialInv, NEW a \in Actor, NEW c, Connected(a, c)
    PROVE  /\ \E l : l # "dial" /\ pc' = [pc EXCEPT ![a] = l]
           /\ DOMAIN job' = Actor /\ \A b \in Actor \ {a} : job'[b] = job[b]
  <1>1. job' = [job EXCEPT ![a] = NoJob]
    BY DEF Connected, Leave, Reconnected
  <1>2. \E l : l # "dial" /\ pc' = [pc EXCEPT ![a] = l]
    BY PostMoves DEF Connected, Reconnected, Goto
  <1> QED
    BY <1>1, <1>2 DEF DialInv

LEMMA ReconnectKeepsDial ==
    ASSUME DialInv, NEW a \in Actor, ReconnectStep(a)
    PROVE  DialInv'
  <1>1. CASE Lock(a)
    <2>1. DOMAIN job' = Actor /\ \A b \in Actor \ {a} : job'[b] = job[b]
      BY <1>1 DEF Lock, Reconnected, ReconnectFails, StartConnecting, Leave, DialInv
    <2>2. \E l : l # "dial" /\ pc' = [pc EXCEPT ![a] = l]
      BY <1>1 DEF Lock, Reconnected, ReconnectFails, StartConnecting, Goto
    <2> QED
      BY <1>1, <2>1, <2>2, QuietStep DEF Lock
  <1>2. CASE Dial(a)
    <2>1. CASE \E c \in UpAt(job[a].try) : Connected(a, c) /\ UNCHANGED dialing
      BY <1>2, <2>1, ConnectedMoves, QuietStep DEF Dial
    <2>2. CASE UpAt(job[a].try) = {} /\ dialing' = a /\ Goto(a, "dial") /\ UNCHANGED job
      <3>1. \A b \in Actor : pc[b] # "dial"
        BY <1>2, RoundTripAssumption DEF Dial, DialInv, Actor
      <3>2. \A b \in Actor : pc'[b] = "dial" => b = a
        BY <2>2, <3>1 DEF Goto, DialInv
      <3>3. \A c \in up : c[1] # job[a].try
        BY <2>2 DEF UpAt
      <3>4. DOMAIN pc' = Actor /\ UNCHANGED <<up, job>>
        BY <1>2, <2>2 DEF Dial, Goto, DialInv
      <3> QED
        BY <2>2, <3>2, <3>3, <3>4 DEF DialInv
    <2> QED
      BY <1>2, <2>1, <2>2 DEF Dial
  <1>3. CASE DialOk(a)
    <2>1. PICK n : up' = up \cup {<<job[a].try, n>>}
      BY <1>3 DEF DialOk
    <2>2. /\ pc' = [pc EXCEPT ![a] = "adopt"] /\ DOMAIN job' = Actor
      BY <1>3 DEF DialOk, Goto, DialInv
    <2>3. \A b \in Actor : pc'[b] # "dial"
      BY <1>3, <2>2 DEF DialOk, DialInv
    <2>4. \A c \in up : c[1] # job[a].try
      BY <1>3 DEF DialOk, DialInv
    <2>5. \A c, d \in up' : c[1] = d[1] => c = d
      BY <2>1, <2>4 DEF DialInv
    <2> QED
      BY <2>2, <2>3, <2>5 DEF DialInv
  <1>4. CASE Adopt(a)
    BY <1>4, ConnectedMoves, QuietStep DEF Adopt
  <1>5. CASE DialFails(a)
    <2>1. DOMAIN job' = Actor /\ \A b \in Actor \ {a} : job'[b] = job[b]
      BY <1>5 DEF DialFails, ReconnectFails, Leave, DialInv
    <2>2. \E l : l # "dial" /\ pc' = [pc EXCEPT ![a] = l]
      BY <1>5 DEF DialFails, ReconnectFails, EnterLoop, Goto
    <2>3. up' = up /\ \A b \in Actor \ {a} : dialing # b
      BY <1>5 DEF DialFails, DialInv
    <2> QED
      BY <2>1, <2>2, <2>3, QuietStep
  <1> QED
    BY <1>1, <1>2, <1>3, <1>4, <1>5 DEF ReconnectStep

LEMMA OpKeepsDial ==
    ASSUME DialInv, NEW o \in Op, OpStep(o) \/ Cancel(o)
    PROVE  DialInv'
  <1>0. o \in Actor
    BY DEF Actor
  <1>1. CASE Select(o)
    <2>1. DOMAIN job' = Actor /\ \A b \in Actor \ {o} : job'[b] = job[b]
      BY <1>1 DEF Select, DialInv
    <2>2. \E l : l # "dial" /\ pc' = [pc EXCEPT ![o] = l]
      BY <1>1, PostMoves DEF Select, EnterLoop, Goto
    <2>3. UNCHANGED <<up, dialing>>
      BY <1>1 DEF Select
    <2> QED
      BY <1>0, <2>1, <2>2, <2>3, QuietStep
  <1>2. CASE Pick(o)
    <2>1. \E l : l # "dial" /\ pc' = [pc EXCEPT ![o] = l]
      BY <1>2, PostMoves DEF Pick
    <2>2. UNCHANGED <<up, job, dialing>> /\ DOMAIN job = Actor
      BY <1>2 DEF Pick, linkVars, DialInv
    <2> QED
      BY <1>0, <2>1, <2>2, QuietStep
  <1>3. CASE RouteFailed(o)
    <2>1. \E l : l # "dial" /\ pc' = [pc EXCEPT ![o] = l]
      BY <1>3 DEF RouteFailed, EnterLoop, Goto
    <2>2. UNCHANGED <<up, job, dialing>> /\ DOMAIN job = Actor
      BY <1>3 DEF RouteFailed, linkVars, DialInv
    <2> QED
      BY <1>0, <2>1, <2>2, QuietStep
  <1>4. CASE LoopFailed(o)
    <2>1. \E l : l # "dial" /\ pc' = [pc EXCEPT ![o] = l]
      BY <1>4 DEF LoopFailed, Goto
    <2>2. /\ UNCHANGED <<up, dialing>> /\ DOMAIN job' = Actor
          /\ \A b \in Actor \ {o} : job'[b] = job[b]
      BY <1>4 DEF LoopFailed, DialInv
    <2> QED
      BY <1>0, <2>1, <2>2, QuietStep
  <1>5. CASE RequestFails(o)
    BY <1>0, <1>5, QuietStep DEF RequestFails, Goto, linkVars, DialInv
  <1>6. CASE ReconnectStep(o)
    BY <1>0, <1>6, ReconnectKeepsDial
  <1>7. CASE Cancel(o)
    <2>1. DOMAIN job' = Actor /\ \A b \in Actor \ {o} : job'[b] = job[b]
      BY <1>7 DEF Cancel, Leave, DialInv
    <2>2. \A b \in Actor \ {o} : dialing = b => dialing' = b
      BY <1>7 DEF Cancel
    <2> QED
      BY <1>0, <1>7, <2>1, <2>2, QuietStep DEF Cancel, Goto
  <1> QED
    BY <1>1, <1>2, <1>3, <1>4, <1>5, <1>6, <1>7 DEF OpStep

LEMMA NextDial == DialInv /\ [Next]_vars => DialInv'
  <1> SUFFICES ASSUME DialInv, [Next]_vars PROVE DialInv'
    OBVIOUS
  <1>1. ASSUME NEW o \in Op, NEW k \in Kinds, NEW e \in Endpoint, NEW r \in Reads,
               Begin(o, k, e, r)
        PROVE  DialInv'
    <2>1. \E l : l # "dial" /\ pc' = [pc EXCEPT ![o] = l]
      BY <1>1 DEF Begin, EnterLoop, Goto
    <2>2. o \in Actor /\ UNCHANGED <<up, job, dialing>> /\ DOMAIN job = Actor
      BY <1>1 DEF Begin, linkVars, DialInv, Actor
    <2> QED
      BY <2>1, <2>2, QuietStep
  <1>2. ASSUME NEW o \in Op, OpStep(o) \/ Cancel(o) PROVE DialInv'
    BY <1>2, OpKeepsDial
  <1>3. ASSUME NEW o \in Op, NEW i \in 1..Len(att[o]), Transmit(o, i) \/ Reply(o, i)
        PROVE  DialInv'
    <2>1. o \in Actor /\ UNCHANGED <<up, job, dialing>> /\ DOMAIN job = Actor
      BY <1>3 DEF Transmit, Reply, linkVars, DialInv, Actor
    <2>2. pc' = pc \/ pc' = [pc EXCEPT ![o] = "ok"]
      BY <1>3 DEF Transmit, Reply, Goto
    <2> QED
      BY <2>1, <2>2, QuietStep, StillStep
  <1>4. ASSUME NEW a \in Heartbeat, HeartbeatTick(a) \/ HeartbeatProbe(a)
        PROVE  DialInv'
    <2>1. a \in Actor /\ \E l : l # "dial" /\ pc' = [pc EXCEPT ![a] = l]
      BY <1>4 DEF HeartbeatTick, HeartbeatProbe, Goto, Actor
    <2>2. /\ UNCHANGED <<up, dialing>> /\ DOMAIN job' = Actor
          /\ \A b \in Actor \ {a} : job'[b] = job[b]
      BY <1>4 DEF HeartbeatTick, HeartbeatProbe, linkVars, DialInv
    <2> QED
      BY <2>1, <2>2, QuietStep
  <1>5. ASSUME NEW a \in Heartbeat, ReconnectStep(a) PROVE DialInv'
    BY <1>5, ReconnectKeepsDial DEF Actor
  <1>6. ASSUME NEW c \in Conn, Break(c) PROVE DialInv'
    BY <1>6, StillStep DEF Break
  <1>7. CASE UNCHANGED vars
    BY <1>7, StillStep DEF vars, linkVars
  <1> QED
    BY <1>1, <1>2, <1>3, <1>4, <1>5, <1>6, <1>7 DEF Next

\* Operations, preferred routes and the heartbeat connect at the same time, and
\* connections break at any moment: there is never more than one healthy connection
\* to an endpoint.
THEOREM OneConnection == Spec => []OneConnectionPerEndpoint
  <1>1. DialInv => OneConnectionPerEndpoint
    <2> SUFFICES ASSUME DialInv, NEW e \in Endpoint PROVE Cardinality(UpAt(e)) <= 1
      BY DEF OneConnectionPerEndpoint
    <2>1. \A c, d \in UpAt(e) : c = d
      BY DEF UpAt, DialInv
    <2> QED
      BY <2>1, AtMostOneMember
  <1> QED
    BY <1>1, InitDial, NextDial, PTL DEF Spec

----------------------------------------------------------------------------
(* A pinned request *)

\* s is empty, or the one attempt made on a connection to e.
OnceTo(s, e) ==
    \/ s = <<>>
    \/ \E r : s = <<r>> /\ r.conn[1] = e /\ DOMAIN r = {"conn", "full", "at"}

\* Before its first request an operation has sent nothing; a pinned one is never in
\* the loop, nor connecting.
Placed(o) ==
    /\ pc[o] \in {"idle", "select"} => att[o] = <<>> /\ ~inLoop[o]
    /\ pc[o] = "idle" => kind[o] = None
    /\ kind[o] = "pinned" =>
          /\ ~inLoop[o]
          /\ pc[o] \in {"select", "sent", "failed"} \cup Ended
          /\ OnceTo(att[o], target[o])

PinInv ==
    /\ DOMAIN pc = Actor /\ DOMAIN kind = Op /\ DOMAIN target = Op
    /\ DOMAIN inLoop = Op /\ DOMAIN att = Op
    /\ \A o \in Op : Placed(o)

LEMMA OneOpMoves ==
    ASSUME PinInv, NEW o \in Op,
           DOMAIN pc' = Actor, DOMAIN kind' = Op, DOMAIN target' = Op,
           DOMAIN inLoop' = Op, DOMAIN att' = Op,
           \A q \in Op \ {o} : /\ pc'[q] = pc[q] /\ kind'[q] = kind[q]
                                /\ target'[q] = target[q] /\ inLoop'[q] = inLoop[q]
                                /\ att'[q] = att[q],
           Placed(o)'
    PROVE  PinInv'
  <1>1. \A q \in Op : Placed(q)'
    BY DEF PinInv, Placed
  <1> QED
    BY <1>1 DEF PinInv

LEMMA InitPin == Init => PinInv
  BY RoundTripAssumption DEF Init, PinInv, Placed, Actor, OnceTo

\* Its one request goes out on a connection to its own address.
LEMMA PostOnce ==
    ASSUME NEW o \in Op, NEW c, NEW f, DOMAIN att = Op, att[o] = <<>>, Post(o, c, f),
           c[1] = target[o]
    PROVE  OnceTo(att'[o], target[o])
  <1>1. PICK p : att'[o] = Append(<<>>, [conn |-> c, full |-> f, at |-> p])
    BY DEF Post
  <1>2. att'[o] = <<[conn |-> c, full |-> f, at |-> p]>>
    BY <1>1
  <1> DEFINE r == [conn |-> c, full |-> f, at |-> p]
  <1>3. r.conn = c /\ DOMAIN r = {"conn", "full", "at"}
    OBVIOUS
  <1>4. att'[o] = <<r>>
    BY <1>2
  <1> HIDE DEF r
  <1> QED
    BY <1>3, <1>4 DEF OnceTo

\* What becomes of the attempt changes neither its connection nor their number.
LEMMA MarkedOnce ==
    ASSUME NEW s, NEW e, OnceTo(s, e), NEW i \in 1..Len(s), NEW p
    PROVE  OnceTo([s EXCEPT ![i].at = p], e)
  <1>1. PICK r : s = <<r>> /\ r.conn[1] = e /\ DOMAIN r = {"conn", "full", "at"}
    BY DEF OnceTo
  <1>2. i = 1
    BY <1>1
  <1>3. [s EXCEPT ![i].at = p] = <<[r EXCEPT !.at = p]>>
    BY <1>1, <1>2
  <1>4. [r EXCEPT !.at = p].conn = r.conn /\ DOMAIN [r EXCEPT !.at = p] = {"conn", "full", "at"}
    BY <1>1
  <1> QED
    BY <1>1, <1>3, <1>4 DEF OnceTo

\* An operation that is not pinned may go anywhere but back.
LEMMA FreeMove ==
    ASSUME PinInv, NEW o \in Op, NEW l, l \notin {"idle", "select"}, kind[o] # "pinned",
           pc' = [pc EXCEPT ![o] = l], UNCHANGED <<kind, target>>,
           DOMAIN inLoop' = Op, DOMAIN att' = Op,
           \A q \in Op \ {o} : inLoop'[q] = inLoop[q] /\ att'[q] = att[q]
    PROVE  PinInv'
  <1>1. o \in Actor /\ DOMAIN pc' = Actor /\ pc'[o] = l /\ \A q \in Op \ {o} : pc'[q] = pc[q]
    BY DEF PinInv, Actor
  <1>2. Placed(o)'
    BY <1>1 DEF Placed
  <1> QED
    BY <1>1, <1>2, OneOpMoves DEF PinInv

\* A pinned operation may only wait, fail or end, with the attempts it has.
LEMMA EndMove ==
    ASSUME PinInv, NEW o \in Op, NEW l \in {"sent", "failed"} \cup Ended,
           ~inLoop[o] \/ kind[o] # "pinned",
           pc' = [pc EXCEPT ![o] = l], UNCHANGED <<kind, target, inLoop, att>>
    PROVE  PinInv'
  <1>1. o \in Actor /\ DOMAIN pc' = Actor /\ pc'[o] = l /\ \A q \in Op \ {o} : pc'[q] = pc[q]
    BY DEF PinInv, Actor
  <1>2. Placed(o)'
    BY <1>1 DEF Placed, PinInv, Ended
  <1> QED
    BY <1>1, <1>2, OneOpMoves DEF PinInv

\* The heartbeat moves no operation.
LEMMA HeartbeatMove ==
    ASSUME PinInv, NEW a \in Heartbeat, NEW l, pc' = [pc EXCEPT ![a] = l],
           UNCHANGED <<kind, target, inLoop, att>>
    PROVE  PinInv'
  <1>1. DOMAIN pc' = Actor /\ \A q \in Op : pc'[q] = pc[q]
    BY RoundTripAssumption DEF PinInv, Actor
  <1> QED
    BY <1>1 DEF PinInv, Placed

LEMMA PostLeaves ==
    ASSUME NEW o \in Op, NEW c, NEW f, DOMAIN att = Op, Post(o, c, f)
    PROVE  /\ \E l \in {"sent", "failed"} : pc' = [pc EXCEPT ![o] = l]
           /\ DOMAIN att' = Op /\ \A q \in Op \ {o} : att'[q] = att[q]
  <1>1. DOMAIN att' = Op /\ \A q \in Op \ {o} : att'[q] = att[q]
    BY DEF Post
  <1>2. CASE c \in up
    <2>1. pc' = [pc EXCEPT ![o] = "sent"]
      BY <1>2 DEF Post, Goto
    <2> QED
      BY <1>1, <2>1
  <1>3. CASE c \notin up
    <2>1. pc' = [pc EXCEPT ![o] = "failed"]
      BY <1>3 DEF Post, Goto
    <2> QED
      BY <1>1, <2>1
  <1> QED
    BY <1>2, <1>3

LEMMA BeginPin ==
    ASSUME PinInv, NEW o \in Op, NEW k, NEW e, NEW r, Begin(o, k, e, r) PROVE PinInv'
  <1>1. /\ o \in Actor /\ att[o] = <<>> /\ ~inLoop[o] /\ att' = att
        /\ kind' = [kind EXCEPT ![o] = k] /\ target' = [target EXCEPT ![o] = e]
    BY DEF Begin, PinInv, Placed, Actor
  <1>2. CASE k = "default"
    <2>1. pc' = [pc EXCEPT ![o] = "pick"] /\ inLoop' = [inLoop EXCEPT ![o] = TRUE]
      BY <1>2 DEF Begin, EnterLoop, Goto
    <2>2. Placed(o)'
      BY <1>1, <1>2, <2>1 DEF PinInv, Placed
    <2>3. /\ DOMAIN pc' = Actor /\ DOMAIN kind' = Op /\ DOMAIN target' = Op
          /\ DOMAIN inLoop' = Op /\ DOMAIN att' = Op
      BY <1>1, <2>1 DEF PinInv
    <2>4. \A q \in Op \ {o} : /\ pc'[q] = pc[q] /\ kind'[q] = kind[q]
                              /\ target'[q] = target[q] /\ inLoop'[q] = inLoop[q]
                              /\ att'[q] = att[q]
      BY <1>1, <2>1 DEF PinInv, Actor
    <2> QED
      BY <2>2, <2>3, <2>4, OneOpMoves
  <1>3. CASE k # "default"
    <2>1. pc' = [pc EXCEPT ![o] = "select"] /\ inLoop' = inLoop
      BY <1>3 DEF Begin, Goto
    <2>2. Placed(o)'
      BY <1>1, <2>1 DEF PinInv, Placed, OnceTo
    <2> QED
      BY <1>1, <2>1, <2>2, OneOpMoves DEF PinInv
  <1> QED
    BY <1>2, <1>3

LEMMA SelectPin == ASSUME PinInv, NEW o \in Op, Select(o) PROVE PinInv'
  <1>1. /\ o \in Actor /\ att[o] = <<>> /\ ~inLoop[o] /\ DOMAIN att = Op
        /\ UNCHANGED <<kind, target>>
    BY DEF Select, PinInv, Placed, Actor
  <1>2. ASSUME NEW c \in UpAt(target[o]), Post(o, c, TRUE), UNCHANGED inLoop PROVE PinInv'
    <2>1. PICK l \in {"sent", "failed"} : pc' = [pc EXCEPT ![o] = l]
      BY <1>1, <1>2, PostLeaves
    <2>2. DOMAIN att' = Op /\ \A q \in Op \ {o} : att'[q] = att[q]
      BY <1>1, <1>2, PostLeaves
    <2>3. OnceTo(att'[o], target[o])
      BY <1>1, <1>2, PostOnce DEF UpAt
    <2>4. pc'[o] = l /\ DOMAIN pc' = Actor /\ \A q \in Op \ {o} : pc'[q] = pc[q]
      BY <1>1, <2>1 DEF PinInv, Actor
    <2>5. Placed(o)'
      BY <1>1, <1>2, <2>3, <2>4 DEF Placed
    <2> QED
      BY <1>1, <1>2, <2>2, <2>4, <2>5, OneOpMoves DEF PinInv
  <1>3. CASE Goto(o, "err") /\ UNCHANGED <<inLoop, att>>
    BY <1>1, <1>3, EndMove DEF Goto, Ended
  <1>4. CASE kind[o] = "preferred" /\ Goto(o, "next") /\ UNCHANGED <<inLoop, att>>
    BY <1>1, <1>4, FreeMove DEF Goto, PinInv
  <1>5. CASE kind[o] = "preferred" /\ EnterLoop(o) /\ UNCHANGED att
    <2>1. /\ pc' = [pc EXCEPT ![o] = "pick"] /\ DOMAIN inLoop' = Op
          /\ \A q \in Op \ {o} : inLoop'[q] = inLoop[q]
      BY <1>5 DEF EnterLoop, Goto, PinInv
    <2> QED
      BY <1>1, <1>5, <2>1, FreeMove
  <1> QED
    BY <1>2, <1>3, <1>4, <1>5 DEF Select

LEMMA ReconnectPin ==
    ASSUME PinInv, NEW o \in Op, ReconnectStep(o) PROVE PinInv'
  <1>1. kind[o] # "pinned"
    BY DEF ReconnectStep, Lock, Dial, DialOk, Adopt, DialFails, PinInv, Placed, Ended
  <1>2. UNCHANGED <<kind, target>>
    BY DEF ReconnectStep, Lock, Dial, DialOk, Adopt, DialFails, opVars
  <1>3. ASSUME NEW c, Connected(o, c), UNCHANGED inLoop PROVE PinInv'
    <2>1. CASE Post(o, c, TRUE)
      BY <1>1, <1>2, <1>3, <2>1, PostLeaves, FreeMove DEF PinInv
    <2>2. CASE Reconnected(o) /\ UNCHANGED att
      BY <1>1, <1>2, <1>3, <2>2, FreeMove DEF Reconnected, Goto, PinInv
    <2> QED
      BY <1>3, <2>1, <2>2 DEF Connected
  <1>4. ASSUME NEW l, l \notin {"idle", "select"}, Goto(o, l), UNCHANGED <<inLoop, att>>
        PROVE  PinInv'
    BY <1>1, <1>2, <1>4, FreeMove DEF Goto, PinInv
  <1>5. CASE Lock(o)
    BY <1>4, <1>5 DEF Lock, Reconnected, ReconnectFails, StartConnecting
  <1>6. CASE Dial(o)
    BY <1>3, <1>4, <1>6 DEF Dial
  <1>7. CASE DialOk(o)
    BY <1>4, <1>7 DEF DialOk, opVars
  <1>8. CASE Adopt(o)
    BY <1>3, <1>8 DEF Adopt
  <1>9. CASE DialFails(o)
    <2>1. CASE EnterLoop(o) /\ UNCHANGED att
      <3>1. /\ pc' = [pc EXCEPT ![o] = "pick"] /\ DOMAIN inLoop' = Op
            /\ \A q \in Op \ {o} : inLoop'[q] = inLoop[q]
        BY <2>1 DEF EnterLoop, Goto, PinInv
      <3> QED
        BY <1>1, <1>2, <2>1, <3>1, FreeMove DEF PinInv
    <2> QED
      BY <1>4, <1>9, <2>1 DEF DialFails, ReconnectFails
  <1> QED
    BY <1>5, <1>6, <1>7, <1>8, <1>9 DEF ReconnectStep

LEMMA OpPin ==
    ASSUME PinInv, NEW o \in Op, OpStep(o) \/ Cancel(o) PROVE PinInv'
  <1>1. CASE Pick(o)
    <2>1. kind[o] # "pinned" /\ DOMAIN att = Op /\ DOMAIN inLoop = Op
      BY <1>1 DEF Pick, PinInv, Placed, Ended
    <2>2. /\ \E l \in {"sent", "failed"} : pc' = [pc EXCEPT ![o] = l]
          /\ DOMAIN att' = Op /\ \A q \in Op \ {o} : att'[q] = att[q]
      BY <1>1, <2>1, PostLeaves DEF Pick
    <2>3. UNCHANGED <<kind, target, inLoop>>
      BY <1>1 DEF Pick
    <2> QED
      BY <2>1, <2>2, <2>3, FreeMove
  <1>2. CASE RouteFailed(o)
    <2>1. CASE kind[o] = "pinned" /\ Goto(o, "err") /\ UNCHANGED inLoop
      BY <1>2, <2>1, EndMove DEF RouteFailed, Goto, Ended
    <2>2. CASE kind[o] = "preferred" /\ EnterLoop(o)
      <3>1. /\ pc' = [pc EXCEPT ![o] = "pick"] /\ DOMAIN inLoop' = Op
            /\ \A q \in Op \ {o} : inLoop'[q] = inLoop[q]
        BY <2>2 DEF EnterLoop, Goto, PinInv
      <3>2. UNCHANGED <<kind, target, att>> /\ DOMAIN att = Op
        BY <1>2 DEF RouteFailed, PinInv
      <3> QED
        BY <2>2, <3>1, <3>2, FreeMove
    <2> QED
      BY <1>2, <2>1, <2>2 DEF RouteFailed
  <1>3. CASE LoopFailed(o)
    <2>1. kind[o] # "pinned" /\ UNCHANGED <<kind, target, inLoop, att>>
      BY <1>3 DEF LoopFailed, PinInv, Placed, opVars
    <2>2. pc' = [pc EXCEPT ![o] = "guard"] \/ pc' = [pc EXCEPT ![o] = "err"]
      BY <1>3 DEF LoopFailed, Goto
    <2> QED
      BY <2>1, <2>2, FreeMove DEF PinInv
  <1>4. CASE RequestFails(o) \/ Cancel(o)
    <2>1. \E l \in {"failed", "cancelled"} : pc' = [pc EXCEPT ![o] = l]
      BY <1>4 DEF RequestFails, Cancel, Goto
    <2>2. UNCHANGED <<kind, target, inLoop, att>> /\ (~inLoop[o] \/ kind[o] # "pinned")
      BY <1>4 DEF RequestFails, Cancel, opVars, PinInv, Placed
    <2> QED
      BY <2>1, <2>2, EndMove DEF Ended
  <1> QED
    BY <1>1, <1>2, <1>3, <1>4, SelectPin, ReconnectPin DEF OpStep

LEMMA WirePin ==
    ASSUME PinInv, NEW o \in Op, NEW i \in 1..Len(att[o]), Transmit(o, i) \/ Reply(o, i)
    PROVE  PinInv'
  <1>1. PICK p : att' = [att EXCEPT ![o] = [att[o] EXCEPT ![i].at = p]]
    BY DEF Transmit, Reply
  <1>2. /\ UNCHANGED <<kind, target, inLoop>> /\ o \in Actor
        /\ pc' = pc \/ pc' = [pc EXCEPT ![o] = "ok"]
    BY DEF Transmit, Reply, Goto, Actor
  <1>3. DOMAIN att' = Op /\ \A q \in Op \ {o} : att'[q] = att[q]
    BY <1>1 DEF PinInv
  <1>4. att'[o] = [att[o] EXCEPT ![i].at = p]
    BY <1>1 DEF PinInv
  <1>5. pc[o] \notin {"idle", "select"}
    <2> SUFFICES ASSUME pc[o] \in {"idle", "select"} PROVE FALSE
      OBVIOUS
    <2>1. att[o] = <<>>
      BY DEF PinInv, Placed
    <2> QED
      BY <2>1
  <1>6. ASSUME kind[o] = "pinned" PROVE OnceTo(att'[o], target[o])
    <2>1. OnceTo(att[o], target[o])
      BY <1>6 DEF PinInv, Placed
    <2>2. OnceTo([att[o] EXCEPT ![i].at = p], target[o])
      BY <2>1, MarkedOnce
    <2> QED
      BY <1>4, <2>2
  <1>7. /\ DOMAIN pc' = Actor /\ \A q \in Op \ {o} : pc'[q] = pc[q]
        /\ pc'[o] = pc[o] \/ pc'[o] = "ok"
    BY <1>2 DEF PinInv, Actor
  <1>8. Placed(o)'
    BY <1>2, <1>5, <1>6, <1>7 DEF PinInv, Placed, Ended
  <1> QED
    BY <1>2, <1>3, <1>7, <1>8, OneOpMoves DEF PinInv

LEMMA HeartbeatPin ==
    ASSUME PinInv, NEW a \in Heartbeat,
           HeartbeatTick(a) \/ HeartbeatProbe(a) \/ ReconnectStep(a)
    PROVE  PinInv'
  <1>1. a \notin Op
    BY RoundTripAssumption
  <1>2. UNCHANGED <<kind, target, inLoop, att>>
    BY <1>1 DEF HeartbeatTick, HeartbeatProbe, ReconnectStep, Lock, Dial, DialOk, Adopt,
       DialFails, Connected, Specific, opVars
  <1>3. \E l : pc' = [pc EXCEPT ![a] = l]
    BY <1>1 DEF HeartbeatTick, HeartbeatProbe, ReconnectStep, Lock, Dial, DialOk, Adopt,
       DialFails, Connected, Specific, Reconnected, ReconnectFails, StartConnecting, Goto
  <1> QED
    BY <1>2, <1>3, HeartbeatMove

LEMMA NextPin == PinInv /\ [Next]_vars => PinInv'
  <1> SUFFICES ASSUME PinInv, [Next]_vars PROVE PinInv'
    OBVIOUS
  <1>1. ASSUME UNCHANGED <<pc, kind, target, inLoop, att>> PROVE PinInv'
    BY <1>1 DEF PinInv, Placed
  <1>2. ASSUME NEW c \in Conn, Break(c) PROVE PinInv'
    BY <1>1, <1>2 DEF Break, opVars
  <1>3. CASE UNCHANGED vars
    BY <1>1, <1>3 DEF vars, opVars
  <1> QED
    BY <1>2, <1>3, BeginPin, OpPin, WirePin, HeartbeatPin DEF Next

\* A request pinned to an address (a transaction's, a cursor's) is sent once at
\* most and to that address, for every policy and retry limit and whatever happens
\* to the connections.
THEOREM PinnedOnce == Spec => []PinnedStaysPut
  <1>1. PinInv => PinnedStaysPut
    <2> SUFFICES ASSUME PinInv, NEW o \in Op, kind[o] = "pinned"
                 PROVE  /\ Len(att[o]) <= 1
                        /\ \A i \in 1..Len(att[o]) : att[o][i].conn[1] = target[o]
      BY DEF PinnedStaysPut
    <2>1. OnceTo(att[o], target[o])
      BY DEF PinInv, Placed
    <2>2. CASE att[o] = <<>>
      BY <2>2
    <2>3. ASSUME NEW r, att[o] = <<r>>, r.conn[1] = target[o]
          PROVE  /\ Len(att[o]) <= 1
                 /\ \A i \in 1..Len(att[o]) : att[o][i].conn[1] = target[o]
      BY <2>3
    <2> QED
      BY <2>1, <2>2, <2>3 DEF OnceTo
  <1> QED
    BY <1>1, InitPin, NextPin, PTL DEF Spec
----------------------------------------------------------------------------
(* An operation that the policy refuses to retry *)

\* s has one element at most.
AtMostOne(s) == s = <<>> \/ s = <<s[1]>>

Refused(o) == kind[o] = "default" /\ ShouldRetry(o) = {FALSE}

\* Such an operation goes from its one attempt to its end, never to a reconnect.
Sole(o) ==
    /\ pc[o] = "idle" => att[o] = <<>>
    /\ Refused(o) => /\ inLoop[o]
                     /\ pc[o] \in {"pick", "sent", "failed"} \cup Ended
                     /\ pc[o] = "pick" => att[o] = <<>>
                     /\ AtMostOne(att[o])

SoleInv ==
    /\ DOMAIN pc = Actor /\ DOMAIN kind = Op /\ DOMAIN readOnly = Op
    /\ DOMAIN inLoop = Op /\ DOMAIN att = Op
    /\ \A o \in Op : Sole(o) /\ (pc[o] = "idle" => kind[o] = None)

LEMMA InitSole == Init => SoleInv
  BY RoundTripAssumption DEF Init, SoleInv, Sole, Refused, Actor

\* A step that leaves the route of every operation but o alone, and o as it should be.
LEMMA OneSole ==
    ASSUME SoleInv, NEW o \in Op,
           DOMAIN pc' = Actor, DOMAIN kind' = Op, DOMAIN readOnly' = Op,
           DOMAIN inLoop' = Op, DOMAIN att' = Op,
           \A q \in Op \ {o} : /\ pc'[q] = pc[q] /\ kind'[q] = kind[q]
                                /\ readOnly'[q] = readOnly[q] /\ inLoop'[q] = inLoop[q]
                                /\ att'[q] = att[q],
           Sole(o)', pc'[o] = "idle" => kind'[o] = None
    PROVE  SoleInv'
  <1>1. ASSUME NEW q \in Op \ {o} PROVE Sole(q)' /\ (pc'[q] = "idle" => kind'[q] = None)
    <2>1. Refused(q)' <=> Refused(q)
      BY DEF Refused, ShouldRetry
    <2> QED
      BY <2>1 DEF SoleInv, Sole
  <1> QED
    BY <1>1 DEF SoleInv

\* An operation that may be retried, or has a route, may go anywhere but back.
LEMMA FreeSole ==
    ASSUME SoleInv, NEW o \in Op, NEW l, l # "idle", ~Refused(o),
           pc' = [pc EXCEPT ![o] = l], UNCHANGED <<kind, readOnly>>,
           DOMAIN inLoop' = Op, DOMAIN att' = Op,
           \A q \in Op \ {o} : inLoop'[q] = inLoop[q] /\ att'[q] = att[q]
    PROVE  SoleInv'
  <1>1. o \in Actor /\ DOMAIN pc' = Actor /\ pc'[o] = l /\ \A q \in Op \ {o} : pc'[q] = pc[q]
    BY DEF SoleInv, Actor
  <1>2. Refused(o)' <=> Refused(o)
    BY DEF Refused, ShouldRetry
  <1>3. Sole(o)'
    BY <1>1, <1>2 DEF Sole
  <1> QED
    BY <1>1, <1>3, OneSole DEF SoleInv

\* Any operation may wait, fail or end with the attempts it has.
LEMMA EndSole ==
    ASSUME SoleInv, NEW o \in Op, pc[o] # "idle", NEW l \in {"sent", "failed"} \cup Ended,
           pc' = [pc EXCEPT ![o] = l], UNCHANGED <<kind, readOnly, inLoop, att>>
    PROVE  SoleInv'
  <1>1. o \in Actor /\ DOMAIN pc' = Actor /\ pc'[o] = l /\ \A q \in Op \ {o} : pc'[q] = pc[q]
    BY DEF SoleInv, Actor
  <1>2. Refused(o)' <=> Refused(o)
    BY DEF Refused, ShouldRetry
  <1>3. Sole(o)'
    BY <1>1, <1>2 DEF Sole, SoleInv, Ended
  <1> QED
    BY <1>1, <1>3, OneSole DEF SoleInv, Ended

LEMMA BeginSole ==
    ASSUME SoleInv, NEW o \in Op, NEW k, NEW e, NEW r, Begin(o, k, e, r) PROVE SoleInv'
  <1>1. /\ o \in Actor /\ att[o] = <<>> /\ att' = att
        /\ kind' = [kind EXCEPT ![o] = k] /\ readOnly' = [readOnly EXCEPT ![o] = r]
    BY DEF Begin, SoleInv, Sole, Actor
  <1>2. CASE k = "default"
    <2>1. pc' = [pc EXCEPT ![o] = "pick"] /\ inLoop' = [inLoop EXCEPT ![o] = TRUE]
      BY <1>2 DEF Begin, EnterLoop, Goto
    <2>2. inLoop'[o] /\ pc'[o] = "pick"
      BY <1>1, <2>1 DEF SoleInv
    <2>3. Sole(o)'
      BY <1>1, <2>2 DEF Sole, AtMostOne
    <2>4. /\ DOMAIN pc' = Actor /\ DOMAIN kind' = Op /\ DOMAIN readOnly' = Op
          /\ DOMAIN inLoop' = Op /\ DOMAIN att' = Op
      BY <1>1, <2>1 DEF SoleInv
    <2>5. \A q \in Op \ {o} : /\ pc'[q] = pc[q] /\ kind'[q] = kind[q]
                              /\ readOnly'[q] = readOnly[q] /\ inLoop'[q] = inLoop[q]
                              /\ att'[q] = att[q]
      BY <1>1, <2>1 DEF SoleInv, Actor
    <2> QED
      BY <2>2, <2>3, <2>4, <2>5, OneSole
  <1>3. CASE k # "default"
    <2>1. pc' = [pc EXCEPT ![o] = "select"] /\ inLoop' = inLoop
      BY <1>3 DEF Begin, Goto
    <2>2. pc'[o] = "select" /\ kind'[o] = k
      BY <1>1, <2>1 DEF SoleInv
    <2>3. Sole(o)'
      BY <1>3, <2>2 DEF Sole, Refused
    <2>4. /\ DOMAIN pc' = Actor /\ DOMAIN kind' = Op /\ DOMAIN readOnly' = Op
          /\ DOMAIN inLoop' = Op /\ DOMAIN att' = Op
      BY <1>1, <2>1 DEF SoleInv
    <2>5. \A q \in Op \ {o} : /\ pc'[q] = pc[q] /\ kind'[q] = kind[q]
                              /\ readOnly'[q] = readOnly[q] /\ inLoop'[q] = inLoop[q]
                              /\ att'[q] = att[q]
      BY <1>1, <2>1 DEF SoleInv, Actor
    <2> QED
      BY <2>2, <2>3, <2>4, <2>5, OneSole
  <1> QED
    BY <1>2, <1>3

\* The first attempt of the loop is the only one of an operation that is refused.
LEMMA PickSole == ASSUME SoleInv, NEW o \in Op, Pick(o) PROVE SoleInv'
  <1>1. PICK c : Post(o, c, buf[o])
    BY DEF Pick
  <1>2. DOMAIN att = Op /\ UNCHANGED <<kind, readOnly, inLoop>>
    BY DEF Pick, SoleInv
  <1>3. PICK l \in {"sent", "failed"} : pc' = [pc EXCEPT ![o] = l]
    BY <1>1, <1>2, PostLeaves
  <1>4. DOMAIN att' = Op /\ \A q \in Op \ {o} : att'[q] = att[q]
    BY <1>1, <1>2, PostLeaves
  <1>5. CASE ~Refused(o)
    BY <1>2, <1>3, <1>4, <1>5, FreeSole DEF SoleInv
  <1>6. CASE Refused(o)
    <2>1. att[o] = <<>> /\ inLoop[o]
      BY <1>6 DEF Pick, SoleInv, Sole
    <2>2. PICK x : att'[o] = Append(<<>>, x)
      BY <1>1, <1>2, <2>1 DEF Post
    <2>3. AtMostOne(att'[o])
      <3>1. att'[o] = <<x>>
        BY <2>2
      <3> QED
        BY <3>1 DEF AtMostOne
    <2>4. /\ o \in Actor /\ DOMAIN pc' = Actor /\ pc'[o] = l
          /\ \A q \in Op \ {o} : pc'[q] = pc[q]
      BY <1>3 DEF SoleInv, Actor
    <2>5. Sole(o)'
      BY <1>2, <2>1, <2>3, <2>4 DEF Sole
    <2> QED
      BY <1>2, <1>4, <2>4, <2>5, OneSole DEF SoleInv
  <1> QED
    BY <1>5, <1>6

LEMMA OpSole ==
    ASSUME SoleInv, NEW o \in Op, OpStep(o) \/ Cancel(o) PROVE SoleInv'
  <1>0. DOMAIN att = Op /\ DOMAIN inLoop = Op
    BY DEF SoleInv
  <1>1. ASSUME NEW l, l # "idle", Goto(o, l), ~Refused(o), UNCHANGED <<kind, readOnly>>,
               UNCHANGED inLoop \/ inLoop' = [inLoop EXCEPT ![o] = TRUE],
               UNCHANGED att
        PROVE  SoleInv'
    BY <1>0, <1>1, FreeSole DEF Goto
  <1>2. ASSUME NEW c, Post(o, c, TRUE), ~Refused(o), UNCHANGED <<kind, readOnly, inLoop>>
        PROVE  SoleInv'
    BY <1>0, <1>2, PostLeaves, FreeSole
  <1>3. CASE Select(o)
    <2>1. ~Refused(o) /\ UNCHANGED <<kind, readOnly>>
      BY <1>3 DEF Select, SoleInv, Sole, Ended
    <2> QED
      BY <1>1, <1>2, <1>3, <2>1 DEF Select, EnterLoop
  <1>4. CASE RouteFailed(o)
    <2>1. ~Refused(o) /\ UNCHANGED <<kind, readOnly, att>>
      BY <1>4 DEF RouteFailed, SoleInv, Sole
    <2> QED
      BY <1>1, <1>4, <2>1 DEF RouteFailed, EnterLoop
  <1>5. CASE LoopFailed(o)
    <2>1. UNCHANGED <<kind, readOnly, inLoop, att>> /\ pc[o] = "failed"
      BY <1>5 DEF LoopFailed, opVars
    <2>2. CASE ~Refused(o)
      BY <1>1, <1>5, <2>1, <2>2 DEF LoopFailed
    <2>3. CASE Refused(o)
      <3>1. Goto(o, "err")
        BY <1>5, <2>3 DEF LoopFailed, Refused
      <3> QED
        BY <2>1, <3>1, EndSole DEF Goto, Ended
    <2> QED
      BY <2>2, <2>3
  <1>6. CASE RequestFails(o) \/ Cancel(o)
    <2>1. \E l \in {"failed", "cancelled"} : pc' = [pc EXCEPT ![o] = l]
      BY <1>6 DEF RequestFails, Cancel, Goto
    <2>2. UNCHANGED <<kind, readOnly, inLoop, att>> /\ pc[o] # "idle"
      BY <1>6 DEF RequestFails, Cancel, opVars
    <2> QED
      BY <2>1, <2>2, EndSole DEF Ended
  <1>7. CASE ReconnectStep(o)
    <2>1. ~Refused(o)
      BY <1>7 DEF ReconnectStep, Lock, Dial, DialOk, Adopt, DialFails, SoleInv, Sole, Ended
    <2>2. UNCHANGED <<kind, readOnly>>
      BY <1>7 DEF ReconnectStep, Lock, Dial, DialOk, Adopt, DialFails, opVars
    <2>3. ASSUME NEW c, Connected(o, c), UNCHANGED inLoop PROVE SoleInv'
      BY <1>1, <1>2, <2>1, <2>2, <2>3 DEF Connected, Reconnected
    <2>4. CASE Lock(o)
      BY <1>1, <2>1, <2>2, <2>4 DEF Lock, Reconnected, ReconnectFails, StartConnecting
    <2>5. CASE Dial(o)
      BY <1>1, <2>1, <2>2, <2>3, <2>5 DEF Dial
    <2>6. CASE DialOk(o)
      BY <1>1, <2>1, <2>2, <2>6 DEF DialOk, opVars
    <2>7. CASE Adopt(o)
      BY <2>3, <2>7 DEF Adopt
    <2>8. CASE DialFails(o)
      BY <1>1, <2>1, <2>2, <2>8 DEF DialFails, EnterLoop, ReconnectFails
    <2> QED
      BY <1>7, <2>4, <2>5, <2>6, <2>7, <2>8 DEF ReconnectStep
  <1> QED
    BY <1>3, <1>4, <1>5, <1>6, <1>7, PickSole DEF OpStep

LEMMA WireSole ==
    ASSUME SoleInv, NEW o \in Op, NEW i \in 1..Len(att[o]), Transmit(o, i) \/ Reply(o, i)
    PROVE  SoleInv'
  <1>1. PICK p : att' = [att EXCEPT ![o] = [att[o] EXCEPT ![i].at = p]]
    BY DEF Transmit, Reply
  <1>2. /\ UNCHANGED <<kind, readOnly, inLoop>> /\ o \in Actor
        /\ pc' = pc \/ pc' = [pc EXCEPT ![o] = "ok"]
    BY DEF Transmit, Reply, Goto, Actor
  <1>3. /\ DOMAIN att' = Op /\ \A q \in Op \ {o} : att'[q] = att[q]
        /\ att'[o] = [att[o] EXCEPT ![i].at = p]
    BY <1>1 DEF SoleInv
  <1>4. att[o] # <<>> /\ pc[o] # "idle"
    <2>1. att[o] # <<>>
      OBVIOUS
    <2> QED
      BY <2>1 DEF SoleInv, Sole
  <1>5. ASSUME Refused(o) PROVE AtMostOne(att'[o])
    <2>1. PICK r : att[o] = <<r>>
      BY <1>4, <1>5 DEF SoleInv, Sole, AtMostOne
    <2>2. i = 1
      BY <2>1
    <2>3. [att[o] EXCEPT ![i].at = p] = <<[r EXCEPT !.at = p]>>
      BY <2>1, <2>2
    <2> QED
      BY <1>3, <2>3 DEF AtMostOne
  <1>6. /\ DOMAIN pc' = Actor /\ \A q \in Op \ {o} : pc'[q] = pc[q]
        /\ pc'[o] = pc[o] \/ pc'[o] = "ok"
    BY <1>2 DEF SoleInv, Actor
  <1>7. Refused(o)' <=> Refused(o)
    BY <1>2 DEF Refused, ShouldRetry
  <1>8. Refused(o) => pc[o] # "pick"
    BY <1>4 DEF SoleInv, Sole
  <1>9. Sole(o)'
    BY <1>2, <1>4, <1>5, <1>6, <1>7, <1>8 DEF SoleInv, Sole, Ended
  <1> QED
    BY <1>2, <1>3, <1>4, <1>6, <1>9, OneSole DEF SoleInv

LEMMA HeartbeatSole ==
    ASSUME SoleInv, NEW a \in Heartbeat,
           HeartbeatTick(a) \/ HeartbeatProbe(a) \/ ReconnectStep(a)
    PROVE  SoleInv'
  <1>1. a \notin Op
    BY RoundTripAssumption
  <1>2. UNCHANGED <<kind, readOnly, inLoop, att>>
    BY <1>1 DEF HeartbeatTick, HeartbeatProbe, ReconnectStep, Lock, Dial, DialOk, Adopt,
       DialFails, Connected, Specific, opVars
  <1>3. PICK l : pc' = [pc EXCEPT ![a] = l]
    BY <1>1 DEF HeartbeatTick, HeartbeatProbe, ReconnectStep, Lock, Dial, DialOk, Adopt,
       DialFails, Connected, Specific, Reconnected, ReconnectFails, StartConnecting, Goto
  <1>4. DOMAIN pc' = Actor /\ \A q \in Op : pc'[q] = pc[q]
    BY <1>1, <1>3 DEF SoleInv
  <1> QED
    BY <1>2, <1>4 DEF SoleInv, Sole, Refused, ShouldRetry

LEMMA NextSole == SoleInv /\ [Next]_vars => SoleInv'
  <1> SUFFICES ASSUME SoleInv, [Next]_vars PROVE SoleInv'
    OBVIOUS
  <1>1. ASSUME UNCHANGED <<pc, kind, readOnly, inLoop, att>> PROVE SoleInv'
    BY <1>1 DEF SoleInv, Sole, Refused, ShouldRetry
  <1>2. ASSUME NEW c \in Conn, Break(c) PROVE SoleInv'
    BY <1>1, <1>2 DEF Break, opVars
  <1>3. CASE UNCHANGED vars
    BY <1>1, <1>3 DEF vars, opVars
  <1> QED
    BY <1>2, <1>3, BeginSole, OpSole, WireSole, HeartbeatSole DEF Next

\* An operation without a route that the policy refuses to retry is executed once at
\* most, for every number of operations, endpoints and retries, and whatever the
\* heartbeat and the other operations do to the connections meanwhile.
THEOREM PolicyBounds == Spec => []PolicyBoundsLoop
  <1>1. SoleInv => PolicyBoundsLoop
    <2> SUFFICES ASSUME SoleInv, NEW o \in Op, Refused(o) PROVE Executions(o) <= 1
      BY DEF PolicyBoundsLoop, Refused
    <2> DEFINE E == {i \in 1..Len(att[o]) : att[o][i].at \in {"got", "answered"}}
    <2>1. AtMostOne(att[o])
      BY DEF SoleInv, Sole
    <2>2. 1..Len(att[o]) \subseteq {1}
      <3>1. CASE att[o] = <<>>
        BY <3>1
      <3>2. CASE att[o] = <<att[o][1]>>
        <4>1. Len(att[o]) = 1
          BY <3>2
        <4> QED
          BY <4>1
      <3> QED
        BY <2>1, <3>1, <3>2 DEF AtMostOne
    <2>3. \A i, j \in E : i = j
      BY <2>2
    <2>4. Cardinality(E) <= 1
      BY <2>3, AtMostOneMember
    <2> QED
      BY <2>4 DEF Executions
  <1> QED
    BY <1>1, InitSole, NextSole, PTL DEF Spec

----------------------------------------------------------------------------
(* Who may replace the active connection *)

Connecting == {"next", "dial", "adopt"}

JobFields == {"failed", "try", "left", "made"}

\* The numbers of the connections to an endpoint stay below their count, so a new
\* connection is never an old one again.
PoolInv ==
    /\ IsFiniteSet(pool) /\ up \subseteq pool /\ active \in pool
    /\ \A c \in pool : c[2] \in Nat /\ c[2] <= Cardinality({d \in pool : d[1] = c[1]})

\* reconnect_guard is held exactly by the tasks in connect_any, and while one holds
\* it the active connection is broken or at the address that task saw fail.
GuardInv ==
    /\ DOMAIN pc = Actor /\ DOMAIN job = Actor /\ DOMAIN inLoop = Op
    /\ \A a \in Actor : DOMAIN job[a] = JobFields
    /\ \A o \in Op : /\ pc[o] \in {"idle", "select"} => ~inLoop[o]
                     /\ pc[o] = "guard" => inLoop[o]
    /\ guard \in Actor \cup {None}
    /\ \A a \in Actor : guard = a <=> pc[a] \in Connecting /\ ~Specific(a)
    /\ \A a \in Actor : guard = a => active \notin up \/ active[1] = job[a].failed
    /\ \A a \in Actor : pc[a] = "adopt" => <<job[a].try, job[a].made>> \in pool

LEMMA InitGuard == Init => PoolInv /\ GuardInv
  <1> SUFFICES ASSUME Init PROVE PoolInv /\ GuardInv
    OBVIOUS
  <1>1. GuardInv
    BY RoundTripAssumption DEF Init, GuardInv, NoJob, JobFields, Connecting, Actor
  <1>2. pool = {<<Start, 1>>} /\ up = pool /\ active \in pool
    BY DEF Init
  <1>3. {d \in pool : d[1] = Start} = {<<Start, 1>>}
    BY <1>2
  <1>4. IsFiniteSet(pool) /\ Cardinality({d \in pool : d[1] = Start}) = 1
    BY <1>2, <1>3, FS_Singleton
  <1>5. PoolInv
    BY <1>2, <1>4 DEF PoolInv
  <1> QED
    BY <1>1, <1>5

\* A new connection has a number that no connection to the endpoint had.
LEMMA FreshNumber ==
    ASSUME PoolInv, NEW e, NEW n, n = Cardinality({c \in pool : c[1] = e}) + 1,
           pool' = pool \cup {<<e, n>>}, up' = up \cup {<<e, n>>}, active' = active
    PROVE  <<e, n>> \notin pool /\ PoolInv'
  <1> DEFINE At(x)  == {d \in pool : d[1] = x}
             Att(x) == {d \in pool' : d[1] = x}
  <1>1. \A x : IsFiniteSet(At(x)) /\ Cardinality(At(x)) \in Nat
    <2> TAKE x
    <2>1. IsFiniteSet(At(x))
      BY FS_Subset DEF PoolInv
    <2> QED
      BY <2>1, FS_CardinalityType
  <1>2. n \in Nat /\ n = Cardinality(At(e)) + 1
    <2>1. Cardinality(At(e)) \in Nat
      BY <1>1
    <2>2. n = Cardinality(At(e)) + 1
      OBVIOUS
    <2> HIDE DEF At
    <2> QED
      BY <2>1, <2>2
  <1>3. <<e, n>> \notin pool
    <2> SUFFICES ASSUME <<e, n>> \in pool PROVE FALSE
      OBVIOUS
    <2>1. <<e, n>>[2] <= Cardinality({d \in pool : d[1] = <<e, n>>[1]})
      BY DEF PoolInv
    <2>2. n <= Cardinality(At(e))
      BY <2>1
    <2> QED
      BY <1>1, <1>2, <2>2
  <1>4. Att(e) = At(e) \cup {<<e, n>>}
    OBVIOUS
  <1>5. Cardinality(Att(e)) = n
    <2>1. <<e, n>> \notin At(e)
      BY <1>3
    <2>2. Cardinality(At(e) \cup {<<e, n>>}) = Cardinality(At(e)) + 1
      <3>1. IsFiniteSet(At(e))
        BY <1>1
      <3> HIDE DEF At
      <3> QED
        BY <2>1, <3>1, FS_AddElement
    <2> QED
      BY <1>2, <1>4, <2>2
  <1>6. \A x : x # e => Att(x) = At(x)
    OBVIOUS
  <1>7. IsFiniteSet(pool')
    BY FS_AddElement DEF PoolInv
  <1>8. ASSUME NEW c \in pool' PROVE c[2] \in Nat /\ c[2] <= Cardinality(Att(c[1]))
    <2>1. CASE c = <<e, n>>
      <3>1. c[1] = e /\ c[2] = n
        BY <2>1
      <3> QED
        BY <1>2, <1>5, <3>1
    <2>2. CASE c \in pool
      <3>1. c[2] \in Nat /\ c[2] <= Cardinality(At(c[1]))
        BY <2>2 DEF PoolInv
      <3>2. CASE c[1] = e
        <4>1. c[2] <= Cardinality(At(e)) /\ Cardinality(At(e)) \in Nat
          BY <1>1, <3>1, <3>2
        <4>2. c[2] <= n
          <5> HIDE DEF At
          <5> QED
            BY <1>2, <3>1, <4>1
        <4> QED
          BY <1>5, <3>1, <3>2, <4>2
      <3>3. CASE c[1] # e
        BY <1>6, <3>1, <3>3
      <3> QED
        BY <3>2, <3>3
    <2> QED
      BY <1>8, <2>1, <2>2
  <1> QED
    BY <1>3, <1>7, <1>8 DEF PoolInv

\* A step of the task a.
LEMMA TaskMoves ==
    ASSUME GuardInv, NEW a \in Actor, NEW l, pc' = [pc EXCEPT ![a] = l],
           DOMAIN job' = Actor, DOMAIN job'[a] = JobFields, DOMAIN inLoop' = Op,
           \A b \in Actor \ {a} : job'[b] = job[b] /\ (guard' = b <=> guard = b),
           \A o \in Op \ {a} : inLoop'[o] = inLoop[o],
           a \in Op => /\ l \in {"idle", "select"} => ~inLoop'[a]
                       /\ l = "guard" => inLoop'[a],
           guard' \in Actor \cup {None},
           guard' = a <=> l \in Connecting /\ ~Specific(a)',
           l = "adopt" => <<job'[a].try, job'[a].made>> \in pool', pool \subseteq pool',
           \A b \in Actor : guard' = b => active' \notin up' \/ active'[1] = job'[b].failed
    PROVE  GuardInv'
  <1>1. DOMAIN pc' = Actor /\ pc'[a] = l /\ \A b \in Actor \ {a} : pc'[b] = pc[b]
    BY DEF GuardInv
  <1>2. \A b \in Actor : DOMAIN job'[b] = JobFields
    BY DEF GuardInv
  <1>3. \A o \in Op : /\ pc'[o] \in {"idle", "select"} => ~inLoop'[o]
                      /\ pc'[o] = "guard" => inLoop'[o]
    BY <1>1 DEF GuardInv, Actor
  <1>4. \A b \in Actor : guard' = b <=> pc'[b] \in Connecting /\ ~Specific(b)'
    <2> TAKE b \in Actor
    <2>1. CASE b = a
      BY <1>1, <2>1
    <2>2. CASE b # a
      <3>1. Specific(b)' <=> Specific(b)
        BY <2>2 DEF Specific
      <3> QED
        BY <1>1, <2>2, <3>1 DEF GuardInv
    <2> QED
      BY <2>1, <2>2
  <1>5. \A b \in Actor : pc'[b] = "adopt" => <<job'[b].try, job'[b].made>> \in pool'
    BY <1>1 DEF GuardInv
  <1> QED
    BY <1>1, <1>2, <1>3, <1>4, <1>5 DEF GuardInv

\* A step outside connect_any and connect_specific leaves the guard alone.
LEMMA OutsideMove ==
    ASSUME GuardInv, NEW a \in Actor, NEW l, pc' = [pc EXCEPT ![a] = l],
           pc[a] \notin Connecting, l \notin Connecting,
           DOMAIN job' = Actor, DOMAIN job'[a] = JobFields, DOMAIN inLoop' = Op,
           \A b \in Actor \ {a} : job'[b] = job[b],
           \A o \in Op \ {a} : inLoop'[o] = inLoop[o],
           a \in Op => /\ l \in {"idle", "select"} => ~inLoop'[a]
                       /\ l = "guard" => inLoop'[a],
           UNCHANGED <<pool, up, active, guard>>
    PROVE  GuardInv'
  <1>1. guard # a
    BY DEF GuardInv
  <1>2. \A b \in Actor : guard' = b => active' \notin up' \/ active'[1] = job'[b].failed
    BY <1>1 DEF GuardInv
  <1>3. l # "adopt" /\ guard' \in Actor \cup {None}
    BY DEF Connecting, GuardInv
  <1> QED
    BY <1>1, <1>2, <1>3, TaskMoves

\* A task that holds no guard leaves connect_specific.
LEMMA SpecificMove ==
    ASSUME GuardInv, NEW a \in Op, Specific(a), NEW l, l \notin Connecting,
           l \notin {"idle", "select", "guard"}, pc' = [pc EXCEPT ![a] = l], Leave(a),
           DOMAIN inLoop' = Op, \A o \in Op \ {a} : inLoop'[o] = inLoop[o],
           UNCHANGED <<pool, up, active, guard>>
    PROVE  GuardInv'
  <1>1. a \in Actor /\ guard # a
    BY DEF GuardInv, Actor
  <1>2. /\ DOMAIN job' = Actor /\ DOMAIN job'[a] = JobFields
        /\ \A b \in Actor \ {a} : job'[b] = job[b]
    BY <1>1 DEF Leave, NoJob, JobFields, GuardInv
  <1>3. \A b \in Actor : guard' = b => active' \notin up' \/ active'[1] = job'[b].failed
    BY <1>1, <1>2 DEF GuardInv
  <1>4. l # "adopt" /\ guard' \in Actor \cup {None}
    BY DEF Connecting, GuardInv
  <1> QED
    BY <1>1, <1>2, <1>3, <1>4, TaskMoves

\* The task that holds reconnect_guard gives it back.
LEMMA ReleaseMove ==
    ASSUME GuardInv, NEW a \in Actor, guard = a, guard' = None, NEW l, l \notin Connecting,
           a \in Op => l \notin {"idle", "select", "guard"},
           pc' = [pc EXCEPT ![a] = l], Leave(a), UNCHANGED <<inLoop, pool>>
    PROVE  GuardInv'
  <1>1. \A b \in Actor : guard' # b
    BY RoundTripAssumption DEF Actor
  <1>2. /\ DOMAIN job' = Actor /\ DOMAIN job'[a] = JobFields
        /\ \A b \in Actor \ {a} : job'[b] = job[b]
    BY DEF Leave, NoJob, JobFields, GuardInv
  <1>3. l # "adopt" /\ DOMAIN inLoop' = Op
    BY DEF Connecting, GuardInv
  <1> QED
    BY <1>1, <1>2, <1>3, TaskMoves

LEMMA ConnectedGuard ==
    ASSUME GuardInv, NEW a \in Actor, pc[a] \in Connecting, NEW c, Connected(a, c),
           DOMAIN att = Op, UNCHANGED <<inLoop, pool, up>>
    PROVE  GuardInv'
  <1>1. CASE Specific(a)
    <2>1. a \in Op /\ Post(a, c, TRUE) /\ Leave(a) /\ UNCHANGED <<active, guard>>
      BY <1>1 DEF Connected, Specific
    <2>2. PICK l \in {"sent", "failed"} : pc' = [pc EXCEPT ![a] = l]
      BY <2>1, PostLeaves
    <2>3. DOMAIN inLoop' = Op
      BY DEF GuardInv
    <2> QED
      BY <1>1, <2>1, <2>2, <2>3, SpecificMove DEF Connecting
  <1>2. CASE ~Specific(a)
    <2>1. guard = a
      BY <1>2 DEF GuardInv
    <2>2. guard' = None /\ Leave(a) /\ Goto(a, IF a \in Op THEN "pick" ELSE "idle")
      BY <1>2 DEF Connected, Reconnected
    <2>3. CASE a \in Op
      BY <2>1, <2>2, <2>3, ReleaseMove DEF Goto, Connecting
    <2>4. CASE a \notin Op
      BY <2>1, <2>2, <2>4, ReleaseMove DEF Goto, Connecting
    <2> QED
      BY <2>3, <2>4
  <1> QED
    BY <1>1, <1>2

\* Under reconnect_guard nothing is done, or a takes the guard, having found the
\* active connection broken or at the failed address.
LEMMA LockGuard == ASSUME GuardInv, NEW a \in Actor, Lock(a) PROVE GuardInv'
  <1>1. /\ pc[a] = "guard" /\ guard = None /\ UNCHANGED <<inLoop, pool, up, active>>
        /\ DOMAIN inLoop = Op /\ (a \in Op => inLoop[a])
    BY DEF Lock, GuardInv
  <1>2. ASSUME NEW l, l \notin Connecting, a \in Op => l \notin {"idle", "select", "guard"},
               Goto(a, l), Leave(a), UNCHANGED guard
        PROVE  GuardInv'
    <2>1. /\ DOMAIN job' = Actor /\ DOMAIN job'[a] = JobFields
          /\ \A b \in Actor \ {a} : job'[b] = job[b]
      BY <1>2 DEF Leave, NoJob, JobFields, GuardInv
    <2>2. pc[a] \notin Connecting
      BY <1>1 DEF Connecting
    <2> QED
      BY <1>1, <1>2, <2>1, <2>2, OutsideMove DEF Goto
  <1>3. CASE Reconnected(a) /\ UNCHANGED guard
    BY <1>2, <1>3 DEF Reconnected, Connecting
  <1>4. CASE ReconnectFails(a) /\ UNCHANGED guard
    BY <1>2, <1>4 DEF ReconnectFails, Connecting
  <1>5. CASE ~MovedOn(a) /\ StartConnecting(a)
    <2>1. /\ guard' = a /\ pc' = [pc EXCEPT ![a] = "next"] /\ DOMAIN job' = Actor
          /\ \A b \in Actor \ {a} : job'[b] = job[b]
      BY <1>5 DEF StartConnecting, Goto, GuardInv
    <2>2. DOMAIN job'[a] = JobFields /\ job'[a].failed = job[a].failed
      BY <1>5 DEF StartConnecting, GuardInv, JobFields
    <2>3. active' \notin up' \/ active'[1] = job'[a].failed
      BY <1>1, <1>5, <2>2 DEF MovedOn
    <2>4. ~Specific(a)'
      BY <1>1 DEF Specific
    <2>5. \A b \in Actor \ {a} : guard' = b <=> guard = b
      BY <1>1, <2>1, RoundTripAssumption DEF Actor
    <2> QED
      BY <1>1, <2>1, <2>2, <2>3, <2>4, <2>5, TaskMoves DEF Connecting
  <1> QED
    BY <1>3, <1>4, <1>5 DEF Lock

LEMMA DialGuard ==
    ASSUME GuardInv, DOMAIN att = Op, NEW a \in Actor, Dial(a) PROVE GuardInv'
  <1>1. pc[a] = "next" /\ UNCHANGED <<inLoop, pool, up>> /\ DOMAIN inLoop = Op
    BY DEF Dial, GuardInv
  <1>2. ASSUME NEW c, Connected(a, c) PROVE GuardInv'
    BY <1>1, <1>2, ConnectedGuard DEF Connecting
  <1>3. CASE Goto(a, "dial") /\ UNCHANGED <<active, guard, job>>
    <2>1. Specific(a)' <=> Specific(a)
      BY <1>1 DEF Specific
    <2>2. guard' = a <=> ~Specific(a)'
      BY <1>1, <1>3, <2>1 DEF GuardInv, Connecting
    <2>3. /\ pc' = [pc EXCEPT ![a] = "dial"] /\ guard' \in Actor \cup {None}
          /\ DOMAIN job' = Actor /\ DOMAIN job'[a] = JobFields
      BY <1>3 DEF Goto, GuardInv
    <2>4. \A b \in Actor : guard' = b => active' \notin up' \/ active'[1] = job'[b].failed
      BY <1>1, <1>3 DEF GuardInv
    <2> QED
      BY <1>1, <1>3, <2>2, <2>3, <2>4, TaskMoves DEF Connecting
  <1> QED
    BY <1>2, <1>3 DEF Dial

\* The connection made is none that was active before.
LEMMA DialOkGuard ==
    ASSUME PoolInv, GuardInv, NEW a \in Actor, DialOk(a) PROVE PoolInv' /\ GuardInv'
  <1> DEFINE e == job[a].try
             n == Cardinality({c \in pool : c[1] = e}) + 1
  <1>1. /\ pool' = pool \cup {<<e, n>>} /\ up' = up \cup {<<e, n>>}
        /\ UNCHANGED <<inLoop, active, guard>> /\ pc[a] = "dial"
        /\ pc' = [pc EXCEPT ![a] = "adopt"] /\ job' = [job EXCEPT ![a].made = n]
    BY DEF DialOk, Goto, opVars
  <1>2. <<e, n>> \notin pool /\ PoolInv'
    BY <1>1, FreshNumber
  <1> HIDE DEF n
  <1>3. /\ DOMAIN job' = Actor /\ \A b \in Actor \ {a} : job'[b] = job[b]
        /\ job'[a] = [job[a] EXCEPT !.made = n] /\ DOMAIN job[a] = JobFields
    BY <1>1 DEF GuardInv
  <1>4. /\ DOMAIN job'[a] = JobFields /\ job'[a].failed = job[a].failed
        /\ job'[a].try = e /\ job'[a].made = n
    BY <1>3 DEF JobFields
  <1>5. guard' = a <=> ~Specific(a)'
    BY <1>1 DEF GuardInv, Connecting, Specific
  <1>6. active # <<e, n>>
    BY <1>2 DEF PoolInv
  <1>7. \A b \in Actor : guard' = b => active' \notin up' \/ active'[1] = job'[b].failed
    BY <1>1, <1>3, <1>4, <1>6 DEF GuardInv
  <1>8. guard' \in Actor \cup {None} /\ DOMAIN inLoop' = Op
    BY <1>1 DEF GuardInv
  <1>9. GuardInv'
    <2>1. <<job'[a].try, job'[a].made>> \in pool' /\ pool \subseteq pool'
      BY <1>1, <1>4
    <2>2. guard' = a <=> "adopt" \in Connecting /\ ~Specific(a)'
      BY <1>5 DEF Connecting
    <2>3. \A b \in Actor \ {a} : job'[b] = job[b] /\ (guard' = b <=> guard = b)
      BY <1>1, <1>3
    <2>4. pc' = [pc EXCEPT ![a] = "adopt"] /\ \A o \in Op \ {a} : inLoop'[o] = inLoop[o]
      BY <1>1
    <2> HIDE DEF e
    <2> QED
      BY <1>3, <1>4, <1>7, <1>8, <2>1, <2>2, <2>3, <2>4, TaskMoves
  <1> QED
    BY <1>2, <1>9

LEMMA DialFailsGuard == ASSUME GuardInv, NEW a \in Actor, DialFails(a) PROVE GuardInv'
  <1>1. pc[a] = "dial" /\ UNCHANGED <<pool, up, active>> /\ DOMAIN inLoop = Op
    BY DEF DialFails, GuardInv
  <1>2. CASE Specific(a) /\ EnterLoop(a) /\ Leave(a) /\ UNCHANGED guard
    <2>1. a \in Op /\ DOMAIN inLoop' = Op /\ \A o \in Op \ {a} : inLoop'[o] = inLoop[o]
      BY <1>1, <1>2 DEF Specific, EnterLoop
    <2> QED
      BY <1>1, <1>2, <2>1, SpecificMove DEF EnterLoop, Goto, Connecting
  <1>3. CASE /\ ~Specific(a) /\ Goto(a, "next") /\ UNCHANGED <<guard, inLoop>>
             /\ job' = [job EXCEPT ![a].try = After(@), ![a].left = @ - 1]
    <2>1. DOMAIN job' = Actor /\ \A b \in Actor \ {a} : job'[b] = job[b]
      BY <1>3 DEF GuardInv
    <2>2. DOMAIN job'[a] = JobFields /\ job'[a].failed = job[a].failed
      BY <1>3 DEF GuardInv, JobFields
    <2>3. guard' = a /\ ~Specific(a)'
      BY <1>1, <1>3 DEF GuardInv, Connecting, Specific
    <2>4. \A b \in Actor : guard' = b => active' \notin up' \/ active'[1] = job'[b].failed
      BY <1>1, <1>3, <2>2, <2>3 DEF GuardInv
    <2>5. guard' = a <=> "next" \in Connecting /\ ~Specific(a)'
      BY <2>3 DEF Connecting
    <2>6. pc' = [pc EXCEPT ![a] = "next"] /\ guard' \in Actor \cup {None}
      BY <1>3, <2>3 DEF Goto
    <2> QED
      BY <1>1, <1>3, <2>1, <2>2, <2>4, <2>5, <2>6, TaskMoves
  <1>4. CASE ~Specific(a) /\ ReconnectFails(a) /\ guard' = None /\ UNCHANGED inLoop
    <2>1. guard = a
      BY <1>1, <1>4 DEF GuardInv, Connecting
    <2>2. CASE a \in Op
      BY <1>1, <1>4, <2>1, <2>2, ReleaseMove DEF ReconnectFails, Goto, Connecting
    <2>3. CASE a \notin Op
      BY <1>1, <1>4, <2>1, <2>3, ReleaseMove DEF ReconnectFails, Goto, Connecting
    <2> QED
      BY <2>2, <2>3
  <1> QED
    BY <1>2, <1>3, <1>4 DEF DialFails

LEMMA ReconnectGuard ==
    ASSUME PoolInv, GuardInv, DOMAIN att = Op, NEW a \in Actor, ReconnectStep(a)
    PROVE  PoolInv' /\ GuardInv'
  <1>1. ASSUME UNCHANGED <<pool, up>>, active' \in pool PROVE PoolInv'
    BY <1>1 DEF PoolInv
  <1>2. CASE Lock(a)
    <2>1. PoolInv'
      BY <1>1, <1>2 DEF Lock, PoolInv
    <2> QED
      BY <1>2, <2>1, LockGuard
  <1>3. CASE Dial(a)
    <2>1. active' \in pool
      BY <1>3 DEF Dial, Connected, UpAt, PoolInv
    <2> QED
      BY <1>1, <1>3, <2>1, DialGuard DEF Dial
  <1>4. CASE DialOk(a)
    BY <1>4, DialOkGuard
  <1>5. CASE Adopt(a)
    <2>1. <<job[a].try, job[a].made>> \in pool
      BY <1>5 DEF Adopt, GuardInv
    <2>2. active' \in pool
      BY <1>5, <2>1 DEF Adopt, Connected, PoolInv
    <2>3. GuardInv'
      BY <1>5, ConnectedGuard DEF Adopt, Connecting
    <2> QED
      BY <1>1, <1>5, <2>2, <2>3 DEF Adopt
  <1>6. CASE DialFails(a)
    <2>1. PoolInv'
      BY <1>1, <1>6 DEF DialFails, PoolInv
    <2> QED
      BY <1>6, <2>1, DialFailsGuard
  <1> QED
    BY <1>2, <1>3, <1>4, <1>5, <1>6 DEF ReconnectStep

LEMMA OpGuard ==
    ASSUME GuardInv, DOMAIN att = Op, NEW o \in Op,
           \/ Select(o) \/ Pick(o) \/ RouteFailed(o) \/ LoopFailed(o) \/ RequestFails(o)
           \/ Cancel(o)
    PROVE  GuardInv' /\ UNCHANGED <<pool, up, active>>
  <1>0. /\ o \in Actor /\ DOMAIN job = Actor /\ DOMAIN job[o] = JobFields /\ DOMAIN inLoop = Op
        /\ UNCHANGED <<pool, up, active>>
    BY DEF Select, Pick, RouteFailed, LoopFailed, RequestFails, Cancel, linkVars, GuardInv,
       Actor
  <1>1. ASSUME NEW l, l \notin Connecting \cup {"idle", "select", "guard"},
               pc[o] \notin Connecting, Goto(o, l), UNCHANGED <<job, guard>>,
               UNCHANGED inLoop \/ inLoop' = [inLoop EXCEPT ![o] = TRUE]
        PROVE  GuardInv'
    BY <1>0, <1>1, OutsideMove DEF Goto
  <1>2. ASSUME NEW c, NEW f, pc[o] \notin Connecting, Post(o, c, f),
               UNCHANGED <<job, guard, inLoop>>
        PROVE  GuardInv'
    <2>1. PICK l \in {"sent", "failed"} : pc' = [pc EXCEPT ![o] = l]
      BY <1>2, PostLeaves
    <2> QED
      BY <1>1, <1>2, <2>1 DEF Goto, Connecting
  <1>3. CASE Select(o)
    <2>1. pc[o] = "select" /\ pc[o] \notin Connecting /\ ~inLoop[o] /\ UNCHANGED guard
      BY <1>3 DEF Select, Connecting, GuardInv
    <2>2. CASE job' = [job EXCEPT ![o].try = target[o]] /\ Goto(o, "next") /\ UNCHANGED inLoop
      <3>1. /\ DOMAIN job' = Actor /\ \A b \in Actor \ {o} : job'[b] = job[b]
            /\ DOMAIN job'[o] = JobFields
        BY <1>0, <2>2
      <3>2. guard # o /\ guard' \in Actor \cup {None} /\ Specific(o)'
        BY <1>0, <2>1, <2>2 DEF GuardInv, Specific
      <3>3. \A b \in Actor : guard' = b => active' \notin up' \/ active'[1] = job'[b].failed
        BY <1>0, <2>1, <3>1, <3>2 DEF GuardInv
      <3> QED
        BY <1>0, <2>1, <2>2, <3>1, <3>2, <3>3, TaskMoves DEF Goto
    <2>3. CASE \E c \in UpAt(target[o]) : Post(o, c, TRUE) /\ UNCHANGED <<inLoop, job>>
      BY <1>0, <1>2, <2>1, <2>3
    <2>4. CASE Goto(o, "err") /\ UNCHANGED <<inLoop, job>>
      BY <1>0, <1>1, <2>1, <2>4 DEF Connecting
    <2>5. CASE EnterLoop(o) /\ UNCHANGED job
      BY <1>0, <1>1, <2>1, <2>5 DEF Connecting, EnterLoop
    <2> QED
      BY <1>3, <2>2, <2>3, <2>4, <2>5 DEF Select
  <1>4. CASE Pick(o)
    BY <1>2, <1>4 DEF Pick, linkVars, Connecting
  <1>5. CASE RouteFailed(o)
    BY <1>1, <1>5 DEF RouteFailed, EnterLoop, linkVars, Connecting
  <1>6. CASE LoopFailed(o)
    <2>1. /\ DOMAIN job' = Actor /\ \A b \in Actor \ {o} : job'[b] = job[b]
          /\ DOMAIN job'[o] = JobFields
      BY <1>0, <1>6 DEF LoopFailed
    <2>2. PICK l \in {"guard", "err"} : pc' = [pc EXCEPT ![o] = l]
      BY <1>6 DEF LoopFailed, Goto
    <2>3. inLoop[o] /\ UNCHANGED <<inLoop, guard>> /\ pc[o] \notin Connecting
      BY <1>6 DEF LoopFailed, opVars, Connecting
    <2> QED
      BY <1>0, <2>1, <2>2, <2>3, OutsideMove DEF Connecting
  <1>7. CASE RequestFails(o)
    BY <1>1, <1>7 DEF RequestFails, opVars, linkVars, Connecting
  <1>8. CASE Cancel(o)
    <2>1. /\ DOMAIN job' = Actor /\ \A b \in Actor \ {o} : job'[b] = job[b]
          /\ DOMAIN job'[o] = JobFields
      BY <1>0, <1>8 DEF Cancel, Leave, NoJob, JobFields
    <2>2. /\ guard' = IF guard = o THEN None ELSE guard
          /\ UNCHANGED inLoop /\ pc' = [pc EXCEPT ![o] = "cancelled"]
      BY <1>8 DEF Cancel, Goto, opVars
    <2>3. guard' # o /\ guard' \in Actor \cup {None} /\ \A b \in Actor \ {o} : guard' = b <=> guard = b
      BY <2>2, RoundTripAssumption DEF GuardInv, Actor
    <2>4. \A b \in Actor : guard' = b => active' \notin up' \/ active'[1] = job'[b].failed
      BY <1>0, <2>1, <2>3 DEF GuardInv
    <2> QED
      BY <1>0, <2>1, <2>2, <2>3, <2>4, TaskMoves DEF Connecting
  <1> QED
    BY <1>0, <1>3, <1>4, <1>5, <1>6, <1>7, <1>8

LEMMA NextGuard ==
    ASSUME PoolInv, GuardInv, DOMAIN att = Op, [Next]_vars PROVE PoolInv' /\ GuardInv'
  <1>1. ASSUME UNCHANGED <<pool, active>>, up' \subseteq up PROVE PoolInv'
    BY <1>1 DEF PoolInv
  <1>2. ASSUME NEW o \in Op, NEW k \in Kinds, NEW e \in Endpoint, NEW r \in Reads,
               Begin(o, k, e, r)
        PROVE  PoolInv' /\ GuardInv'
    <2>1. /\ UNCHANGED <<job, pool, up, active, guard>> /\ pc[o] = "idle" /\ o \in Actor
          /\ DOMAIN job = Actor /\ DOMAIN job[o] = JobFields /\ DOMAIN inLoop = Op
      BY <1>2 DEF Begin, linkVars, GuardInv, Actor
    <2>2. ~inLoop[o] /\ pc[o] \notin Connecting
      BY <2>1 DEF GuardInv, Connecting
    <2>3. CASE EnterLoop(o)
      <3>1. DOMAIN inLoop' = Op /\ \A q \in Op \ {o} : inLoop'[q] = inLoop[q]
        BY <2>1, <2>3 DEF EnterLoop
      <3>2. pc' = [pc EXCEPT ![o] = "pick"]
        BY <2>3 DEF EnterLoop, Goto
      <3> QED
        BY <1>1, <2>1, <2>2, <3>1, <3>2, OutsideMove DEF Connecting
    <2>4. CASE Goto(o, "select") /\ UNCHANGED inLoop
      BY <1>1, <2>1, <2>2, <2>4, OutsideMove DEF Goto, Connecting
    <2> QED
      BY <1>2, <2>3, <2>4 DEF Begin
  <1>3. ASSUME NEW o \in Op, OpStep(o) \/ Cancel(o) PROVE PoolInv' /\ GuardInv'
    BY <1>1, <1>3, OpGuard, ReconnectGuard DEF OpStep, Actor
  <1>4. ASSUME NEW o \in Op, NEW i \in 1..Len(att[o]), Transmit(o, i) \/ Reply(o, i)
        PROVE  PoolInv' /\ GuardInv'
    <2>1. /\ UNCHANGED <<job, pool, up, active, guard, inLoop>> /\ o \in Actor
          /\ DOMAIN job = Actor /\ DOMAIN job[o] = JobFields /\ DOMAIN inLoop = Op
      BY <1>4 DEF Transmit, Reply, linkVars, GuardInv, Actor
    <2>2. CASE pc' = pc
      BY <1>1, <2>1, <2>2 DEF GuardInv, Specific
    <2>3. CASE pc[o] = "sent" /\ pc' = [pc EXCEPT ![o] = "ok"]
      BY <1>1, <2>1, <2>3, OutsideMove DEF Connecting
    <2> QED
      BY <1>4, <2>2, <2>3 DEF Transmit, Reply, Goto
  <1>5. ASSUME NEW a \in Heartbeat, HeartbeatTick(a) \/ HeartbeatProbe(a)
        PROVE  PoolInv' /\ GuardInv'
    <2>1. /\ UNCHANGED <<pool, up, active, guard, inLoop>> /\ a \in Actor /\ a \notin Op
          /\ DOMAIN inLoop = Op
      BY <1>5, RoundTripAssumption
         DEF HeartbeatTick, HeartbeatProbe, opVars, linkVars, GuardInv, Actor
    <2>2. /\ DOMAIN job' = Actor /\ DOMAIN job'[a] = JobFields
          /\ \A b \in Actor \ {a} : job'[b] = job[b]
      BY <1>5, <2>1 DEF HeartbeatTick, HeartbeatProbe, linkVars, GuardInv
    <2>3. PICK l \in {"idle", "probe", "guard"} : pc' = [pc EXCEPT ![a] = l]
      BY <1>5 DEF HeartbeatTick, HeartbeatProbe, Goto
    <2>4. pc[a] \notin Connecting /\ l \notin Connecting
      BY <1>5 DEF HeartbeatTick, HeartbeatProbe, Connecting
    <2> QED
      BY <1>1, <2>1, <2>2, <2>3, <2>4, OutsideMove
  <1>6. ASSUME NEW a \in Heartbeat, ReconnectStep(a) PROVE PoolInv' /\ GuardInv'
    BY <1>6, ReconnectGuard DEF Actor
  <1>7. ASSUME NEW c \in Conn, Break(c) PROVE PoolInv' /\ GuardInv'
    <2>1. UNCHANGED <<pc, inLoop, job, pool, active, guard>> /\ up' \subseteq up
      BY <1>7 DEF Break, opVars
    <2>2. GuardInv'
      BY <2>1 DEF GuardInv, Specific
    <2> QED
      BY <1>1, <2>1, <2>2
  <1>8. CASE UNCHANGED vars
    BY <1>1, <1>8 DEF vars, opVars, linkVars, GuardInv, Specific
  <1> QED
    BY <1>2, <1>3, <1>4, <1>5, <1>6, <1>7, <1>8 DEF Next

LEMMA OnlyAfterFailure ==
    ASSUME GuardInv, [Next]_vars, active' # active, active \in up
    PROVE  \E a \in Actor : pc[a] \in {"next", "adopt"} /\ job[a].failed = active[1]
  <1>1. PICK a \in Actor : Dial(a) \/ Adopt(a)
    BY DEF Next, Begin, OpStep, Select, Pick, RouteFailed, LoopFailed, RequestFails, Cancel,
       Transmit, Reply, HeartbeatTick, HeartbeatProbe, ReconnectStep, Lock, DialOk, DialFails,
       Break, vars, linkVars, Actor
  <1>2. ~Specific(a) /\ pc[a] \in {"next", "adopt"}
    BY <1>1 DEF Dial, Adopt, Connected
  <1>3. guard = a
    BY <1>2 DEF GuardInv, Connecting
  <1> QED
    BY <1>2, <1>3 DEF GuardInv

\* Operations and the heartbeat may all be reconnecting: a connection that is active
\* and healthy is replaced only on behalf of a task that saw its own address fail.
THEOREM HealthyKept == Spec => HealthyActiveKept
  <1>1. Init => SoleInv /\ PoolInv /\ GuardInv
    BY InitSole, InitGuard
  <1>2. SoleInv /\ PoolInv /\ GuardInv /\ [Next]_vars => SoleInv' /\ PoolInv' /\ GuardInv'
    BY NextSole, NextGuard DEF SoleInv
  <1>3. GuardInv /\ [Next]_vars =>
          [active' # active /\ active \in up =>
             \E a \in Actor : pc[a] \in {"next", "adopt"} /\ job[a].failed = active[1]]_vars
    BY OnlyAfterFailure
  <1> QED
    BY <1>1, <1>2, <1>3, PTL DEF Spec, HealthyActiveKept

----------------------------------------------------------------------------
(* The throttle, for every window and every limit. *)

Forgotten == Len(admitted) - Len(attempts)

\* The deque holds the last admitted attempts, at most max_attempts of them; the
\* others are a window old.
ThInv ==
    /\ ThTypeOK
    /\ Len(attempts) <= MaxAttempts
    /\ Len(attempts) <= Len(admitted)
    /\ \A i \in 1..Len(attempts) : attempts[i] = admitted[Forgotten + i]
    /\ \A i \in 1..Forgotten : admitted[i] + Window <= now
    /\ \A i \in 1..Len(admitted) : admitted[i] <= now
    /\ WindowBound

LEMMA InitThrottle == ThInit => ThInv
  BY ThrottleAssumption DEF ThInit, ThInv, ThTypeOK, Forgotten, WindowBound

\* Time passing only makes attempts older.
LEMMA TickThrottle == ASSUME ThInv, Tick PROVE ThInv'
<1>1. /\ attempts' = attempts /\ admitted' = admitted /\ refused' = refused
      /\ now \in Nat /\ now' = now + 1 /\ Len(admitted) \in Nat /\ Len(attempts) \in Nat
  BY DEF Tick, ThInv, ThTypeOK
<1>2. ThTypeOK' BY <1>1 DEF ThInv, ThTypeOK
<1>3. \A i \in 1..Len(admitted) : admitted[i] \in Nat BY DEF ThInv, ThTypeOK
<1>4. Forgotten' = Forgotten /\ Forgotten \in 0..Len(admitted) BY <1>1 DEF Forgotten, ThInv
<1>5. \A i \in 1..Forgotten : admitted[i] + Window <= now'
  BY <1>1, <1>3, <1>4, ThrottleAssumption DEF ThInv
<1>6. \A i \in 1..Len(admitted) : admitted[i] <= now' BY <1>1, <1>3 DEF ThInv
<1>7. WindowBound' BY <1>1 DEF ThInv, WindowBound
<1> QED BY <1>1, <1>2, <1>4, <1>5, <1>6, <1>7 DEF ThInv

\* What pop_front leaves is a shorter deque, and what it takes is a window old.
LEMMA TrimThrottle ==
  ASSUME ThInv, NEW n \in 0..Len(attempts), Trims(n),
         NEW live, live = SubSeq(attempts, n + 1, Len(attempts))
  PROVE  /\ live \in Seq(Nat)
         /\ Len(live) = Len(attempts) - n
         /\ \A i \in 1..Len(live) : live[i] = admitted[Forgotten + n + i]
         /\ \A i \in 1..Forgotten + n : admitted[i] + Window <= now
<1>0. attempts \in Seq(Nat) /\ admitted \in Seq(Nat) /\ now \in Nat BY DEF ThInv, ThTypeOK
<1>1. attempts \in Seq(Nat) /\ Len(attempts) \in Nat /\ Len(admitted) \in Nat /\ now \in Nat
  BY <1>0
<1>2. Len(live) = Len(attempts) - n /\ live \in Seq(Nat) BY <1>1
<1>3. \A i \in 1..Len(live) : live[i] = attempts[n + i] BY <1>1, <1>2
<1>4. \A i \in 1..Len(live) : live[i] = admitted[Forgotten + n + i]
  BY <1>1, <1>2, <1>3 DEF ThInv, Forgotten
<1>5. ASSUME NEW i \in 1..Forgotten + n PROVE admitted[i] + Window <= now
  <2>1. CASE i \in 1..Forgotten BY <2>1 DEF ThInv
  <2>2. CASE i \notin 1..Forgotten
    <3>1. i - Forgotten \in 1..n /\ i - Forgotten \in 1..Len(attempts) /\ i \in 1..Len(admitted)
      BY <1>1, <2>2 DEF Forgotten, ThInv
    <3>2. attempts[i - Forgotten] = admitted[Forgotten + (i - Forgotten)] BY <3>1 DEF ThInv
    <3>3. now - attempts[i - Forgotten] >= Window BY <3>1 DEF Trims, Expired
    <3>4. Forgotten + (i - Forgotten) = i BY <1>1 DEF Forgotten
    <3>5. admitted[i] \in Nat BY <1>0, <3>1
    <3> QED BY <1>1, <3>2, <3>3, <3>4, <3>5, ThrottleAssumption
  <2> QED BY <2>1, <2>2
<1> QED BY <1>2, <1>4, <1>5

LEMMA Shifted ==
  ASSUME NEW g \in Nat, NEW l \in Nat, NEW i \in 1..l PROVE g + i \in 1..g + l
OBVIOUS

LEMMA Early ==
  ASSUME NEW a \in Nat, NEW l \in Nat, NEW i \in Nat, 1 <= i, i <= a - l
  PROVE  i \in 1..a - l /\ i \in 1..a
OBVIOUS

\* An attempt is refused, or admitted a window after the one that is max_attempts
\* before it, which the deque has given up.
LEMMA RecordThrottle ==
  ASSUME ThInv, NEW n \in 0..Len(attempts), Record(n) PROVE ThInv'
<1>l. PICK live : live = SubSeq(attempts, n + 1, Len(attempts)) OBVIOUS
<1>1. /\ live \in Seq(Nat)
      /\ Len(live) = Len(attempts) - n
      /\ \A i \in 1..Len(live) : live[i] = admitted[Forgotten + n + i]
      /\ \A i \in 1..Forgotten + n : admitted[i] + Window <= now
  BY <1>l, TrimThrottle DEF Record
<1>2. /\ attempts \in Seq(Nat) /\ admitted \in Seq(Nat) /\ now \in Nat /\ now' = now
      /\ Len(attempts) \in Nat /\ Len(admitted) \in Nat /\ Len(live) \in Nat /\ n \in Nat
      /\ Len(attempts) <= Len(admitted)
  <2>1. attempts \in Seq(Nat) /\ admitted \in Seq(Nat) /\ now \in Nat /\ now' = now
    BY DEF ThInv, ThTypeOK, Record
  <2>2. Len(attempts) \in Nat /\ Len(admitted) \in Nat /\ Len(live) \in Nat
    BY <2>1, <1>1
  <2> QED BY <2>1, <2>2 DEF ThInv
<1>3. Forgotten + n = Len(admitted) - Len(live) /\ Forgotten + n \in 0..Len(admitted)
  BY <1>1, <1>2 DEF Forgotten
<1>t. \A i \in 1..Len(admitted) : admitted[i] \in Nat /\ admitted[i] <= now
  BY <1>2 DEF ThInv
<1>4. CASE /\ Len(live) >= MaxAttempts /\ attempts' = live
           /\ refused' = refused \cup {now} /\ UNCHANGED admitted
  <2>1. ThTypeOK' BY <1>1, <1>2, <1>4 DEF ThInv, ThTypeOK
  <2>2. Forgotten' = Forgotten + n BY <1>2, <1>3, <1>4 DEF Forgotten
  <2>3. WindowBound' BY <1>4 DEF ThInv, WindowBound
  <2>4. Len(live) <= MaxAttempts /\ Len(live) <= Len(admitted)
    BY <1>1, <1>2, ThrottleAssumption DEF ThInv
  <2>5. \A i \in 1..Len(attempts') : attempts'[i] = admitted'[Forgotten' + i]
    BY <1>1, <1>4, <2>2
  <2>6. \A i \in 1..Forgotten' : admitted'[i] + Window <= now' BY <1>1, <1>2, <1>4, <2>2
  <2>7. \A i \in 1..Len(admitted') : admitted'[i] <= now' BY <1>2, <1>t, <1>4
  <2> QED BY <1>4, <2>1, <2>3, <2>4, <2>5, <2>6, <2>7 DEF ThInv
<1>5. CASE /\ Len(live) < MaxAttempts /\ attempts' = Append(live, now)
           /\ admitted' = Append(admitted, now) /\ UNCHANGED refused
  <2>1. ThTypeOK' BY <1>1, <1>2, <1>5 DEF ThInv, ThTypeOK
  <2>2. /\ Len(attempts') = Len(live) + 1
        /\ \A i \in 1..Len(live) : attempts'[i] = live[i]
        /\ attempts'[Len(live) + 1] = now
    BY <1>1, <1>2, <1>5
  <2>3. /\ Len(admitted') = Len(admitted) + 1
        /\ \A i \in 1..Len(admitted) : admitted'[i] = admitted[i]
        /\ admitted'[Len(admitted) + 1] = now
    BY <1>2, <1>5
  <2>4. Forgotten' = Forgotten + n BY <1>1, <1>2, <1>3, <2>2, <2>3 DEF Forgotten
  <2>5. ASSUME NEW i \in 1..Len(attempts') PROVE attempts'[i] = admitted'[Forgotten' + i]
    <3>1. CASE i <= Len(live)
      <4>0. i \in 1..Len(live) BY <1>2, <3>1, <2>2
      <4>g. Forgotten + n \in Nat /\ Forgotten + n + Len(live) = Len(admitted) BY <1>2, <1>3
      <4>1. i \in 1..Len(live) /\ Forgotten + n + i \in 1..Len(admitted)
        BY <4>0, <4>g, <1>2, Shifted
      <4> QED BY <4>1, <1>1, <2>2, <2>3, <2>4
    <3>2. CASE i > Len(live)
      <4>1. i = Len(live) + 1 BY <3>2, <2>2, <1>1
      <4>2. Forgotten' + i = Len(admitted) + 1 BY <4>1, <2>4, <1>3, <1>1, <1>2
      <4> QED BY <4>1, <4>2, <2>2, <2>3
    <3> QED BY <3>1, <3>2, <1>1
  <2>6. ASSUME NEW i \in 1..Forgotten' PROVE admitted'[i] + Window <= now'
    <3>1. i \in 1..Forgotten + n /\ i \in 1..Len(admitted)
      BY <2>4, <1>2, <1>3
    <3> QED BY <3>1, <1>1, <1>2, <2>3
  <2>7. ASSUME NEW i \in 1..Len(admitted') PROVE admitted'[i] <= now'
    <3>1. i \in 1..Len(admitted) \/ i = Len(admitted) + 1 BY <2>3, <1>2
    <3>2. CASE i \in 1..Len(admitted)
      <4>1. admitted'[i] = admitted[i] /\ admitted[i] <= now BY <3>2, <2>3, <1>t
      <4> QED BY <4>1, <1>2
    <3>3. CASE i = Len(admitted) + 1
      <4>1. admitted'[i] = now BY <3>3, <2>3
      <4> QED BY <4>1, <1>2
    <3> QED BY <3>1, <3>2, <3>3
  <2>8. ASSUME NEW i \in 1..Len(admitted'), i + MaxAttempts <= Len(admitted')
        PROVE  admitted'[i + MaxAttempts] >= admitted'[i] + Window
    <3>1. CASE i + MaxAttempts <= Len(admitted)
      <4>1. i \in 1..Len(admitted) /\ i + MaxAttempts \in 1..Len(admitted)
        BY <3>1, <1>2, ThrottleAssumption, <2>3
      <4> QED BY <4>1, <3>1, <2>3 DEF ThInv, WindowBound
    <3>2. CASE i + MaxAttempts > Len(admitted)
      <4>0. i \in Nat /\ i + MaxAttempts <= Len(admitted) + 1 BY <2>8, <2>3, <1>2
      <4>1. i + MaxAttempts = Len(admitted) + 1 BY <4>0, <3>2, <1>2, ThrottleAssumption
      <4>a. Len(live) + 1 <= MaxAttempts /\ MaxAttempts \in Nat
        BY <1>2, <1>5, ThrottleAssumption
      <4>b. i <= Len(admitted) - Len(live) BY <4>0, <4>1, <4>a, <1>2
      <4>c. i >= 1 BY <2>3, <1>2
      <4>2. i \in 1..Forgotten + n /\ i \in 1..Len(admitted)
        BY <4>0, <4>b, <4>c, <1>2, <1>3, Early
      <4>3. admitted[i] + Window <= now BY <4>2, <1>1
      <4>4. admitted[i] \in Nat BY <4>2, <1>2
      <4> QED BY <4>1, <4>2, <4>3, <4>4, <2>3, <1>2, ThrottleAssumption
    <3> QED BY <3>1, <3>2, <1>2, ThrottleAssumption
  <2>9. WindowBound' BY <2>8 DEF WindowBound
  <2>10. Len(attempts') <= MaxAttempts /\ Len(attempts') <= Len(admitted')
    BY <2>2, <2>3, <1>1, <1>2, <1>5, ThrottleAssumption DEF ThInv
  <2> QED BY <2>1, <2>5, <2>6, <2>7, <2>9, <2>10 DEF ThInv
<1> QED BY <1>l, <1>4, <1>5 DEF Record

LEMMA ThrottleStep == ThInv /\ [ThNext]_thVars => ThInv'
<1>1. CASE Tick BY <1>1, TickThrottle
<1>2. ASSUME NEW n \in 0..Len(attempts), Record(n), ThInv PROVE ThInv'
  BY <1>2, RecordThrottle
<1>3. CASE UNCHANGED thVars
  BY <1>3 DEF thVars, ThInv, ThTypeOK, Forgotten, WindowBound
<1> QED BY <1>1, <1>2, <1>3 DEF ThNext

\* record_reconnect_attempt keeps its promise for every window and every limit: in
\* no window are more than max_attempts reconnects admitted.
THEOREM ThrottleBounds == ThSpec => []WindowBound
<1>1. ThInv => WindowBound BY DEF ThInv
<1> QED BY InitThrottle, ThrottleStep, <1>1, PTL DEF ThSpec

\* The attempts admitted in the window that ends at t.
Recent(t) ==
    {i \in 1..Len(admitted) : admitted[i] <= t /\ t < admitted[i] + Window}

Ordered == \A i, j \in 1..Len(admitted) : i <= j => admitted[i] <= admitted[j]

LEMMA OrderedStep == ThInv /\ Ordered /\ [ThNext]_thVars => Ordered'
<1> SUFFICES ASSUME ThInv, Ordered, [ThNext]_thVars PROVE Ordered' OBVIOUS
<1>1. admitted \in Seq(Nat) /\ now \in Nat /\ \A i \in 1..Len(admitted) : admitted[i] <= now
  BY DEF ThInv, ThTypeOK
<1>2. CASE admitted' = admitted BY <1>2 DEF Ordered
<1>3. CASE admitted' = Append(admitted, now)
  <2>1. /\ Len(admitted') = Len(admitted) + 1 /\ Len(admitted) \in Nat
        /\ \A i \in 1..Len(admitted) : admitted'[i] = admitted[i] /\ admitted[i] \in Nat
        /\ admitted'[Len(admitted) + 1] = now
    BY <1>1, <1>3
  <2>2. ASSUME NEW i \in 1..Len(admitted'), NEW j \in 1..Len(admitted'), i <= j
        PROVE  admitted'[i] <= admitted'[j]
    <3>1. CASE j \in 1..Len(admitted)
      <4>1. i \in 1..Len(admitted) BY <2>1, <2>2, <3>1
      <4> QED BY <2>1, <2>2, <3>1, <4>1 DEF Ordered
    <3>2. CASE j = Len(admitted) + 1
      <4>1. CASE i \in 1..Len(admitted) BY <1>1, <2>1, <3>2, <4>1
      <4>2. CASE i = Len(admitted) + 1 BY <1>1, <2>1, <3>2, <4>2
      <4> QED BY <2>1, <4>1, <4>2
    <3> QED BY <2>1, <3>1, <3>2
  <2> QED BY <2>2 DEF Ordered
<1> QED BY <1>2, <1>3 DEF ThNext, Tick, Record, thVars

LEMMA RecentFinite == ASSUME ThInv, NEW t PROVE IsFiniteSet(Recent(t))
<1>1. Len(admitted) \in Nat BY DEF ThInv, ThTypeOK
<1>2. IsFiniteSet(1..Len(admitted)) BY <1>1, FS_Interval
<1> QED BY <1>2, FS_Subset DEF Recent

\* No step forgets an attempt of a window.
LEMMA RecentGrows ==
  ASSUME ThInv, ThInv', [ThNext]_thVars, NEW t
  PROVE  Cardinality(Recent(t)) <= Cardinality(Recent(t)')
<1>1. admitted \in Seq(Nat) /\ now \in Nat BY DEF ThInv, ThTypeOK
<1>2. Recent(t) \subseteq Recent(t)'
  <2>1. CASE admitted' = admitted BY <2>1 DEF Recent
  <2>2. CASE admitted' = Append(admitted, now)
    <3>1. /\ Len(admitted') = Len(admitted) + 1 /\ Len(admitted) \in Nat
          /\ \A i \in 1..Len(admitted) : admitted'[i] = admitted[i]
      BY <1>1, <2>2
    <3>2. \A i \in 1..Len(admitted) : i \in 1..Len(admitted') BY <3>1
    <3> QED BY <3>1, <3>2 DEF Recent
  <2> QED BY <2>1, <2>2 DEF ThNext, Tick, Record, thVars
<1>3. IsFiniteSet(Recent(t)')
  <2>1. Len(admitted') \in Nat BY DEF ThInv, ThTypeOK
  <2>2. IsFiniteSet(1..Len(admitted')) BY <2>1, FS_Interval
  <2> QED BY <2>2, FS_Subset DEF Recent
<1> QED BY <1>2, <1>3, FS_Subset

LEMMA Kept ==
  ASSUME NEW a \in Nat, NEW d \in Nat, NEW n \in Nat, d <= a, NEW i \in (a - d + n + 1)..a
  PROVE  n + 1 \in 1..d /\ i \in 1..a /\ a - d + n + 1 \in 1..a
OBVIOUS

LEMMA StillInWindow ==
  ASSUME NEW t \in Nat, NEW first \in Nat, NEW later \in Nat, NEW w \in Nat,
         ~(t - first >= w), first <= later
  PROVE  t < later + w
OBVIOUS

\* What the deque keeps after the trim is within the window that ends now.
LEMMA KeptIsRecent ==
  ASSUME ThInv, Ordered, NEW n \in 0..Len(attempts), Trims(n),
         Len(attempts) - n >= MaxAttempts
  PROVE  Cardinality(Recent(now)) >= MaxAttempts
<1>1. /\ admitted \in Seq(Nat) /\ attempts \in Seq(Nat) /\ now \in Nat
      /\ Len(attempts) <= Len(admitted)
  BY DEF ThInv, ThTypeOK
<1>2. Len(admitted) \in Nat /\ Len(attempts) \in Nat /\ Forgotten \in Nat /\ n \in Nat
  BY <1>1 DEF Forgotten
<1>t. \A k \in 1..Len(admitted) : admitted[k] \in Nat BY <1>1
<1>3. ASSUME NEW i \in (Forgotten + n + 1)..Len(admitted) PROVE i \in Recent(now)
  <2>1. /\ n + 1 \in 1..Len(attempts) /\ i \in 1..Len(admitted)
        /\ Forgotten + n + 1 \in 1..Len(admitted)
    BY <1>1, <1>2, Kept DEF Forgotten
  <2>2. attempts[n + 1] = admitted[Forgotten + n + 1]
    <3>1. attempts[n + 1] = admitted[Forgotten + (n + 1)] BY <2>1 DEF ThInv
    <3>2. Forgotten + (n + 1) = Forgotten + n + 1 BY <1>2
    <3> QED BY <3>1, <3>2
  <2>3. ~Expired(attempts[n + 1]) BY <1>2, <2>1 DEF Trims
  <2>4. admitted[Forgotten + n + 1] <= admitted[i] BY <1>2, <2>1 DEF Ordered
  <2>5. admitted[i] \in Nat /\ attempts[n + 1] \in Nat BY <1>t, <2>1, <2>2
  <2>a. ~(now - attempts[n + 1] >= Window) /\ attempts[n + 1] <= admitted[i]
    BY <2>2, <2>3, <2>4 DEF Expired
  <2>6. now < admitted[i] + Window
    BY <1>1, <2>5, <2>a, ThrottleAssumption, StillInWindow
  <2>7. admitted[i] <= now BY <2>1 DEF ThInv
  <2> QED BY <2>1, <2>6, <2>7 DEF Recent
<1>4. /\ IsFiniteSet((Forgotten + n + 1)..Len(admitted))
      /\ Cardinality((Forgotten + n + 1)..Len(admitted)) = Len(attempts) - n
  <2>1. Forgotten + n + 1 \in Int /\ Len(admitted) \in Int /\ Forgotten + n + 1 <= Len(admitted) + 1
    BY <1>1, <1>2 DEF Forgotten
  <2>2. Len(admitted) - (Forgotten + n + 1) + 1 = Len(attempts) - n BY <1>2 DEF Forgotten
  <2>3. CASE Forgotten + n + 1 > Len(admitted)
    <3>1. Len(attempts) - n = 0 BY <1>2, <2>1, <2>3 DEF Forgotten
    <3> QED BY <2>1, <2>3, <3>1, FS_Interval
  <2>4. CASE Forgotten + n + 1 <= Len(admitted) BY <2>1, <2>2, <2>4, FS_Interval
  <2> QED BY <2>1, <2>3, <2>4
<1>5. /\ IsFiniteSet(Recent(now))
      /\ Cardinality((Forgotten + n + 1)..Len(admitted)) <= Cardinality(Recent(now))
  BY <1>3, RecentFinite, FS_Subset
<1>6. Cardinality(Recent(now)) \in Nat BY <1>5, FS_CardinalityType
<1> QED BY <1>2, <1>4, <1>5, <1>6, ThrottleAssumption

\* An attempt is refused only when max_attempts were admitted in the window that
\* ends with it: the throttle refuses no more than it must.
THEOREM ThrottleRefusesAtLimit == ThSpec => []RefusedAtLimit
<1>d. RefusedAtLimit <=> \A t \in refused : Cardinality(Recent(t)) >= MaxAttempts
  BY DEF RefusedAtLimit, Recent
<1>1. ThInit => ThInv /\ Ordered /\ RefusedAtLimit
  BY InitThrottle DEF ThInit, Ordered, RefusedAtLimit
<1>2. ThInv /\ Ordered /\ RefusedAtLimit /\ [ThNext]_thVars => (ThInv /\ Ordered /\ RefusedAtLimit)'
  <2> SUFFICES ASSUME ThInv, Ordered, RefusedAtLimit, [ThNext]_thVars
               PROVE  ThInv' /\ Ordered' /\ RefusedAtLimit'
    OBVIOUS
  <2>1. ThInv' /\ Ordered' BY ThrottleStep, OrderedStep
  <2>2. ASSUME NEW t \in refused' PROVE Cardinality(Recent(t)') >= MaxAttempts
    <3>1. /\ Cardinality(Recent(t)) <= Cardinality(Recent(t)')
          /\ Cardinality(Recent(t)) \in Nat
      BY <2>1, RecentGrows, RecentFinite, FS_CardinalityType
    <3>f. Cardinality(Recent(t)') \in Nat
      <4>1. Len(admitted') \in Nat BY <2>1 DEF ThInv, ThTypeOK
      <4>2. IsFiniteSet(1..Len(admitted')) BY <4>1, FS_Interval
      <4>3. IsFiniteSet(Recent(t)') BY <4>2, FS_Subset DEF Recent
      <4> QED BY <4>3, FS_CardinalityType
    <3>2. CASE t \in refused BY <1>d, <3>1, <3>f, <3>2, ThrottleAssumption
    <3>3. CASE t \notin refused
      <4>1. PICK n \in 0..Len(attempts) : Record(n)
        BY <2>2, <3>3 DEF ThNext, Tick, thVars
      <4>2. Trims(n) /\ t = now /\ Len(attempts) - n >= MaxAttempts
        <5>1. attempts \in Seq(Nat) BY DEF ThInv, ThTypeOK
        <5>2. Len(SubSeq(attempts, n + 1, Len(attempts))) = Len(attempts) - n BY <5>1
        <5> QED BY <2>2, <3>3, <4>1, <5>2 DEF Record
      <4> QED BY <3>1, <3>f, <4>2, KeptIsRecent, ThrottleAssumption
    <3> QED BY <3>2, <3>3
  <2>3. RefusedAtLimit' BY <2>2 DEF RefusedAtLimit, Recent
  <2> QED BY <2>1, <2>3
<1> QED BY <1>1, <1>2, PTL DEF ThSpec

\* Both together: record_reconnect_attempt is exact at its limit.
THEOREM ThrottleIsExact == ThSpec => []ThrottleExact
<1>1. WindowBound /\ RefusedAtLimit => ThrottleExact BY DEF ThrottleExact
<1> QED BY <1>1, ThrottleBounds, ThrottleRefusesAtLimit, PTL
============================================================================
