------------------------- MODULE HandlesLeftProofs -------------------------
(***************************************************************************)
(* That a closed cursor has no resource, and that a handle whose last task *)
(* has ended leaves nothing behind: in which states of a handle it may     *)
(* still have a resource (Owed) or a listener (Listens), on top of where   *)
(* that resource is.                                                       *)
(***************************************************************************)
EXTENDS HandlesProofs

\* The stages of an object x in which its handle may still have resource r.
Owed(x, r) ==
    \/ /\ x.at = "opening" /\ x.ans # None /\ r.kind = x.kind
       /\ x.ans.ok /\ r.conn = x.ans.conn /\ r.id = x.ans.id
       /\ x.ans.more \/ x.kind.shuts
    \/ /\ x.at \in InUse /\ r.kind = x.kind /\ r.conn = x.own
       /\ r.id = x.id \/ (x.at = "closing" /\ x.kind.takes)
       /\ x.closed => x.kind = ComputeTask \/ (x.kind.lazy /\ x.at = "closing")
       /\ x.kind.paged /\ ~x.more => x.kind.shuts
       /\ x.at = "paging" /\ x.ans # None /\ x.ans.ok => x.ans.more \/ x.kind.shuts
       /\ x.at = "closing" /\ x.ans # None => ~x.ans.ok
    \/ /\ x.at = "dropped" /\ x.bg # "none" /\ r.kind = x.kind /\ r.conn = x.own /\ r.id = x.id
       /\ x.bg = "sent" /\ x.ans # None => ~x.ans.ok
    \/ x.at = "dropped" /\ x.bg = "none" /\ r.kind = ComputeTask

\* The stages in which it may have a listener.
Listens(x) ==
    /\ x.at = "idle" \/ (x.at = "closing" /\ x.kind = ComputeTask) \/ x.bg = "send"
    /\ x.kind.heard
    /\ x.closed => x.at = "closing"

\* Only the cursor of a set may be without a number.
Named(x) ==
    /\ x.at = "opening" /\ x.ans # None /\ x.ans.ok => x.ans.id # None \/ x.kind = SetCursor
    /\ x.at \in InUse /\ x.kind.heard => x.id # None
    /\ x.at = "listening" => x.kind.heard

\* What is asked for by a request on its way.
Asked(q) ==
    /\ q.by = "nobody" /\ q.op = "open" => q.h \in forfeit
    /\ q.by # "nobody" /\ q.h \notin forfeit =>
         \A r \in res : r.owner = q.h => q.op \notin Opens /\ r.conn = q.own /\ r.id = q.id

GInv ==
    /\ \A h \in Handle : Named(hs[h])
    /\ \A h \in Handle \ forfeit : /\ \A r \in res : r.owner = h => Owed(hs[h], r)
                                   /\ lst[h] # None => Listens(hs[h])
    /\ \A q \in wire : Asked(q)

----------------------------------------------------------------------------
(* What a handle still has *)

LEMMA GInitial == Init => GInv
  BY EndObjects DEF Init, GInv, Named, InUse

\* A handle whose request is not on its way changes its object.
LEMMA TurnsG ==
    ASSUME SInv, GInv, NEW h \in Handle, NEW new \in Objects, Becomes(h, new),
           res' = res, wire' = wire, forfeit \subseteq forfeit',
           \A g \in Handle : g # h => lst'[g] \in {lst[g], None},
           \A q \in wire : q.h = h => q.by = "nobody",
           Named(new),
           h \notin forfeit' => /\ \A r \in res : r.owner = h => Owed(new, r)
                                /\ lst'[h] # None => Listens(new)
    PROVE  GInv'
<1>1. hs'[h] = new /\ \A g \in Handle : g # h => hs'[g] = hs[g]
  BY DEF SInv, TypeOK, Becomes
<1>2. \A g \in Handle : Named(hs'[g])
  BY <1>1 DEF GInv
<1>3. \A g \in Handle \ forfeit' : /\ \A r \in res' : r.owner = g => Owed(hs'[g], r)
                                   /\ lst'[g] # None => Listens(hs'[g])
  BY <1>1 DEF GInv
<1>4. \A q \in wire' : Asked(q)'
  BY DEF GInv, Asked
<1> QED BY <1>2, <1>3, <1>4 DEF GInv

\* An answer that is a failure settles nothing.
LEMMA FailedOwed ==
    ASSUME NEW x \in Objects, NEW b \in BOOLEAN, NEW by, NEW op, Awaits(x, by, op)
    PROVE  /\ \A r : Owed(x, r) => Owed([x EXCEPT !.ans = Failed(b)], r)
           /\ Listens(x) => Listens([x EXCEPT !.ans = Failed(b)])
           /\ Named(x) => Named([x EXCEPT !.ans = Failed(b)])
<1> DEFINE n == [x EXCEPT !.ans = Failed(b)]
<1>1. /\ n.own = x.own /\ n.id = x.id /\ n.addr = x.addr /\ n.at = x.at /\ n.bg = x.bg
      /\ n.kind = x.kind /\ n.closed = x.closed /\ n.more = x.more /\ ~n.ans.ok
  BY DEF Objects, Failed
<1>2. x.ans = None
  BY DEF Awaits
<1> HIDE DEF n
<1>3. \A r : Owed(x, r) => Owed(n, r)
  BY <1>1, <1>2 DEF Owed
<1>4. Listens(x) => Listens(n)
  BY <1>1 DEF Listens
<1>5. Named(x) => Named(n)
  BY <1>1 DEF Named
<1> QED BY <1>3, <1>4, <1>5 DEF n

\* A handle whose request is not on its way sends one.
LEMMA SendsG ==
    ASSUME SInv, GInv, NEW h \in Handle, NEW new \in Objects, NEW by \in {"owner", "drop"},
           NEW op, Send(h, by, op, new),
           res' = res, forfeit' = forfeit,
           \A g \in Handle : g # h => lst'[g] \in {lst[g], None},
           \A q \in wire : q.h = h => q.by = "nobody",
           Awaits(new, by, op), Named(new),
           h \notin forfeit => /\ \A r \in res : r.owner = h =>
                                     /\ Owed(new, r) /\ op \notin Opens
                                     /\ r.conn = hs[h].own /\ r.id = hs[h].id
                               /\ lst'[h] # None => Listens(new)
    PROVE  GInv'
<1> DEFINE m(c) == [h |-> h, kind |-> new.kind, own |-> hs[h].own, by |-> by, op |-> op,
                    id |-> hs[h].id, conn |-> c]
<1>1. CASE /\ Becomes(h, [new EXCEPT !.ans = Failed(FALSE)]) /\ UNCHANGED wire
  <2> DEFINE n == [new EXCEPT !.ans = Failed(FALSE)]
  <2>1. n \in Objects
    <3>1. Failed(FALSE) \in Answers
      BY DEF Failed, Answers
    <3> QED BY <3>1, ZenonT(30) DEF Objects
  <2>2. (\A r : Owed(new, r) => Owed(n, r)) /\ (Listens(new) => Listens(n)) /\ Named(n)
    BY FailedOwed, ZenonT(30)
  <2>3. Becomes(h, n)
    BY <1>1
  <2> HIDE DEF n
  <2> QED BY <1>1, <2>1, <2>2, <2>3, TurnsG
<1>2. ASSUME NEW c, wire' = wire \cup {m(c)}, Becomes(h, new)
      PROVE  GInv'
  <2>1. hs'[h] = new /\ \A g \in Handle : g # h => hs'[g] = hs[g]
    BY <1>2 DEF SInv, TypeOK, Becomes
  <2>2. \A g \in Handle : Named(hs'[g])
    BY <2>1 DEF GInv
  <2>3. \A g \in Handle \ forfeit' : /\ \A r \in res' : r.owner = g => Owed(hs'[g], r)
                                     /\ lst'[g] # None => Listens(hs'[g])
    BY <2>1 DEF GInv
  <2>4. ASSUME NEW q \in wire PROVE Asked(q)'
    BY DEF GInv, Asked
  <2>5. ASSUME NEW q, q = m(c) PROVE Asked(q)'
    BY <2>5 DEF Asked
  <2>6. \A q \in wire' : Asked(q)'
    BY <1>2, <2>4, <2>5
  <2> QED BY <2>2, <2>3, <2>6 DEF GInv
<1> QED BY <1>1, <1>2 DEF Send, Becomes

\* What the invariants say of one handle.
LEMMA Known ==
    ASSUME SInv, GInv, NEW h \in Handle
    PROVE  /\ hs[h] \in Objects /\ PlaceOf(h, hs[h]) /\ Named(hs[h])
           /\ lst \in [Handle -> Conn \cup {None}]
           /\ h \notin forfeit => /\ \A r \in res : r.owner = h => /\ Owed(hs[h], r)
                                                                   /\ r.id # None /\ r.conn \in up
                                  /\ lst[h] # None => Listens(hs[h])
  BY HandlesAssumption DEF SInv, GInv, TypeOK, Numbered

LEMMA OpenG ==
    ASSUME SInv, GInv, NEW h \in Handle, Open(h)
    PROVE  GInv'
<1>0. hs[h] \in Objects /\ hs[h] = Fresh
  BY Known DEF Open, PlaceOf
<1>q. \A q \in wire : q.h = h => q.by = "nobody"
  BY Quiet DEF Open
<1>n. h \notin forfeit => (\A r \in res : r.owner # h) /\ lst[h] = None
  BY Known, <1>0, EndObjects DEF Owed, Listens, InUse
<1>1. PICK k \in Kind :
         LET new == [hs[h] EXCEPT !.kind = k]
         IN IF k.lazy
            THEN Becomes(h, [new EXCEPT !.at = "idle"]) /\ UNCHANGED wire
            ELSE Send(h, "owner", "open", [new EXCEPT !.at = "opening"])
  BY DEF Open
<1> DEFINE n(stage) == [[hs[h] EXCEPT !.kind = k] EXCEPT !.at = stage]
<1>3. ASSUME NEW stage \in {"idle", "opening"}
      PROVE  /\ n(stage) \in Objects /\ n(stage).kind = k /\ n(stage).at = stage
             /\ n(stage).ans = None
  BY <1>0, EndObjects, ZenonT(30) DEF Objects
<1> HIDE DEF n
<1>4. CASE k.lazy
  <2>1. Named(n("idle"))
    BY <1>3, <1>4, KindFacts DEF Named, InUse
  <2>2. Becomes(h, n("idle")) /\ UNCHANGED wire
    BY <1>1, <1>4 DEF n
  <2> QED BY <1>3, <1>q, <1>n, <2>1, <2>2, TurnsG DEF Open
<1>5. CASE ~k.lazy
  <2>1. Named(n("opening"))
    BY <1>3 DEF Named, InUse
  <2>2. Send(h, "owner", "open", n("opening"))
    BY <1>1, <1>5 DEF n
  <2>3. Awaits(n("opening"), "owner", "open")
    BY <1>3 DEF Awaits
  <2> QED BY <1>3, <1>q, <1>n, <2>1, <2>2, <2>3, SendsG DEF Open
<1> QED BY <1>4, <1>5

LEMMA OpenedG ==
    ASSUME SInv, GInv, NEW h \in Handle, Opened(h)
    PROVE  GInv'
<1> DEFINE a == hs[h].ans
           stage == IF hs[h].kind.heard THEN "listening" ELSE "idle"
           rows == a.rows /\ hs[h].kind.paged
           n == [hs[h] EXCEPT !.at = stage, !.id = a.id, !.own = a.conn, !.addr = home[a.conn],
                              !.pend = rows, !.more = a.more, !.ans = None]
<1>0. /\ hs[h] \in Objects /\ PlaceOf(h, hs[h]) /\ Named(hs[h]) /\ a \in Answers
      /\ home \in [Conn -> Addr \cup {None}]
  BY Known DEF SInv, TypeOK, Opened, Objects
<1>q. \A q \in wire : q.h = h => q.by = "nobody"
  BY Quiet DEF Opened
<1>1. /\ hs[h].at = "opening" /\ hs[h].kind \in Kind /\ ~hs[h].closed
      /\ a # None /\ a.ok /\ a.conn \in Conn
      /\ a.id \in Id \cup {None} /\ a.rows \in BOOLEAN /\ a.more \in BOOLEAN
      /\ hs[h].kind.paged \in BOOLEAN /\ hs[h].kind.heard \in BOOLEAN
      /\ home[a.conn] \in Addr \cup {None}
  BY <1>0, KindFacts DEF Opened, PlaceOf, Mine, Answers, Objects
<1>2. Becomes(h, n)
  BY DEF Opened
<1>t. /\ stage \in {"listening", "idle"} /\ rows \in BOOLEAN
      /\ (stage = "listening" => hs[h].kind.heard)
  BY <1>1
<1> HIDE DEF stage, rows
<1>3. /\ n \in Objects /\ n.kind = hs[h].kind /\ n.at = stage
      /\ n.id = a.id /\ n.own = a.conn /\ ~n.closed /\ n.ans = None /\ n.more = a.more
  BY <1>0, <1>1, <1>t, ZenonT(30) DEF Objects
<1> HIDE DEF n
<1>4. Named(n)
  BY <1>0, <1>1, <1>3, <1>t, KindFacts DEF Named, InUse
<1>5. ASSUME h \notin forfeit
      PROVE  (\A r \in res : r.owner = h => Owed(n, r)) /\ lst[h] = None
  <2>1. \A r \in res : r.owner = h => /\ r.kind = hs[h].kind /\ r.conn = a.conn /\ r.id = a.id
                                      /\ a.more \/ hs[h].kind.shuts
    BY <1>1, <1>5, Known DEF Owed, InUse
  <2>2. \A r \in res : r.owner = h => Owed(n, r)
    BY <1>1, <1>3, <1>t, <2>1 DEF Owed, InUse
  <2>3. lst[h] = None
    BY <1>0, <1>1, <1>5, Known DEF Listens, PlaceOf
  <2> QED BY <2>2, <2>3
<1> QED BY <1>2, <1>3, <1>4, <1>5, <1>q, TurnsG DEF Opened

\* The last task of a handle ends.
LEMMA GoneG ==
    ASSUME SInv, GInv, NEW h \in Handle, Becomes(h, Gone),
           res' = res, wire' = wire, forfeit \subseteq forfeit',
           \A g \in Handle : g # h => lst'[g] \in {lst[g], None},
           \A q \in wire : q.h = h => q.by = "nobody",
           h \notin forfeit' => /\ \A r \in res : r.owner = h => r.kind = ComputeTask
                                /\ lst'[h] = None
    PROVE  GInv'
<1>1. Named(Gone)
  BY EndObjects DEF Named, InUse
<1>2. \A r \in res : r.kind = ComputeTask => Owed(Gone, r)
  BY EndObjects DEF Owed
<1> QED BY <1>1, <1>2, EndObjects, TurnsG

\* A handle in use keeps its resource from one stage to the next.
LEMMA StillOwed ==
    ASSUME NEW x, NEW n, NEW r, Owed(x, r), x.at \in InUse, n.at \in InUse,
           n.kind = x.kind, n.own = x.own, n.id = x.id, n.closed = x.closed, n.more = x.more,
           n.ans = None, x.at = "closing" => ~x.kind.takes /\ ~x.kind.lazy
    PROVE  Owed(n, r) /\ r.conn = x.own /\ r.id = x.id
  BY DEF Owed, InUse

LEMMA OpenFailsG ==
    ASSUME SInv, GInv, NEW h \in Handle, OpenFails(h)
    PROVE  GInv'
<1>1. \A q \in wire : q.h = h => q.by = "nobody"
  BY Quiet DEF OpenFails
<1>2. h \notin forfeit' => /\ \A r \in res : r.owner # h
                           /\ lst[h] = None
  BY Known DEF OpenFails, Owed, InUse, Listens, PlaceOf
<1> QED BY <1>1, <1>2, GoneG DEF OpenFails

LEMMA ListenG ==
    ASSUME SInv, GInv, NEW h \in Handle, Listen(h)
    PROVE  GInv'
<1>1. \A q \in wire : q.h = h => q.by = "nobody"
  BY Quiet DEF Listen
<1>2. /\ hs[h] \in Objects /\ PlaceOf(h, hs[h]) /\ Named(hs[h]) /\ hs[h].at = "listening"
      /\ hs[h].ans = None /\ ~hs[h].closed
  BY Known DEF Listen, PlaceOf
<1>3. ASSUME NEW c \in up, lst' = [lst EXCEPT ![h] = c],
             Becomes(h, [hs[h] EXCEPT !.at = "idle"])
      PROVE  GInv'
  <2> DEFINE n == [hs[h] EXCEPT !.at = "idle"]
  <2>1. /\ n \in Objects /\ n.at = "idle" /\ n.kind = hs[h].kind /\ n.own = hs[h].own
        /\ n.id = hs[h].id /\ n.ans = None /\ n.closed = hs[h].closed /\ n.more = hs[h].more
    BY <1>2 DEF Objects
  <2>2. Becomes(h, n)
    BY <1>3
  <2> HIDE DEF n
  <2>3. Named(n) /\ Listens(n)
    BY <1>2, <2>1 DEF Named, Listens, InUse
  <2>4. h \notin forfeit => \A r \in res : r.owner = h => Owed(n, r)
    BY <1>2, <2>1, Known, StillOwed DEF InUse
  <2>5. \A g \in Handle : g # h => lst'[g] = lst[g]
    BY <1>3, Known
  <2> QED BY <1>1, <2>1, <2>2, <2>3, <2>4, <2>5, TurnsG DEF Listen
<1>4. ASSUME \A c \in up : home[c] # hs[h].addr, Becomes(h, Gone), UNCHANGED lst
      PROVE  GInv'
  <2>1. h \notin forfeit => lst[h] = None
    BY <1>2, Known DEF Listens, PlaceOf
  <2>2. h \notin forfeit => \A r \in res : r.owner # h
    <3> SUFFICES ASSUME h \notin forfeit, NEW r \in res, r.owner = h PROVE FALSE
      OBVIOUS
    <3>1. r.conn = hs[h].own /\ r.conn \in up
      BY <1>2, Known DEF Owed, InUse
    <3>2. hs[h].own # None
      BY <3>1, HandlesAssumption DEF SInv, TypeOK
    <3> QED BY <1>2, <1>4, <3>1, <3>2 DEF PlaceOf
  <2> QED BY <1>1, <1>4, <2>1, <2>2, GoneG DEF Listen
<1> QED BY <1>3, <1>4 DEF Listen

\* mark_exhausted and the close it may send.
LEMMA ExhaustedG ==
    ASSUME SInv, GInv, NEW h \in Handle, NEW new \in Objects, Exhausted(h, new),
           UNCHANGED <<res, lst, forfeit>>, hs[h].kind \in Kind, hs[h].kind.paged,
           new.kind = hs[h].kind, new.own = hs[h].own, new.id = hs[h].id, new.at = "idle",
           new.ans = None, ~new.more,
           \A q \in wire : q.h = h => q.by = "nobody",
           h \notin forfeit => \A r \in res : r.owner = h => Owed(new, r)
    PROVE  GInv'
<1>1. ~hs[h].kind.heard /\ (h \notin forfeit => lst[h] = None)
  BY KindFacts, Known DEF Listens
<1>2. CASE Becomes(h, new) /\ UNCHANGED wire
  <2>1. Named(new)
    BY <1>1 DEF Named, InUse
  <2> QED BY <1>1, <1>2, <2>1, TurnsG
<1>3. CASE Send(h, "owner", "close", [new EXCEPT !.at = "closing"]) /\ new.kind.shuts
  <2> DEFINE n == [new EXCEPT !.at = "closing"]
  <2>1. /\ n \in Objects /\ n.at = "closing" /\ n.kind = new.kind /\ n.own = new.own
        /\ n.id = new.id /\ n.ans = None /\ n.closed = new.closed /\ n.more = new.more
    BY DEF Objects
  <2>2. Send(h, "owner", "close", n)
    BY <1>3
  <2> HIDE DEF n
  <2>3. Named(n) /\ Awaits(n, "owner", "close")
    BY <1>1, <2>1 DEF Named, InUse, Awaits
  <2>4. h \notin forfeit => \A r \in res : r.owner = h =>
            Owed(n, r) /\ r.conn = hs[h].own /\ r.id = hs[h].id
    BY <2>1, StillOwed DEF InUse
  <2> QED BY <1>1, <2>1, <2>2, <2>3, <2>4, SendsG DEF Opens
<1>4. CASE /\ Becomes(h, [new EXCEPT !.closed = TRUE, !.id = IF new.kind.takes THEN None ELSE @])
           /\ UNCHANGED wire /\ ~new.kind.shuts
  <2> DEFINE n == [new EXCEPT !.closed = TRUE, !.id = IF new.kind.takes THEN None ELSE @]
  <2>1. n \in Objects /\ n.at = "idle" /\ n.kind = new.kind
    <3>1. CASE new.kind.takes
      BY <3>1, ZenonT(30) DEF Objects
    <3>2. CASE ~new.kind.takes
      BY <3>2, ZenonT(30) DEF Objects
    <3> QED BY <3>1, <3>2
  <2>2. Becomes(h, n)
    BY <1>4
  <2> HIDE DEF n
  <2>3. Named(n)
    BY <1>1, <2>1 DEF Named, InUse
  <2>4. h \notin forfeit => \A r \in res : r.owner # h
    BY <1>4 DEF Owed
  <2> QED BY <1>1, <1>4, <2>1, <2>2, <2>3, <2>4, TurnsG
<1> QED BY <1>2, <1>3, <1>4 DEF Exhausted

LEMMA NextPageG ==
    ASSUME SInv, GInv, NEW h \in Handle, NextPage(h)
    PROVE  GInv'
<1>1. /\ hs[h] \in Objects /\ PlaceOf(h, hs[h]) /\ Named(hs[h]) /\ hs[h].at = "idle"
      /\ hs[h].kind.paged /\ hs[h].kind \in Kind /\ hs[h].ans = None /\ ~hs[h].kind.heard
      /\ (h \notin forfeit => lst[h] = None) /\ lst' = lst
  BY Known, KindFacts DEF NextPage, PlaceOf, Listens
<1>2. \A q \in wire : q.h = h => q.by = "nobody"
  BY <1>1, Quiet
<1> DEFINE n == [hs[h] EXCEPT !.pend = FALSE]
           m == [hs[h] EXCEPT !.at = "paging"]
<1>3. /\ n \in Objects /\ n.at = "idle" /\ n.kind = hs[h].kind /\ n.own = hs[h].own
      /\ n.id = hs[h].id /\ n.ans = None /\ n.closed = hs[h].closed /\ n.more = hs[h].more
  BY <1>1, ZenonT(30) DEF Objects
<1>4. /\ m \in Objects /\ m.at = "paging" /\ m.kind = hs[h].kind /\ m.own = hs[h].own
      /\ m.id = hs[h].id /\ m.ans = None /\ m.closed = hs[h].closed /\ m.more = hs[h].more
  BY <1>1 DEF Objects
<1>5. \/ Becomes(h, n) /\ UNCHANGED wire
      \/ Exhausted(h, n) /\ ~hs[h].more
      \/ Send(h, "owner", "page", m)
  BY DEF NextPage
<1> HIDE DEF n, m
<1>6. h \notin forfeit => \A r \in res : r.owner = h =>
          Owed(n, r) /\ Owed(m, r) /\ r.conn = hs[h].own /\ r.id = hs[h].id
  <2> SUFFICES ASSUME h \notin forfeit, NEW r \in res, r.owner = h
               PROVE  Owed(n, r) /\ Owed(m, r) /\ r.conn = hs[h].own /\ r.id = hs[h].id
    OBVIOUS
  <2>1. Owed(hs[h], r)
    BY Known
  <2>2. hs[h].at \in InUse /\ n.at \in InUse /\ m.at \in InUse
    BY <1>1, <1>3, <1>4 DEF InUse
  <2>3. hs[h].at # "closing"
    BY <1>1
  <2>4. Owed(n, r) /\ r.conn = hs[h].own /\ r.id = hs[h].id
    BY <1>3, <2>1, <2>2, <2>3, StillOwed
  <2>5. Owed(m, r)
    BY <1>4, <2>1, <2>2, <2>3, StillOwed
  <2> QED BY <2>4, <2>5
<1>7. Named(n) /\ Named(m)
  BY <1>1, <1>3, <1>4 DEF Named, InUse
<1>8. CASE Becomes(h, n) /\ UNCHANGED wire
  BY <1>1, <1>2, <1>3, <1>6, <1>7, <1>8, TurnsG DEF NextPage
<1>9. CASE Exhausted(h, n) /\ ~hs[h].more
  BY <1>1, <1>2, <1>3, <1>6, <1>9, ExhaustedG DEF NextPage
<1>10. CASE Send(h, "owner", "page", m)
  <2>1. Awaits(m, "owner", "page")
    BY <1>4 DEF Awaits
  <2> QED BY <1>1, <1>2, <1>4, <1>6, <1>7, <1>10, <2>1, SendsG DEF NextPage, Opens
<1> QED BY <1>5, <1>8, <1>9, <1>10

LEMMA PagedG ==
    ASSUME SInv, GInv, NEW h \in Handle, Paged(h)
    PROVE  GInv'
<1>1. /\ hs[h] \in Objects /\ PlaceOf(h, hs[h]) /\ Named(hs[h]) /\ hs[h].at = "paging"
      /\ hs[h].kind.paged /\ hs[h].kind \in Kind /\ hs[h].ans # None /\ ~hs[h].kind.heard
      /\ (h \notin forfeit => lst[h] = None) /\ lst' = lst
  BY Known, KindFacts DEF Paged, PlaceOf, Listens
<1>2. \A q \in wire : q.h = h => q.by = "nobody"
  BY <1>1, Quiet
<1> DEFINE back == [hs[h] EXCEPT !.at = "idle", !.ans = None]
           n == [back EXCEPT !.more = FALSE]
<1>3. /\ back \in Objects /\ back.at = "idle" /\ back.kind = hs[h].kind /\ back.own = hs[h].own
      /\ back.id = hs[h].id /\ back.ans = None /\ back.closed = hs[h].closed
      /\ back.more = hs[h].more
  BY <1>1, ZenonT(30) DEF Objects
<1>4. \/ Becomes(h, back) /\ UNCHANGED wire
      \/ Exhausted(h, n) /\ hs[h].ans.ok /\ ~hs[h].ans.more
  BY DEF Paged
<1> HIDE DEF back
<1>5. /\ n \in Objects /\ n.at = "idle" /\ n.kind = hs[h].kind /\ n.own = hs[h].own
      /\ n.id = hs[h].id /\ n.ans = None /\ n.closed = hs[h].closed /\ ~n.more
  BY <1>3, ZenonT(30) DEF Objects
<1> HIDE DEF n
<1>6. CASE Becomes(h, back) /\ UNCHANGED wire
  <2>1. h \notin forfeit => \A r \in res : r.owner = h => Owed(back, r)
    BY <1>1, <1>3, Known, StillOwed DEF InUse
  <2>2. Named(back)
    BY <1>1, <1>3 DEF Named, InUse
  <2> QED BY <1>1, <1>2, <1>3, <1>6, <2>1, <2>2, TurnsG DEF Paged
<1>7. CASE Exhausted(h, n) /\ hs[h].ans.ok /\ ~hs[h].ans.more
  <2>1. h \notin forfeit => \A r \in res : r.owner = h => Owed(hs[h], r)
    BY Known
  <2>2. h \notin forfeit => \A r \in res : r.owner = h => Owed(n, r)
    BY <1>1, <1>5, <1>7, <2>1 DEF Owed, InUse
  <2> QED BY <1>1, <1>2, <1>5, <1>7, <2>2, ExhaustedG DEF Paged
<1> QED BY <1>4, <1>6, <1>7

LEMMA AddDataG ==
    ASSUME SInv, GInv, NEW h \in Handle, AddData(h)
    PROVE  GInv'
<1>1. /\ hs[h] \in Objects /\ PlaceOf(h, hs[h]) /\ hs[h].at = "idle" /\ hs[h].kind.lazy
      /\ ~hs[h].closed /\ hs[h].ans = None /\ hs[h].kind \in Kind
      /\ ~hs[h].kind.heard /\ hs[h].kind.takes /\ ~hs[h].kind.paged
      /\ (h \notin forfeit => lst[h] = None) /\ lst' = lst
  BY Known, KindFacts DEF AddData, PlaceOf, Listens
<1>2. \A q \in wire : q.h = h => q.by = "nobody"
  BY <1>1, Quiet
<1> DEFINE n(stage) == [hs[h] EXCEPT !.at = stage]
           m == [hs[h] EXCEPT !.closed = TRUE, !.id = None, !.at = "closing"]
<1>3. ASSUME NEW stage \in {"opening", "adding"}
      PROVE  /\ n(stage) \in Objects /\ n(stage).at = stage /\ n(stage).kind = hs[h].kind
             /\ n(stage).own = hs[h].own /\ n(stage).id = hs[h].id /\ n(stage).ans = None
             /\ n(stage).closed = hs[h].closed /\ n(stage).more = hs[h].more
  BY <1>1 DEF Objects
<1>4. /\ m \in Objects /\ m.at = "closing" /\ m.kind = hs[h].kind /\ m.own = hs[h].own
      /\ m.ans = None
  BY <1>1, ZenonT(30) DEF Objects
<1>5. \/ hs[h].id = None /\ Send(h, "owner", "open", n("opening"))
      \/ hs[h].id # None /\ Send(h, "owner", "add", n("adding"))
      \/ hs[h].id = None /\ Send(h, "owner", "oneshot", m)
      \/ hs[h].id # None /\ Send(h, "owner", "addclose", m)
  BY DEF AddData
<1> HIDE DEF n, m
<1>6. h \notin forfeit => \A r \in res : r.owner = h =>
          /\ Owed(hs[h], r) /\ r.kind = hs[h].kind
          /\ r.conn = hs[h].own /\ r.id = hs[h].id /\ hs[h].id # None
  <2> SUFFICES ASSUME h \notin forfeit, NEW r \in res, r.owner = h
               PROVE  /\ Owed(hs[h], r) /\ r.kind = hs[h].kind
                      /\ r.conn = hs[h].own /\ r.id = hs[h].id /\ hs[h].id # None
    OBVIOUS
  <2>1. Owed(hs[h], r) /\ r.id # None
    BY Known
  <2> QED BY <1>1, <2>1 DEF Owed, InUse
<1>7. h \notin forfeit => \A r \in res : r.owner = h => Owed(n("adding"), r) /\ Owed(m, r)
  <2>1. h \notin forfeit => \A r \in res : r.owner = h => Owed(n("adding"), r)
    BY <1>1, <1>3, <1>6, StillOwed DEF InUse
  <2>2. h \notin forfeit => \A r \in res : r.owner = h => Owed(m, r)
    BY <1>1, <1>4, <1>6 DEF Owed, InUse
  <2> QED BY <2>1, <2>2
<1>8. Named(n("opening")) /\ Named(n("adding")) /\ Named(m)
  BY <1>1, <1>3, <1>4 DEF Named, InUse
<1>9. CASE hs[h].id = None /\ Send(h, "owner", "open", n("opening"))
  <2>1. Awaits(n("opening"), "owner", "open")
    BY <1>3 DEF Awaits
  <2> QED BY <1>1, <1>2, <1>3, <1>6, <1>8, <1>9, <2>1, SendsG DEF AddData
<1>10. CASE hs[h].id # None /\ Send(h, "owner", "add", n("adding"))
  <2>1. Awaits(n("adding"), "owner", "add")
    BY <1>3 DEF Awaits
  <2> QED BY <1>1, <1>2, <1>3, <1>6, <1>7, <1>8, <1>10, <2>1, SendsG DEF AddData, Opens
<1>11. CASE hs[h].id = None /\ Send(h, "owner", "oneshot", m)
  <2>1. Awaits(m, "owner", "oneshot")
    BY <1>4 DEF Awaits
  <2> QED BY <1>1, <1>2, <1>4, <1>6, <1>8, <1>11, <2>1, SendsG DEF AddData
<1>12. CASE hs[h].id # None /\ Send(h, "owner", "addclose", m)
  <2>1. Awaits(m, "owner", "addclose")
    BY <1>4 DEF Awaits
  <2> QED BY <1>1, <1>2, <1>4, <1>6, <1>7, <1>8, <1>12, <2>1, SendsG DEF AddData, Opens
<1> QED BY <1>5, <1>9, <1>10, <1>11, <1>12

LEMMA AddedG ==
    ASSUME SInv, GInv, NEW h \in Handle, Added(h)
    PROVE  GInv'
<1> DEFINE n == [hs[h] EXCEPT !.at = "idle", !.ans = None]
<1>1. /\ hs[h] \in Objects /\ PlaceOf(h, hs[h]) /\ hs[h].kind \in Kind /\ hs[h].ans # None
      /\ ~hs[h].kind.heard
      /\ (h \notin forfeit => lst[h] = None) /\ lst' = lst
  BY Known, KindFacts DEF Added, PlaceOf, Listens
<1>2. \A q \in wire : q.h = h => q.by = "nobody"
  BY <1>1, Quiet
<1>3. /\ n \in Objects /\ n.at = "idle" /\ n.kind = hs[h].kind /\ n.own = hs[h].own
      /\ n.id = hs[h].id /\ n.ans = None /\ n.closed = hs[h].closed /\ n.more = hs[h].more
  BY <1>1, ZenonT(30) DEF Objects
<1>4. Becomes(h, n)
  BY DEF Added
<1> HIDE DEF n
<1>5. Named(n)
  BY <1>1, <1>3 DEF Named, InUse
<1>6. h \notin forfeit => \A r \in res : r.owner = h => Owed(n, r)
  <2>1. CASE hs[h].at = "adding"
    BY <1>1, <1>3, <2>1, Known, StillOwed DEF InUse
  <2>2. CASE hs[h].at = "opening" /\ ~hs[h].ans.ok
    BY <2>2, Known DEF Owed, InUse
  <2> QED BY <2>1, <2>2 DEF Added
<1> QED BY <1>1, <1>2, <1>3, <1>4, <1>5, <1>6, TurnsG DEF Added

LEMMA CloseG ==
    ASSUME SInv, GInv, NEW h \in Handle, Close(h)
    PROVE  GInv'
<1> DEFINE k == hs[h].kind
           n == [hs[h] EXCEPT !.at = "closing", !.id = IF k.takes THEN None ELSE @,
                              !.closed = k.eager]
           m == [n EXCEPT !.at = "idle", !.closed = TRUE]
<1>1. /\ hs[h] \in Objects /\ PlaceOf(h, hs[h]) /\ Named(hs[h]) /\ k \in Kind
      /\ hs[h].at = "idle" /\ ~hs[h].closed /\ hs[h].ans = None
      /\ lst \in [Handle -> Conn \cup {None}]
  BY Known DEF Close, PlaceOf
<1>2. \A q \in wire : q.h = h => q.by = "nobody"
  BY <1>1, Quiet
<1>3. k.takes \in BOOLEAN /\ k.eager \in BOOLEAN /\ k.lazy \in BOOLEAN
  BY <1>1, KindFacts
<1>4. /\ n \in Objects /\ n.at = "closing" /\ n.kind = k /\ n.own = hs[h].own
      /\ (~k.takes => n.id = hs[h].id) /\ n.ans = None /\ n.closed = k.eager
      /\ n.more = hs[h].more
  <2>1. CASE k.takes
    BY <1>1, <1>3, <2>1, ZenonT(30) DEF Objects
  <2>2. CASE ~k.takes
    BY <1>1, <1>3, <2>2, ZenonT(30) DEF Objects
  <2> QED BY <1>3, <2>1, <2>2
<1>5. IF hs[h].id = None THEN Becomes(h, m) /\ UNCHANGED wire
      ELSE Send(h, "owner", IF k.lazy THEN "addclose" ELSE "close", n)
  BY DEF Close
<1> HIDE DEF n
<1>6. m \in Objects /\ m.at = "idle" /\ m.kind = k /\ m.id = n.id
  BY <1>4, ZenonT(30) DEF Objects
<1> HIDE DEF m
<1>7. h \notin forfeit => \A r \in res : r.owner = h =>
          /\ Owed(hs[h], r) /\ r.kind = k
          /\ r.conn = hs[h].own /\ r.id = hs[h].id /\ hs[h].id # None
  <2> SUFFICES ASSUME h \notin forfeit, NEW r \in res, r.owner = h
               PROVE  /\ Owed(hs[h], r) /\ r.kind = hs[h].kind
                      /\ r.conn = hs[h].own /\ r.id = hs[h].id /\ hs[h].id # None
    OBVIOUS
  <2>1. Owed(hs[h], r) /\ r.id # None
    BY Known
  <2> QED BY <1>1, <2>1 DEF Owed, InUse
<1>8. /\ \A g \in Handle : lst'[g] = lst[g] \/ lst'[g] = None
      /\ k = ContinuousQueryCursor => lst'[h] = None
  BY <1>1 DEF Close
<1>9. k.heard => ~k.takes /\ (k = ContinuousQueryCursor \/ k = ComputeTask)
  BY <1>1, KindFacts
<1>10. Named(n) /\ (hs[h].id = None => ~k.heard /\ Named(m))
  BY <1>1, <1>4, <1>6, <1>9 DEF Named, InUse
<1>11. CASE hs[h].id = None
  <2>1. h \notin forfeit => lst'[h] = None
    BY <1>8, <1>10, <1>11, Known DEF Listens
  <2> QED BY <1>2, <1>5, <1>6, <1>7, <1>8, <1>10, <1>11, <2>1, TurnsG DEF Close
<1>12. CASE hs[h].id # None
  <2>1. h \notin forfeit => \A r \in res : r.owner = h => Owed(n, r)
    <3>1. k.eager => k = ComputeTask \/ k.lazy
      BY <1>1, KindFacts
    <3> QED BY <1>1, <1>3, <1>4, <1>7, <3>1 DEF Owed, InUse
  <2>2. h \notin forfeit /\ lst'[h] # None => Listens(n)
    BY <1>1, <1>4, <1>8, <1>9, Known DEF Listens
  <2>3. PICK op \in {"addclose", "close"} : Send(h, "owner", op, n)
    BY <1>5, <1>12
  <2>4. Awaits(n, "owner", op)
    BY <1>4 DEF Awaits
  <2> QED BY <1>2, <1>4, <1>7, <1>8, <1>10, <2>1, <2>2, <2>3, <2>4, SendsG DEF Close, Opens
<1> QED BY <1>11, <1>12

LEMMA ClosedG ==
    ASSUME SInv, GInv, NEW h \in Handle, Closed(h)
    PROVE  GInv'
<1> DEFINE k == hs[h].kind
           good == hs[h].ans.ok \/ (k = ComputeTask /\ hs[h].ans.gone)
           n == [hs[h] EXCEPT !.at = "idle", !.ans = None, !.closed = @ \/ good]
<1>1. /\ hs[h] \in Objects /\ PlaceOf(h, hs[h]) /\ Named(hs[h]) /\ hs[h].at = "closing"
      /\ hs[h].ans \in Answers /\ hs[h].ans # None /\ k \in Kind /\ hs[h].closed \in BOOLEAN
      /\ lst \in [Handle -> Conn \cup {None}]
  BY Known DEF Closed, PlaceOf, Objects
<1>2. \A q \in wire : q.h = h => q.by = "nobody"
  BY <1>1, Quiet
<1>3. good \in BOOLEAN /\ (hs[h].ans.ok => good) /\ (good /\ k # ComputeTask => hs[h].ans.ok)
  BY <1>1 DEF Answers
<1>4. /\ Becomes(h, n)
      /\ lst' = IF good /\ k = ComputeTask THEN [lst EXCEPT ![h] = None] ELSE lst
      /\ forfeit' = IF ~good /\ (k.takes \/ k.eager) THEN forfeit \cup {h} ELSE forfeit
  BY DEF Closed
<1> HIDE DEF good
<1>5. /\ n \in Objects /\ n.at = "idle" /\ n.kind = k /\ n.own = hs[h].own
      /\ n.id = hs[h].id /\ n.ans = None /\ n.more = hs[h].more
      /\ n.closed = (hs[h].closed \/ good)
  BY <1>1, <1>3, ZenonT(30) DEF Objects
<1> HIDE DEF n
<1>6. Named(n)
  BY <1>1, <1>5 DEF Named, InUse
<1>7. \A g \in Handle : g # h => lst'[g] = lst[g]
  BY <1>1, <1>4
<1>8. /\ k = ComputeTask => k.eager /\ ~k.takes /\ ~k.lazy
      /\ k.lazy => k.eager
  BY <1>1, KindFacts
<1>9. ASSUME h \notin forfeit', NEW r \in res, r.owner = h PROVE Owed(n, r)
  <2>1. Owed(hs[h], r) /\ ~hs[h].ans.ok
    BY <1>1, <1>4, <1>9, Known DEF Owed, InUse
  <2>2. CASE good
    BY <1>1, <1>3, <1>5, <1>8, <2>1, <2>2 DEF Owed, InUse
  <2>3. CASE ~good
    <3>1. ~k.takes /\ ~k.eager /\ ~k.lazy /\ k # ComputeTask
      BY <1>4, <1>8, <1>9, <2>3
    <3> QED BY <1>1, <1>3, <1>5, <2>1, <2>3, <3>1 DEF Owed, InUse
  <2> QED BY <1>3, <2>2, <2>3
<1>10. h \notin forfeit' => lst'[h] = None
  <2> SUFFICES ASSUME h \notin forfeit', lst[h] # None PROVE lst'[h] = None
    BY <1>1, <1>4
  <2>1. k = ComputeTask
    BY <1>1, <1>4, Known DEF Listens, PlaceOf
  <2> QED BY <1>1, <1>4, <1>8, <2>1
<1> QED BY <1>2, <1>4, <1>5, <1>6, <1>7, <1>9, <1>10, TurnsG DEF Closed

LEMMA DropG ==
    ASSUME SInv, GInv, NEW h \in Handle, Drop(h)
    PROVE  GInv'
<1> DEFINE n == [hs[h] EXCEPT !.at = "dropped", !.bg = "send"]
<1>1. /\ hs[h] \in Objects /\ PlaceOf(h, hs[h]) /\ Named(hs[h]) /\ hs[h].at = "idle"
      /\ hs[h].ans = None /\ hs[h].bg = "none" /\ lst' = lst
  BY Known DEF Drop, PlaceOf, Objects
<1>2. \A q \in wire : q.h = h => q.by = "nobody"
  BY <1>1, Quiet
<1>3. /\ n \in Objects /\ n.at = "dropped" /\ n.bg = "send" /\ n.kind = hs[h].kind
      /\ n.own = hs[h].own /\ n.id = hs[h].id /\ n.ans = None /\ n.closed = hs[h].closed
  BY <1>1, ZenonT(30) DEF Objects
<1>4. Becomes(h, IF hs[h].closed \/ hs[h].id = None THEN Gone ELSE n)
  BY DEF Drop
<1> HIDE DEF n
<1>5. h \notin forfeit => \A r \in res : r.owner = h =>
          /\ r.kind = hs[h].kind /\ r.conn = hs[h].own /\ r.id = hs[h].id /\ hs[h].id # None
          /\ hs[h].closed => hs[h].kind = ComputeTask
  BY <1>1, Known DEF Owed, InUse
<1>6. h \notin forfeit /\ lst[h] # None => Listens(hs[h]) /\ hs[h].id # None /\ ~hs[h].closed
  BY <1>1, Known DEF Listens, Named, InUse
<1>7. CASE hs[h].closed \/ hs[h].id = None
  BY <1>1, <1>2, <1>4, <1>5, <1>6, <1>7, GoneG DEF Drop
<1>8. CASE ~(hs[h].closed \/ hs[h].id = None)
  <2>1. Named(n)
    BY <1>3 DEF Named, InUse
  <2>2. h \notin forfeit => \A r \in res : r.owner = h => Owed(n, r)
    BY <1>3, <1>5 DEF Owed
  <2>3. h \notin forfeit /\ lst[h] # None => Listens(n)
    BY <1>3, <1>6 DEF Listens
  <2> QED BY <1>1, <1>2, <1>3, <1>4, <1>8, <2>1, <2>2, <2>3, TurnsG DEF Drop
<1> QED BY <1>7, <1>8

LEMMA DropTaskG ==
    ASSUME SInv, GInv, NEW h \in Handle, DropTask(h)
    PROVE  GInv'
<1> DEFINE n == [hs[h] EXCEPT !.bg = "sent"]
<1>1. /\ hs[h] \in Objects /\ PlaceOf(h, hs[h]) /\ hs[h].bg = "send" /\ hs[h].at = "dropped"
      /\ hs[h].ans = None /\ hs[h].kind \in Kind /\ lst \in [Handle -> Conn \cup {None}]
  BY Known DEF DropTask, PlaceOf
<1>2. \A q \in wire : q.h = h => q.by = "nobody"
  BY <1>1, Quiet
<1>3. /\ n \in Objects /\ n.bg = "sent" /\ n.at = "dropped" /\ n.kind = hs[h].kind
      /\ n.own = hs[h].own /\ n.id = hs[h].id /\ n.ans = None
  BY <1>1 DEF Objects
<1>4. IF hs[h].kind = ComputeTask THEN Becomes(h, Gone) /\ UNCHANGED wire
      ELSE Send(h, "drop", IF hs[h].kind.lazy THEN "addclose" ELSE "close", n)
  BY DEF DropTask
<1> HIDE DEF n
<1>5. h \notin forfeit => \A r \in res : r.owner = h =>
          r.kind = hs[h].kind /\ r.conn = hs[h].own /\ r.id = hs[h].id
  BY <1>1, Known DEF Owed, InUse
<1>6. /\ \A g \in Handle : g # h => lst'[g] = lst[g]
      /\ h \notin forfeit => lst'[h] = None
  BY <1>1, Known DEF DropTask, Listens
<1>7. CASE hs[h].kind = ComputeTask
  BY <1>2, <1>4, <1>5, <1>6, <1>7, GoneG DEF DropTask
<1>8. CASE hs[h].kind # ComputeTask
  <2>1. PICK op \in {"addclose", "close"} : Send(h, "drop", op, n)
    BY <1>4, <1>8
  <2>2. Awaits(n, "drop", op) /\ Named(n)
    BY <1>3 DEF Awaits, Named, InUse
  <2>3. h \notin forfeit => \A r \in res : r.owner = h => Owed(n, r)
    BY <1>3, <1>5 DEF Owed
  <2> QED BY <1>2, <1>3, <1>5, <1>6, <2>1, <2>2, <2>3, SendsG DEF DropTask, Opens
<1> QED BY <1>7, <1>8

LEMMA DropTaskEndsG ==
    ASSUME SInv, GInv, NEW h \in Handle, DropTaskEnds(h)
    PROVE  GInv'
<1>1. \A q \in wire : q.h = h => q.by = "nobody"
  BY Quiet DEF DropTaskEnds
<1>2. PlaceOf(h, hs[h]) /\ hs[h].bg = "sent" /\ hs[h].at = "dropped" /\ hs[h].ans # None
  BY Known DEF DropTaskEnds, PlaceOf
<1>3. h \notin forfeit' => (\A r \in res : r.owner # h) /\ lst[h] = None
  BY <1>2, Known DEF DropTaskEnds, Owed, InUse, Listens
<1> QED BY <1>1, <1>3, GoneG DEF DropTaskEnds

LEMMA WaitG ==
    ASSUME SInv, GInv, NEW h \in Handle, Wait(h)
    PROVE  GInv'
<1>1. /\ \A g \in Handle : lst'[g] = lst[g] \/ lst'[g] = None
      /\ UNCHANGED <<hs, res, wire, forfeit>>
  BY DEF Wait, SInv, TypeOK
<1>2. \A q \in wire' : Asked(q)'
  BY <1>1 DEF GInv, Asked
<1> QED BY <1>1, <1>2 DEF GInv

LEMMA CancelG ==
    ASSUME SInv, GInv, NEW h \in Handle, Cancel(h)
    PROVE  GInv'
<1> DEFINE back == [hs[h] EXCEPT !.at = "idle", !.ans = None]
           n == IF hs[h].at \in {"opening", "listening"} /\ ~hs[h].kind.lazy THEN Gone ELSE back
           late(q) == IF q.h = h THEN [q EXCEPT !.by = "nobody"] ELSE q
<1>1. /\ hs[h] \in Objects /\ PlaceOf(h, hs[h]) /\ Named(hs[h]) /\ hs[h].kind \in Kind
      /\ hs[h].at \in {"opening", "listening", "paging", "adding", "closing"}
  BY Known DEF Cancel, PlaceOf
<1>2. /\ back \in Objects /\ back.at = "idle" /\ back.kind = hs[h].kind /\ back.own = hs[h].own
      /\ back.id = hs[h].id /\ back.ans = None /\ back.closed = hs[h].closed
      /\ back.more = hs[h].more
  BY <1>1, ZenonT(30) DEF Objects
<1>3. /\ Becomes(h, n) /\ wire' = {late(q) : q \in wire} /\ res' = res /\ lst' = lst
      /\ forfeit \subseteq forfeit' /\ forfeit' \subseteq forfeit \cup {h}
      /\ hs[h].at \in {"opening", "listening"} => h \in forfeit'
      /\ hs[h].at = "closing" /\ (hs[h].kind.takes \/ hs[h].kind.eager) => h \in forfeit'
  BY DEF Cancel
<1> HIDE DEF back
<1>4. Named(n)
  <2>1. Named(Gone)
    BY EndObjects DEF Named, InUse
  <2>2. CASE n = back
    <3>1. back.kind.heard => hs[h].at \in InUse \/ hs[h].kind.lazy
      BY <1>1, <2>2, EndObjects, <1>2 DEF InUse
    <3>2. ~(hs[h].kind.lazy /\ hs[h].kind.heard)
      BY <1>1, KindFacts
    <3> QED BY <1>1, <1>2, <2>2, <3>1, <3>2 DEF Named, InUse
  <2> QED BY <2>1, <2>2
<1>5. ASSUME h \notin forfeit' PROVE n = back /\ lst[h] = None
                                     /\ \A r \in res : r.owner = h => Owed(back, r)
  <2>1. /\ hs[h].at \in {"paging", "adding", "closing"}
        /\ hs[h].at = "closing" => ~hs[h].kind.takes /\ ~hs[h].kind.eager
    BY <1>1, <1>3, <1>5
  <2>2. /\ hs[h].kind.lazy => hs[h].kind.eager
        /\ hs[h].kind = ComputeTask => hs[h].kind.eager
    BY <1>1, KindFacts
  <2>3. \A r \in res : r.owner = h => Owed(back, r)
    BY <1>2, <1>3, <1>5, <2>1, <2>2, Known, StillOwed DEF InUse
  <2>4. lst[h] = None
    BY <1>1, <1>3, <1>5, <2>1, <2>2, Known DEF Listens, PlaceOf
  <2> QED BY <2>1, <2>3, <2>4
<1> HIDE DEF n
<1>6. hs'[h] = n /\ \A g \in Handle : g # h => hs'[g] = hs[g]
  BY <1>3 DEF SInv, TypeOK, Becomes
<1>7. \A g \in Handle : Named(hs'[g])
  BY <1>4, <1>6 DEF GInv
<1>8. \A g \in Handle \ forfeit' : /\ \A r \in res' : r.owner = g => Owed(hs'[g], r)
                                   /\ lst'[g] # None => Listens(hs'[g])
  BY <1>3, <1>5, <1>6 DEF GInv
<1>9. ASSUME NEW q \in wire PROVE Asked(late(q))'
  <2>1. CASE q.h # h
    BY <1>3, <2>1 DEF GInv, Asked
  <2>2. CASE q.h = h
    <3>1. q \in Messages /\ Carried(q) /\ Asked(q)
      BY DEF SInv, TypeOK, GInv
    <3>2. /\ late(q).h = q.h /\ late(q).op = q.op /\ late(q).by = "nobody"
      BY <2>2, <3>1 DEF Messages
    <3>3. q.op = "open" => h \in forfeit'
      BY <1>3, <2>2, <3>1 DEF Asked, Carried, Awaits
    <3> HIDE DEF late
    <3> QED BY <2>2, <3>2, <3>3 DEF Asked
  <2> QED BY <2>1, <2>2
<1> HIDE DEF late
<1>10. \A q \in wire' : Asked(q)'
  BY <1>3, <1>9
<1> QED BY <1>7, <1>8, <1>10 DEF GInv

\* The answer a reaches whoever waits for q; resources only go away, or the one that
\* was opened comes.
LEMMA DeliverG ==
    ASSUME SInv, GInv, NEW q \in wire, NEW a \in Answers, wire' = wire \ {q}, Deliver(q, a),
           UNCHANGED <<lst, forfeit>>,
           \A r \in res' : r \in res \/ r.owner = q.h,
           q.by = "nobody" => res' \subseteq res \/ q.h \in forfeit,
           q.by # "nobody" =>
             LET n == [hs[q.h] EXCEPT !.ans = a]
             IN /\ Named(n)
                /\ q.h \notin forfeit => \A r \in res' : r.owner = q.h => Owed(n, r)
    PROVE  GInv'
<1>1. q \in Messages /\ q.h \in Handle /\ Carried(q) /\ hs[q.h] \in Objects
  BY DEF SInv, TypeOK, Messages
<1> DEFINE n == [hs[q.h] EXCEPT !.ans = a]
<1>2. /\ n.at = hs[q.h].at /\ n.bg = hs[q.h].bg /\ n.kind = hs[q.h].kind
      /\ n.closed = hs[q.h].closed
  BY <1>1 DEF Objects
<1>3. /\ IF q.by # "nobody" THEN Becomes(q.h, n) ELSE UNCHANGED hs
      /\ q.by # "nobody" => /\ Named(n)
                            /\ q.h \notin forfeit => \A r \in res' : r.owner = q.h => Owed(n, r)
  BY DEF Deliver
<1> HIDE DEF n
<1>4. \A g \in Handle : hs'[g] = IF g = q.h /\ q.by # "nobody" THEN n ELSE hs[g]
  BY <1>3 DEF Becomes, SInv, TypeOK
<1>5. \A g \in Handle : Named(hs'[g])
  BY <1>3, <1>4 DEF GInv
<1>6. ASSUME NEW g \in Handle \ forfeit'
      PROVE  /\ \A r \in res' : r.owner = g => Owed(hs'[g], r)
             /\ lst'[g] # None => Listens(hs'[g])
  <2>1. CASE g = q.h /\ q.by # "nobody"
    <3>1. Listens(hs[g]) => Listens(n)
      BY <1>2, <2>1 DEF Listens
    <3> QED BY <1>3, <1>4, <1>6, <2>1, <3>1 DEF GInv
  <2>2. CASE ~(g = q.h /\ q.by # "nobody")
    <3>1. \A r \in res' : r.owner = g => r \in res
      BY <1>6, <2>2
    <3> QED BY <1>4, <1>6, <2>2, <3>1 DEF GInv
  <2> QED BY <2>1, <2>2
<1>7. ASSUME NEW p \in wire' PROVE Asked(p)'
  <2>1. p \in wire /\ p # q /\ Asked(p) /\ Carried(p)
    BY DEF GInv, SInv
  <2>2. p.by # "nobody" /\ p.h \notin forfeit => \A r \in res' : r.owner = p.h => r \in res
    <3>1. p.by # "nobody" /\ p.h = q.h => q.by = "nobody"
      BY <2>1, <1>1 DEF Carried
    <3> QED BY <3>1
  <2> QED BY <2>1, <2>2 DEF Asked
<1> QED BY <1>5, <1>6, <1>7 DEF GInv

LEMMA ServerOpensG ==
    ASSUME SInv, GInv, NEW q \in wire, q.op \in Opens, wire' = wire \ {q}, ServerOpens(q),
           UNCHANGED <<lst, forfeit>>
    PROVE  GInv'
<1> DEFINE id == last[q.conn] + 1
           new == [conn |-> q.conn, id |-> id, owner |-> q.h, kind |-> q.kind]
<1>1. /\ q \in Messages /\ q.h \in Handle /\ q.kind \in Kind /\ q.conn \in Conn /\ id \in Id
      /\ id # None /\ Carried(q) /\ Asked(q) /\ hs[q.h] \in Objects /\ Named(hs[q.h])
  BY HandlesAssumption DEF SInv, GInv, TypeOK, Messages, ServerOpens
<1>2. PICK rows \in BOOLEAN, more \in BOOLEAN, keep \in BOOLEAN :
         /\ keep => more \/ q.kind.shuts
         /\ res' = IF keep /\ q.op = "open" THEN res \cup {new} ELSE res
         /\ Deliver(q, [ok |-> TRUE, gone |-> FALSE, conn |-> q.conn, rows |-> rows,
                        more |-> more,
                        id |-> IF new.kind = SetCursor /\ ~more THEN None ELSE id])
  <2>1. q.kind.shuts \in BOOLEAN
    BY <1>1, KindFacts
  <2> QED BY <2>1, ZenonT(30) DEF ServerOpens
<1> DEFINE i == IF q.kind = SetCursor /\ ~more THEN None ELSE id
           a == [ok |-> TRUE, gone |-> FALSE, conn |-> q.conn, rows |-> rows, more |-> more,
                 id |-> i]
           n == [hs[q.h] EXCEPT !.ans = a]
<1>3. Deliver(q, a)
  BY <1>2
<1>4. i \in {None, id} /\ (q.kind # SetCursor => i # None) /\ (more => i = id)
      /\ (q.kind # SetCursor => i = id)
  BY <1>1
<1>5. new.conn = q.conn /\ new.id = id /\ new.owner = q.h /\ new.kind = q.kind
  OBVIOUS
<1> HIDE DEF i, new
<1>6. a \in Answers /\ a.conn = q.conn /\ a.id = i /\ a.ok /\ a.more = more
  BY <1>1, <1>4 DEF Answers
<1> HIDE DEF a, id
<1>7. /\ n.at = hs[q.h].at /\ n.bg = hs[q.h].bg /\ n.kind = hs[q.h].kind /\ n.ans = a
      /\ n.id = hs[q.h].id
  BY <1>1 DEF Objects
<1>8. a # None
  BY <1>6, HandlesAssumption
<1> HIDE DEF n
<1>9. ASSUME q.by # "nobody" PROVE Named(n)
  <2>1. q.kind = hs[q.h].kind
    BY <1>1, <1>9 DEF Carried
  <2> QED BY <1>1, <1>4, <1>6, <1>7, <2>1 DEF Named
<1>10. ASSUME q.by # "nobody", q.h \notin forfeit, NEW r \in res', r.owner = q.h PROVE Owed(n, r)
  <2>1. \A s \in res : s.owner # q.h
    BY <1>1, <1>10 DEF Asked
  <2>2. r = new /\ keep /\ q.op = "open"
    BY <1>2, <1>10, <2>1
  <2>3. q.kind = hs[q.h].kind /\ hs[q.h].at = "opening"
    BY <1>1, <1>10, <2>2 DEF Carried, Awaits
  <2>4. i = id
    BY <1>1, <1>2, <1>4, <2>2, KindFacts
  <2> QED BY <1>2, <1>5, <1>6, <1>7, <1>8, <2>2, <2>3, <2>4 DEF Owed
<1>11. \A r \in res' : r \in res \/ r.owner = q.h
  BY <1>2, <1>5
<1>12. q.by = "nobody" => res' \subseteq res \/ q.h \in forfeit
  BY <1>1, <1>2 DEF Asked
<1> QED BY <1>3, <1>6, <1>9, <1>10, <1>11, <1>12, DeliverG DEF n

LEMMA ServerG ==
    ASSUME SInv, GInv, NEW q \in wire, ServerExecutes(q) \/ ServerFails(q)
    PROVE  GInv'
<1>0. /\ q \in Messages /\ q.h \in Handle /\ Carried(q) /\ Asked(q) /\ hs[q.h] \in Objects
      /\ Named(hs[q.h])
  BY DEF SInv, GInv, TypeOK, Messages
<1>1. Failed(FALSE) \in Answers /\ Failed(TRUE) \in Answers
  BY DEF Failed, Answers
<1>2. ASSUME NEW b \in BOOLEAN, wire' = wire \ {q}, Deliver(q, Failed(b)),
             UNCHANGED <<lst, forfeit, res>>
      PROVE  GInv'
  <2> DEFINE n == [hs[q.h] EXCEPT !.ans = Failed(b)]
  <2>1. Failed(b) \in Answers
    BY <1>1, <1>2
  <2>2. q.by # "nobody" => /\ Named(n)
                           /\ q.h \notin forfeit => \A r \in res' : r.owner = q.h => Owed(n, r)
    <3> SUFFICES ASSUME q.by # "nobody"
                 PROVE  /\ Named(n)
                        /\ q.h \notin forfeit => \A r \in res' : r.owner = q.h => Owed(n, r)
      OBVIOUS
    <3>1. Awaits(hs[q.h], q.by, q.op)
      BY <1>0 DEF Carried
    <3>2. (\A r : Owed(hs[q.h], r) => Owed(n, r)) /\ Named(n)
      BY <1>0, <3>1, FailedOwed
    <3> HIDE DEF n
    <3> QED BY <1>0, <1>2, <3>2 DEF GInv
  <2> QED BY <1>2, <2>1, <2>2, DeliverG
<1>3. CASE ServerFails(q)
  BY <1>2, <1>3 DEF ServerFails
<1>4. CASE ServerExecutes(q) /\ q.op \in Opens
  BY <1>4, ServerOpensG DEF ServerExecutes, Opens
<1>5. CASE ServerExecutes(q) /\ q.op \notin Opens
           /\ \A r \in res : r.conn = q.conn /\ r.id = q.id => ~Understands(r.kind, q.op)
  <2>1. /\ wire' = wire \ {q} /\ UNCHANGED <<lst, forfeit, res>>
        /\ Deliver(q, Failed(q.op = "close"))
    BY <1>5 DEF ServerExecutes, Opens
  <2>2. PICK b \in BOOLEAN : b = (q.op = "close")
    BY ZenonT(30)
  <2>3. Deliver(q, Failed(b))
    BY <2>1, <2>2
  <2> QED BY <1>2, <2>1, <2>3
<1>6. ASSUME ServerExecutes(q), q.op \notin Opens, NEW r \in res, r.conn = q.conn, r.id = q.id,
             ServerUses(q, r)
      PROVE  GInv'
  <2>0. r.kind.shuts \in BOOLEAN
    BY KindFacts DEF SInv, TypeOK
  <2>1. PICK more \in BOOLEAN, keep \in BOOLEAN :
           /\ keep => more \/ r.kind.shuts
           /\ res' = IF q.op \in {"close", "addclose"} \/ ~keep THEN res \ {r} ELSE res
           /\ Deliver(q, [ok |-> TRUE, gone |-> FALSE, conn |-> q.conn, rows |-> TRUE,
                          more |-> more, id |-> q.id])
    BY <1>6, <2>0, ZenonT(30) DEF ServerUses
  <2> DEFINE a == [ok |-> TRUE, gone |-> FALSE, conn |-> q.conn, rows |-> TRUE,
                   more |-> more, id |-> q.id]
             n == [hs[q.h] EXCEPT !.ans = a]
  <2>2. a \in Answers /\ a.more = more
    BY <1>0 DEF Answers, Messages
  <2>3. Deliver(q, a)
    BY <2>1
  <2> HIDE DEF a
  <2>4. wire' = wire \ {q} /\ UNCHANGED <<lst, forfeit>> /\ res' \subseteq res
    BY <1>6, <2>1 DEF ServerExecutes
  <2>5. /\ n.own = hs[q.h].own /\ n.id = hs[q.h].id /\ n.at = hs[q.h].at /\ n.bg = hs[q.h].bg
        /\ n.kind = hs[q.h].kind /\ n.closed = hs[q.h].closed /\ n.more = hs[q.h].more
        /\ n.ans = a
    BY <1>0 DEF Objects
  <2> HIDE DEF n
  <2>6. ASSUME q.by # "nobody"
        PROVE  /\ Named(n)
               /\ q.h \notin forfeit => \A s \in res' : s.owner = q.h => Owed(n, s)
    <3>1. Awaits(hs[q.h], q.by, q.op) /\ hs[q.h].at # "opening"
      BY <1>0, <1>6, <2>6 DEF Carried, Awaits, Opens
    <3>2. Named(n)
      BY <1>0, <2>5, <3>1 DEF Named
    <3>3. ASSUME q.h \notin forfeit, NEW s \in res', s.owner = q.h PROVE Owed(n, s)
      <4>1. s \in res /\ s.conn = q.own /\ s.id = q.id /\ s.conn \in up /\ Owed(hs[q.h], s)
        BY <1>0, <2>4, <2>6, <3>3 DEF Asked, SInv, Numbered, GInv
      <4>2. s = r
        BY <1>0, <1>6, <4>1 DEF Carried, SInv, Numbered
      <4>3. q.op \notin {"close", "addclose"} /\ keep
        BY <2>1, <3>3, <4>2
      <4>4. hs[q.h].at \in {"paging", "adding"}
        BY <3>1, <4>3, <1>6 DEF Awaits, Opens
      <4>5. more \/ hs[q.h].kind.shuts
        BY <2>1, <4>1, <4>2, <4>3, <4>4 DEF Owed, InUse
      <4> QED BY <2>2, <2>5, <4>1, <4>4, <4>5 DEF Owed, InUse
    <3> QED BY <3>2, <3>3
  <2> QED BY <2>2, <2>3, <2>4, <2>6, DeliverG DEF n
<1> QED BY <1>3, <1>4, <1>5, <1>6 DEF ServerExecutes, Opens

LEMMA BreakG ==
    ASSUME SInv, GInv, NEW c \in Conn, Break(c)
    PROVE  GInv'
<1> DEFINE Cut(h) == \E q \in wire : q.conn = c /\ q.h = h /\ q.by # "nobody"
           n(h) == [hs[h] EXCEPT !.ans = Failed(FALSE)]
<1>1. /\ res' \subseteq res /\ wire' \subseteq wire /\ forfeit' = forfeit
      /\ \A h \in Handle : lst'[h] = lst[h] \/ lst'[h] = None
  BY DEF Break
<1>2. \A h \in Handle : hs'[h] = IF Cut(h) THEN n(h) ELSE hs[h]
  BY DEF Break
<1>3. ASSUME NEW h \in Handle, Cut(h)
      PROVE  (\A r : Owed(hs[h], r) => Owed(n(h), r)) /\ (Listens(hs[h]) => Listens(n(h)))
             /\ Named(n(h))
  <2>1. PICK q \in wire : q.conn = c /\ q.h = h /\ q.by # "nobody"
    BY <1>3
  <2>2. Awaits(hs[h], q.by, q.op) /\ hs[h] \in Objects /\ Named(hs[h])
    BY <2>1 DEF SInv, GInv, TypeOK, Carried
  <2> QED BY <2>2, FailedOwed, ZenonT(30)
<1> HIDE DEF Cut, n
<1>4. \A h \in Handle : Named(hs'[h])
  BY <1>2, <1>3 DEF GInv
<1>5. \A h \in Handle \ forfeit' : /\ \A r \in res' : r.owner = h => Owed(hs'[h], r)
                                   /\ lst'[h] # None => Listens(hs'[h])
  BY <1>1, <1>2, <1>3 DEF GInv
<1>6. \A q \in wire' : Asked(q)'
  BY <1>1 DEF GInv, Asked
<1> QED BY <1>4, <1>5, <1>6 DEF GInv

LEMMA GStep ==
    ASSUME SInv, GInv, [Next]_vars
    PROVE  GInv'
<1>1. ASSUME res' \subseteq res, UNCHANGED <<hs, wire, lst, forfeit>> PROVE GInv'
  <2>1. \A q \in wire' : Asked(q)'
    BY <1>1 DEF GInv, Asked
  <2> QED BY <1>1, <2>1 DEF GInv
<1>2. CASE UNCHANGED vars
  BY <1>1, <1>2 DEF vars
<1>3. CASE TaskFinishes
  BY <1>1, <1>3 DEF TaskFinishes
<1>4. ASSUME NEW c \in Conn, Redial(c) PROVE GInv'
  BY <1>1, <1>4 DEF Redial
<1>5. CASE Next
  BY <1>3, <1>4, <1>5, OpenG, OpenedG, OpenFailsG, ListenG, NextPageG, PagedG, AddDataG, AddedG,
     CloseG, ClosedG, WaitG, DropG, DropTaskG, DropTaskEndsG, CancelG, ServerG, BreakG DEF Next
<1> QED BY <1>2, <1>5

LEMMA GInvariant ==
    ASSUME SpreadPinned
    PROVE  Spec => [](SInv /\ GInv)
<1>1. Init => SInv /\ GInv
  BY SInitial, GInitial
<1>2. (SInv /\ GInv) /\ [Next]_vars => (SInv /\ GInv)'
  BY SStep, GStep
<1> QED BY <1>1, <1>2, PTL DEF Spec

\* EntryCursor::closed: for any handles, kinds, addresses and connections, a cursor or
\* continuous query that says it is closed has no resource on the server, however late
\* answers come, unless an open was cancelled or could not be decoded, or a close
\* failed.
THEOREM ClosedIsGone ==
    ASSUME SpreadPinned
    PROVE  Spec => []ClosedMeansGone
<1>1. SInv /\ GInv => ClosedMeansGone
  <2> SUFFICES ASSUME SInv, GInv, NEW h \in Handle, hs[h].closed, ~hs[h].kind.eager,
                      h \notin forfeit, NEW r \in res, r.owner = h
               PROVE  FALSE
    BY DEF ClosedMeansGone
  <2>1. hs[h] \in Objects /\ PlaceOf(h, hs[h]) /\ Owed(hs[h], r)
    BY Known
  <2>2. hs[h].at \in InUse /\ hs[h].kind \in Kind
    BY <2>1, EndObjects DEF PlaceOf, Owed, InUse
  <2>3. hs[h].kind = ComputeTask \/ hs[h].kind.lazy
    BY <2>1, <2>2 DEF Owed, InUse
  <2> QED BY <2>2, <2>3, KindFacts
<1> QED BY <1>1, GInvariant, PTL

\* The Drop of cursors, streamers and continuous queries: for any handles, kinds,
\* addresses and connections, when the last task of a handle has ended neither its
\* resource nor its listener is left behind, unless an open was cancelled or could not
\* be decoded, or a close failed.
THEOREM NothingStays ==
    ASSUME SpreadPinned
    PROVE  Spec => []NothingLeftBehind
<1>1. SInv /\ GInv => NothingLeftBehind
  <2> SUFFICES ASSUME SInv, GInv, NEW h \in Handle, hs[h].at = "dropped", hs[h].bg = "none",
                      h \notin forfeit
               PROVE  (\A r \in res : r.owner = h => r.kind = ComputeTask) /\ lst[h] = None
    BY DEF NothingLeftBehind
  <2> QED BY Known DEF Owed, Listens, InUse
<1> QED BY <1>1, GInvariant, PTL
============================================================================
