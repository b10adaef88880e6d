--------------------------- MODULE HandlesProofs ---------------------------
(***************************************************************************)
(* That the requests of a handle stay on its resource.  It needs to know   *)
(* where a handle's resource is and that its number is its own (PlaceOf,   *)
(* Carried).                                                               *)
(***************************************************************************)
EXTENDS Handles, TLAPS

\* Under number i, connection c has no resource but that of h, now or later.
Mine(h, c, i) ==
    /\ c \in Conn /\ home[c] # None
    /\ i # None => i <= last[c] /\ \A r \in res : r.conn = c /\ r.id = i => r.owner = h

Opens == {"open", "oneshot"}
InUse == {"listening", "idle", "paging", "adding", "closing"}

\* Where the resource of h is, when the object of h is x.
PlaceOf(h, x) ==
    /\ x.own = None => x.id = None
    /\ x.own # None => x.addr = home[x.own] /\ Mine(h, x.own, x.id)
    /\ x.at \in InUse => x.own # None \/ x.kind.lazy
    /\ x.at \notin {"none", "dropped"} \/ x.bg # "none" =>
         x.kind \in Kind /\ (Several(addrs) => x.kind.pinned)
    /\ x.at = "paging" => x.kind.paged
    /\ x.bg # "none" => x.at = "dropped"
    /\ x.at = "none" => x = Fresh
    /\ x.at = "dropped" /\ x.bg = "none" => x = Gone
    /\ x.at = "dropped" /\ x.bg # "none" => x.own # None /\ x.id # None /\ ~x.closed
    /\ x.ans # None => x.at \in {"opening", "paging", "adding", "closing"} \/ x.bg = "sent"
    /\ x.at = "opening" /\ x.ans # None => (x.ans.ok => Mine(h, x.ans.conn, x.ans.id))
    /\ x.at \in {"opening", "listening", "adding"} => ~x.closed

\* The stage of an object whose request is on its way.
Awaits(x, by, op) ==
    /\ x.ans = None
    /\ \/ by = "owner" /\ \/ x.at = "opening" /\ op = "open"
                          \/ x.at = "paging" /\ op = "page"
                          \/ x.at = "adding" /\ op = "add"
                          \/ x.at = "closing" /\ op \in {"close", "addclose", "oneshot"}
       \/ by = "drop" /\ x.bg = "sent" /\ x.at = "dropped" /\ op \in {"close", "addclose"}

\* A request on its way names a resource of its handle, on the connection it goes to
\* while that is up.
Carried(q) ==
    /\ q.conn \in up
    /\ q.op \notin Opens => /\ q.own # None
                            /\ Mine(q.h, q.own, q.id)
                            /\ q.own \in up => q.conn = q.own
    /\ q.by # "nobody" => /\ Awaits(hs[q.h], q.by, q.op)
                          /\ q.kind = hs[q.h].kind
                          /\ q.op \notin Opens => q.own = hs[q.h].own
                          /\ \A p \in wire : p.h = q.h /\ p.by # "nobody" => p = q

\* One live connection to an address.
Net ==
    /\ \A c \in up : home[c] \in addrs
    /\ \A c, d \in up : home[c] = home[d] => c = d

\* One resource to a number, on a live connection.
Numbered ==
    /\ \A r \in res : r.conn \in up /\ r.id <= last[r.conn]
    /\ \A r, s \in res : r.conn = s.conn /\ r.id = s.id => r = s

SInv ==
    /\ TypeOK /\ Net /\ Numbered
    /\ \A h \in Handle : PlaceOf(h, hs[h])
    /\ \A q \in wire : Carried(q)
    /\ stray = {}

----------------------------------------------------------------------------
(* The kinds *)

\* What the flags of a kind say of each other.
LEMMA KindFacts ==
    ASSUME NEW k \in Kind
    PROVE  /\ k.pinned \in BOOLEAN /\ k.paged \in BOOLEAN /\ k.shuts \in BOOLEAN
           /\ k.takes \in BOOLEAN /\ k.eager \in BOOLEAN /\ k.heard \in BOOLEAN
           /\ k.lazy \in BOOLEAN
           /\ k.lazy <=> k = DataStreamer
           /\ k.lazy => k.eager /\ k.takes /\ ~k.heard /\ ~k.paged /\ ~k.shuts
           /\ k = ComputeTask => k.eager /\ k.heard /\ ~k.takes /\ ~k.lazy /\ ~k.paged /\ ~k.shuts
           /\ k.eager => k.lazy \/ k = ComputeTask
           /\ k.heard <=> k = ContinuousQueryCursor \/ k = ComputeTask
           /\ k = ContinuousQueryCursor => ~k.eager /\ ~k.paged /\ ~k.lazy /\ ~k.takes /\ ~k.shuts
           /\ k.paged => ~k.eager /\ ~k.heard /\ ~k.lazy
           /\ k.shuts => k.paged /\ ~k.takes
           /\ k = SetCursor => k.paged /\ k.takes /\ ~k.shuts
           /\ k.takes => k = SetCursor \/ k.lazy
<1> DEFINE F(k0, p, g, s, t, e, n, z) ==
             /\ k0.pinned = p /\ k0.paged = g /\ k0.shuts = s /\ k0.takes = t
             /\ k0.eager = e /\ k0.heard = n /\ k0.lazy = z
<1>s. F(SetCursor, FALSE, TRUE, FALSE, TRUE, FALSE, FALSE, FALSE)
  BY DEF SetCursor, EntryCursor
<1>d. F(DataStreamer, FALSE, FALSE, FALSE, TRUE, TRUE, FALSE, TRUE)
  BY DEF DataStreamer, SetCursor, EntryCursor
<1>q. F(ContinuousQueryCursor, FALSE, FALSE, FALSE, FALSE, FALSE, TRUE, FALSE)
  BY DEF ContinuousQueryCursor, SetCursor, EntryCursor
<1>c. F(ComputeTask, TRUE, FALSE, FALSE, FALSE, TRUE, TRUE, FALSE)
  BY DEF ComputeTask, ContinuousQueryCursor, SetCursor, EntryCursor
<1>e. \A b \in BOOLEAN : F(EntryCursor(b), TRUE, TRUE, b, FALSE, FALSE, FALSE, FALSE)
  BY DEF EntryCursor
<1>4. CASE k = SetCursor
  BY <1>4, <1>s, <1>d, <1>q, <1>c
<1>5. CASE k = DataStreamer
  BY <1>5, <1>s, <1>d, <1>q, <1>c
<1>6. CASE k = ContinuousQueryCursor
  BY <1>6, <1>s, <1>d, <1>q, <1>c
<1>7. CASE k = ComputeTask
  BY <1>7, <1>s, <1>d, <1>q, <1>c
<1>8. CASE k = EntryCursor(TRUE) \/ k = EntryCursor(FALSE)
  BY <1>8, <1>e, <1>s, <1>d, <1>q, <1>c, ZenonT(30)
<1> QED
  BY <1>4, <1>5, <1>6, <1>7, <1>8 DEF Kind, scan_query, index_query, sql_query, SqlFieldsCursor

----------------------------------------------------------------------------
(* Where the resources are *)

\* The objects a handle begins and ends with.
LEMMA EndObjects ==
    /\ Fresh \in Objects /\ Gone \in Objects
    /\ \A x \in {Fresh, Gone} : /\ x.kind = None /\ x.bg = "none" /\ x.id = None
                                /\ x.addr = None /\ x.own = None /\ ~x.closed /\ x.ans = None
    /\ Fresh.at = "none" /\ Gone.at = "dropped"
<1>1. Fresh \in Objects
  BY DEF Fresh, Objects
<1>2. /\ Fresh.at = "none" /\ Fresh.kind = None /\ Fresh.bg = "none" /\ Fresh.id = None
      /\ Fresh.addr = None /\ Fresh.own = None /\ ~Fresh.closed /\ Fresh.ans = None
  BY DEF Fresh
<1>3. Gone \in Objects
  BY <1>1 DEF Gone, Objects
<1>4. /\ Gone.at = "dropped" /\ Gone.kind = None /\ Gone.bg = "none" /\ Gone.id = None
      /\ Gone.addr = None /\ Gone.own = None /\ ~Gone.closed /\ Gone.ans = None
  BY DEF Gone, Fresh
<1> QED BY <1>1, <1>2, <1>3, <1>4

LEMMA SInitial == Init => SInv
<1> SUFFICES ASSUME Init PROVE SInv
  OBVIOUS
<1> USE HandlesAssumption
<1>1. addrs \subseteq Addr
  BY DEF Init
<1>2. PICK f \in [addrs -> Conn] :
         /\ \A a, b \in addrs : f[a] = f[b] => a = b
         /\ up = {f[a] : a \in addrs}
         /\ home = [c \in Conn |-> IF \E a \in addrs : f[a] = c
                                   THEN CHOOSE a \in addrs : f[a] = c ELSE None]
  BY DEF Init
<1>3. \A c \in up : home[c] \in addrs /\ f[home[c]] = c
  <2> TAKE c \in up
  <2>1. c \in Conn /\ \E a \in addrs : f[a] = c
    BY <1>2
  <2>2. home[c] = CHOOSE a \in addrs : f[a] = c
    BY <1>2, <2>1
  <2> QED BY <2>1, <2>2
<1>4. home \in [Conn -> Addr \cup {None}]
  <2>1. \A c \in Conn : (\E a \in addrs : f[a] = c) => (CHOOSE a \in addrs : f[a] = c) \in addrs
    OBVIOUS
  <2> QED BY <1>1, <1>2, <2>1
<1>5. TypeOK
  BY <1>1, <1>2, <1>4, EndObjects DEF Init, TypeOK
<1>6. Net
  BY <1>3 DEF Net
<1>7. \A h \in Handle : PlaceOf(h, hs[h])
  BY EndObjects DEF Init, PlaceOf, InUse
<1> QED BY <1>5, <1>6, <1>7 DEF SInv, Init, Numbered

\* Where a handle's resource is does not depend on the messages.
LEMMA FramePlace ==
    ASSUME NEW g, NEW x, PlaceOf(g, x), UNCHANGED <<home, addrs, res, last>>
    PROVE  PlaceOf(g, x)'
  BY DEF PlaceOf, Mine

LEMMA PlaceAt ==
    ASSUME NEW g, NEW x, x = hs'[g], PlaceOf(g, x)'
    PROVE  PlaceOf(g, hs[g])'
  BY ZenonT(30) DEF PlaceOf, Mine

\* A handle whose request is not on its way changes its object.
LEMMA Turns ==
    ASSUME SInv, NEW h \in Handle, NEW new \in Objects, Becomes(h, new),
           UNCHANGED <<up, home, addrs, res, last, wire, stray>>,
           lst' \in [Handle -> Conn \cup {None}], forfeit' \subseteq Handle,
           \A q \in wire : q.h = h => q.by = "nobody",
           PlaceOf(h, new)
    PROVE  SInv'
<1>1. TypeOK'
  BY DEF SInv, TypeOK, Becomes
<1>2. hs'[h] = new /\ \A g \in Handle : g # h => hs'[g] = hs[g]
  BY DEF SInv, TypeOK, Becomes
<1>3. Net' /\ Numbered'
  BY DEF SInv, Net, Numbered
<1>4. \A g \in Handle : PlaceOf(g, hs[g])'
  <2> SUFFICES ASSUME NEW g \in Handle PROVE PlaceOf(g, hs[g])'
    OBVIOUS
  <2>1. PICK x : x = hs'[g]
    OBVIOUS
  <2>2. PlaceOf(g, x)
    BY <1>2, <2>1 DEF SInv
  <2>3. PlaceOf(g, x)'
    BY <2>2, FramePlace
  <2> QED BY <2>1, <2>3, PlaceAt
<1>5. \A q \in wire' : Carried(q)'
  <2> SUFFICES ASSUME NEW q \in wire PROVE Carried(q)'
    OBVIOUS
  <2>1. Carried(q) /\ q.h \in Handle
    BY DEF SInv, TypeOK, Messages
  <2>2. q.by # "nobody" => hs'[q.h] = hs[q.h]
    BY <1>2, <2>1
  <2> QED BY <2>1, <2>2 DEF Carried, Awaits, Mine
<1> QED BY <1>1, <1>3, <1>4, <1>5 DEF SInv

\* A failed request leaves the resource where it is.
LEMMA FailedPlace ==
    ASSUME NEW h, NEW x \in Objects, NEW by, NEW op, PlaceOf(h, x), Awaits(x, by, op)
    PROVE  PlaceOf(h, [x EXCEPT !.ans = Failed(FALSE)])
<1> DEFINE n == [x EXCEPT !.ans = Failed(FALSE)]
<1>1. /\ n.own = x.own /\ n.id = x.id /\ n.addr = x.addr /\ n.at = x.at /\ n.bg = x.bg
      /\ n.kind = x.kind /\ n.closed = x.closed /\ ~n.ans.ok
  BY DEF Objects, Failed
<1>2. x.at \in {"opening", "paging", "adding", "closing"} \/ (x.bg = "sent" /\ x.at = "dropped")
  BY DEF Awaits
<1> HIDE DEF n
<1>3. PlaceOf(h, n)
  BY <1>1, <1>2 DEF PlaceOf, InUse
<1> QED BY <1>3 DEF n

\* A handle whose request is not on its way sends one.
LEMMA Sends ==
    ASSUME SInv, NEW h \in Handle, NEW new \in Objects, NEW by \in {"owner", "drop"},
           NEW op \in {"open", "oneshot", "page", "add", "addclose", "close"},
           Send(h, by, op, new),
           UNCHANGED <<up, home, addrs, res, last, stray>>,
           lst' \in [Handle -> Conn \cup {None}], forfeit' \subseteq Handle,
           \A q \in wire : q.h = h => q.by = "nobody",
           new.kind \in Kind, new.own = hs[h].own, Awaits(new, by, op),
           op \notin Opens => hs[h].own # None /\ hs[h].kind = new.kind,
           Several(addrs) => new.kind.pinned,
           PlaceOf(h, new)
    PROVE  SInv'
<1> USE HandlesAssumption
<1> DEFINE m(c) == [h |-> h, kind |-> new.kind, own |-> hs[h].own, by |-> by, op |-> op,
                    id |-> hs[h].id, conn |-> c]
<1>0. hs[h] \in Objects /\ PlaceOf(h, hs[h])
  BY DEF SInv, TypeOK
<1>1. CASE /\ Route(h) = {} /\ UNCHANGED wire
           /\ Becomes(h, [new EXCEPT !.ans = Failed(FALSE)])
  <2>1. [new EXCEPT !.ans = Failed(FALSE)] \in Objects
    <3>1. Failed(FALSE) \in Answers
      BY DEF Failed, Answers
    <3> QED BY <3>1, ZenonT(30) DEF Objects
  <2>2. PlaceOf(h, [new EXCEPT !.ans = Failed(FALSE)])
    BY FailedPlace, ZenonT(30)
  <2> QED BY <1>1, <2>1, <2>2, Turns
<1>2. ASSUME NEW c \in Route(h), wire' = wire \cup {m(c)}, Becomes(h, new)
      PROVE  SInv'
  <2>1. c \in up /\ c \in Conn
    BY <1>2 DEF Route, SInv, TypeOK
  <2>2. m(c) \in Messages
    BY <1>0, <2>1 DEF Messages, Objects
  <2>3. TypeOK'
    BY <1>2, <2>2 DEF SInv, TypeOK, Becomes
  <2>4. hs'[h] = new /\ \A g \in Handle : g # h => hs'[g] = hs[g]
    BY <1>2 DEF SInv, TypeOK, Becomes
  <2>5. Net' /\ Numbered'
    BY DEF SInv, Net, Numbered
  <2>6. \A g \in Handle : PlaceOf(g, hs[g])'
    <3> SUFFICES ASSUME NEW g \in Handle PROVE PlaceOf(g, hs[g])'
      OBVIOUS
    <3>1. PICK x : x = hs'[g]
      OBVIOUS
    <3>2. PlaceOf(g, x)
      BY <2>4, <3>1 DEF SInv
    <3>3. PlaceOf(g, x)'
      BY <3>2, FramePlace
    <3> QED BY <3>1, <3>3, PlaceAt
  <2>7. op \notin Opens => /\ hs[h].own # None /\ Mine(h, hs[h].own, hs[h].id)
                           /\ hs[h].own \in up => c = hs[h].own
    <3> SUFFICES ASSUME op \notin Opens
                 PROVE  /\ hs[h].own # None /\ Mine(h, hs[h].own, hs[h].id)
                        /\ hs[h].own \in up => c = hs[h].own
      OBVIOUS
    <3>1. /\ hs[h].own # None /\ Mine(h, hs[h].own, hs[h].id)
          /\ hs[h].addr = home[hs[h].own] /\ hs[h].addr # None
      BY <1>0 DEF PlaceOf, Mine
    <3>2. ASSUME hs[h].own \in up PROVE c = hs[h].own
      <4>1. home[c] \in addrs /\ home[hs[h].own] \in addrs
        BY <2>1, <3>2 DEF SInv, Net
      <4>2. CASE hs[h].kind.pinned
        BY <3>1, <3>2, <4>2, <1>2, <2>1 DEF Route, SInv, Net
      <4>3. CASE ~hs[h].kind.pinned
        <5>1. ~Several(addrs)
          BY <4>3
        <5>2. home[c] = home[hs[h].own]
          BY <4>1, <5>1 DEF Several
        <5> QED BY <5>2, <2>1, <3>2 DEF SInv, Net
      <4> QED BY <4>2, <4>3
    <3> QED BY <3>1, <3>2
  <2>8. ASSUME NEW q \in wire PROVE Carried(q)'
    <3>1. Carried(q) /\ q.h \in Handle
      BY DEF SInv, TypeOK, Messages
    <3>2. q.by # "nobody" => hs'[q.h] = hs[q.h] /\ q.h # h
      BY <2>4, <3>1
    <3>3. q.by # "nobody" => \A p \in wire' : p.h = q.h => p \in wire
      BY <1>2, <3>2
    <3> QED BY <3>1, <3>2, <3>3 DEF Carried, Awaits, Mine
  <2>9. ASSUME NEW q, q = m(c) PROVE Carried(q)'
    <3>1. /\ q.h = h /\ q.conn = c /\ q.own = hs[h].own /\ q.op = op
          /\ q.id = hs[h].id /\ q.by = by /\ q.kind = new.kind
      BY <2>9
    <3>2. \A p \in wire' : p.h = h /\ p.by # "nobody" => p = q
      BY <1>2, <2>9
    <3> HIDE DEF m
    <3> QED BY <3>1, <3>2, <2>1, <2>4, <2>7 DEF Carried, Awaits, Mine
  <2>10. \A q \in wire' : Carried(q)'
    BY <1>2, <2>8, <2>9
  <2> QED BY <2>3, <2>5, <2>6, <2>10 DEF SInv
<1> QED BY <1>1, <1>2 DEF Send, Becomes

\* When a request of a handle that somebody waits for is not on its way.
LEMMA Quiet ==
    ASSUME SInv, NEW h \in Handle,
           \/ hs[h].ans # None
           \/ hs[h].at \in {"none", "listening", "idle"}
           \/ hs[h].bg = "send"
           \/ hs[h].at = "dropped" /\ hs[h].bg = "none"
    PROVE  \A q \in wire : q.h = h => q.by = "nobody"
  BY DEF SInv, Carried, Awaits, PlaceOf

\* The kinds created in a cluster of several addresses are pinned ones.
SpreadPinned == \A k \in Spread : k.pinned

LEMMA OpenS ==
    ASSUME SpreadPinned, SInv, NEW h \in Handle, Open(h)
    PROVE  SInv'
<1>0. /\ hs[h] \in Objects /\ hs[h] = Fresh /\ lst \in [Handle -> Conn \cup {None}]
      /\ forfeit \subseteq Handle
  BY DEF SInv, TypeOK, Open, PlaceOf
<1>q. \A q \in wire : q.h = h => q.by = "nobody"
  BY Quiet DEF Open
<1>1. PICK k \in Kind :
         /\ Several(addrs) => k \in Spread
         /\ LET new == [hs[h] EXCEPT !.kind = k]
            IN IF k.lazy
               THEN Becomes(h, [new EXCEPT !.at = "idle"]) /\ UNCHANGED wire
               ELSE Send(h, "owner", "open", [new EXCEPT !.at = "opening"])
  BY DEF Open
<1>2. Several(addrs) => k.pinned
  BY <1>1 DEF SpreadPinned
<1> DEFINE n(stage) == [[hs[h] EXCEPT !.kind = k] EXCEPT !.at = stage]
<1>3. ASSUME NEW stage \in {"idle", "opening"}
      PROVE  /\ n(stage) \in Objects /\ n(stage).kind = k /\ n(stage).at = stage
             /\ n(stage).bg = "none" /\ n(stage).id = None /\ n(stage).own = None
             /\ ~n(stage).closed /\ n(stage).ans = None
  BY <1>0, EndObjects, ZenonT(30) DEF Objects
<1> HIDE DEF n
<1>4. CASE k.lazy
  <2>1. PlaceOf(h, n("idle"))
    BY <1>2, <1>3, <1>4 DEF PlaceOf, InUse
  <2>2. Becomes(h, n("idle")) /\ UNCHANGED wire
    BY <1>1, <1>4 DEF n
  <2> QED BY <1>0, <1>3, <1>q, <2>1, <2>2, Turns DEF Open, netVars
<1>5. CASE ~k.lazy
  <2>1. PlaceOf(h, n("opening"))
    BY <1>2, <1>3, <1>5 DEF PlaceOf, InUse
  <2>2. Send(h, "owner", "open", n("opening"))
    BY <1>1, <1>5 DEF n
  <2>3. Awaits(n("opening"), "owner", "open")
    BY <1>3 DEF Awaits
  <2> QED BY <1>0, <1>2, <1>3, <1>q, <2>1, <2>2, <2>3, EndObjects, Sends DEF Open, netVars, Opens
<1> QED BY <1>4, <1>5

LEMMA OpenedS ==
    ASSUME SInv, NEW h \in Handle, Opened(h)
    PROVE  SInv'
<1> DEFINE a == hs[h].ans
           stage == IF hs[h].kind.heard THEN "listening" ELSE "idle"
           rows == a.rows /\ hs[h].kind.paged
           n == [hs[h] EXCEPT !.at = stage, !.id = a.id, !.own = a.conn, !.addr = home[a.conn],
                              !.pend = rows, !.more = a.more, !.ans = None]
<1>0. /\ hs[h] \in Objects /\ PlaceOf(h, hs[h]) /\ lst \in [Handle -> Conn \cup {None}]
      /\ forfeit \subseteq Handle /\ a \in Answers /\ home \in [Conn -> Addr \cup {None}]
  BY DEF SInv, TypeOK, Opened, Objects
<1>q. \A q \in wire : q.h = h => q.by = "nobody"
  BY Quiet DEF Opened
<1>1. /\ hs[h].at = "opening" /\ hs[h].kind \in Kind /\ Mine(h, a.conn, a.id) /\ ~hs[h].closed
      /\ a.conn \in Conn /\ a.id \in Id \cup {None} /\ a.rows \in BOOLEAN /\ a.more \in BOOLEAN
      /\ hs[h].kind.paged \in BOOLEAN /\ (Several(addrs) => hs[h].kind.pinned)
      /\ hs[h].bg = "none" /\ home[a.conn] \in Addr \cup {None}
  BY <1>0, KindFacts DEF Opened, PlaceOf, Mine, Answers, Objects
<1>2. Becomes(h, n)
  BY DEF Opened
<1>t. stage \in {"listening", "idle"} /\ rows \in BOOLEAN
  OBVIOUS
<1> HIDE DEF stage, rows
<1>3. /\ n \in Objects /\ n.kind = hs[h].kind /\ n.at \in {"listening", "idle"}
      /\ n.bg = "none" /\ n.id = a.id /\ n.own = a.conn /\ n.addr = home[a.conn]
      /\ ~n.closed /\ n.ans = None
  BY <1>0, <1>1, <1>t, ZenonT(30) DEF Objects
<1> HIDE DEF n
<1>4. PlaceOf(h, n)
  BY <1>1, <1>3, HandlesAssumption DEF PlaceOf, InUse
<1> QED BY <1>0, <1>2, <1>3, <1>4, <1>q, Turns DEF Opened, netVars

\* The last task of a handle ends.
LEMMA GoneS ==
    ASSUME SInv, NEW h \in Handle, Becomes(h, Gone),
           UNCHANGED <<up, home, addrs, res, last, wire, stray>>,
           lst' \in [Handle -> Conn \cup {None}], forfeit' \subseteq Handle,
           \A q \in wire : q.h = h => q.by = "nobody"
    PROVE  SInv'
<1>1. PlaceOf(h, Gone)
  BY EndObjects DEF PlaceOf, InUse
<1> QED BY <1>1, EndObjects, Turns

\* A handle in use goes on with its resource, or with none.
LEMMA SamePlace ==
    ASSUME NEW h, NEW x \in Objects, NEW n \in Objects, PlaceOf(h, x),
           x.at \in InUse \/ (x.at = "opening" /\ x.kind.lazy),
           n.at \in InUse \/ (n.at = "opening" /\ x.kind.lazy),
           n.kind = x.kind, n.own = x.own, n.addr = x.addr, n.bg = x.bg,
           n.id = x.id \/ n.id = None, n.ans = None, n.at = "paging" => n.kind.paged,
           n.at \in {"opening", "listening", "adding"} => ~n.closed
    PROVE  PlaceOf(h, n)
  BY DEF PlaceOf, InUse, Mine

LEMMA OpenFailsS ==
    ASSUME SInv, NEW h \in Handle, OpenFails(h)
    PROVE  SInv'
<1>1. \A q \in wire : q.h = h => q.by = "nobody"
  BY Quiet DEF OpenFails
<1>2. lst' \in [Handle -> Conn \cup {None}] /\ forfeit' \subseteq Handle
  BY DEF OpenFails, SInv, TypeOK
<1> QED BY <1>1, <1>2, GoneS DEF OpenFails, netVars

LEMMA ListenS ==
    ASSUME SInv, NEW h \in Handle, Listen(h)
    PROVE  SInv'
<1>1. \A q \in wire : q.h = h => q.by = "nobody"
  BY Quiet DEF Listen
<1>2. lst' \in [Handle -> Conn \cup {None}] /\ forfeit' \subseteq Handle
  BY DEF Listen, SInv, TypeOK
<1>3. CASE Becomes(h, Gone)
  BY <1>1, <1>2, <1>3, GoneS DEF Listen, netVars
<1>4. CASE Becomes(h, [hs[h] EXCEPT !.at = "idle"])
  <2> DEFINE n == [hs[h] EXCEPT !.at = "idle"]
  <2>1. hs[h] \in Objects /\ PlaceOf(h, hs[h]) /\ hs[h].at = "listening"
    BY DEF SInv, TypeOK, Listen
  <2>2. /\ n \in Objects /\ n.at = "idle" /\ n.kind = hs[h].kind /\ n.own = hs[h].own
        /\ n.addr = hs[h].addr /\ n.bg = hs[h].bg /\ n.id = hs[h].id /\ n.ans = hs[h].ans
    BY <2>1 DEF Objects
  <2>3. hs[h].ans = None
    BY <2>1 DEF PlaceOf
  <2> HIDE DEF n
  <2>4. PlaceOf(h, n)
    BY <2>1, <2>2, <2>3, SamePlace DEF InUse
  <2>5. Becomes(h, n)
    BY <1>4 DEF n
  <2> QED BY <1>1, <1>2, <2>2, <2>4, <2>5, Turns DEF Listen, netVars
<1> QED BY <1>3, <1>4 DEF Listen

\* mark_exhausted and the close it may send.
LEMMA ExhaustedS ==
    ASSUME SInv, NEW h \in Handle, NEW new \in Objects, Exhausted(h, new),
           UNCHANGED <<up, home, addrs, res, last, lst, forfeit, stray>>,
           hs[h].at \in {"idle", "paging"}, hs[h].kind.paged,
           new.kind = hs[h].kind, new.own = hs[h].own, new.addr = hs[h].addr,
           new.bg = hs[h].bg, new.id = hs[h].id, new.at = "idle", new.ans = None,
           \A q \in wire : q.h = h => q.by = "nobody"
    PROVE  SInv'
<1>1. /\ hs[h] \in Objects /\ PlaceOf(h, hs[h]) /\ hs[h].at \in InUse /\ hs[h].kind \in Kind
      /\ lst \in [Handle -> Conn \cup {None}] /\ forfeit \subseteq Handle
  BY DEF SInv, TypeOK, PlaceOf, InUse
<1>2. hs[h].own # None /\ (Several(addrs) => hs[h].kind.pinned)
  BY <1>1, KindFacts DEF PlaceOf, InUse
<1>3. CASE Becomes(h, new) /\ UNCHANGED wire
  <2>1. PlaceOf(h, new)
    BY <1>1, SamePlace DEF InUse
  <2> QED BY <1>1, <1>3, <2>1, Turns
<1>4. CASE Send(h, "owner", "close", [new EXCEPT !.at = "closing"])
  <2> DEFINE n == [new EXCEPT !.at = "closing"]
  <2>1. /\ n \in Objects /\ n.at = "closing" /\ n.kind = new.kind /\ n.own = new.own
        /\ n.addr = new.addr /\ n.bg = new.bg /\ n.id = new.id /\ n.ans = None
    BY DEF Objects
  <2>2. Send(h, "owner", "close", n)
    BY <1>4
  <2> HIDE DEF n
  <2>3. PlaceOf(h, n)
    BY <1>1, <2>1, SamePlace DEF InUse
  <2>4. Awaits(n, "owner", "close")
    BY <2>1 DEF Awaits
  <2> QED BY <1>1, <1>2, <2>1, <2>2, <2>3, <2>4, Sends
<1>5. CASE Becomes(h, [new EXCEPT !.closed = TRUE, !.id = IF new.kind.takes THEN None ELSE @])
           /\ UNCHANGED wire
  <2> DEFINE n == [new EXCEPT !.closed = TRUE, !.id = IF new.kind.takes THEN None ELSE @]
  <2>1. /\ n \in Objects /\ n.at = "idle" /\ n.kind = new.kind /\ n.own = new.own
        /\ n.addr = new.addr /\ n.bg = new.bg /\ (n.id = new.id \/ n.id = None) /\ n.ans = None
    <3>1. CASE new.kind.takes
      BY <3>1, ZenonT(30) DEF Objects
    <3>2. CASE ~new.kind.takes
      BY <3>2, ZenonT(30) DEF Objects
    <3> QED BY <3>1, <3>2
  <2>2. Becomes(h, n)
    BY <1>5
  <2> HIDE DEF n
  <2>3. PlaceOf(h, n)
    BY <1>1, <2>1, SamePlace DEF InUse
  <2> QED BY <1>1, <1>5, <2>1, <2>2, <2>3, Turns
<1> QED BY <1>3, <1>4, <1>5 DEF Exhausted

LEMMA NextPageS ==
    ASSUME SInv, NEW h \in Handle, NextPage(h)
    PROVE  SInv'
<1>1. /\ hs[h] \in Objects /\ PlaceOf(h, hs[h]) /\ hs[h].at = "idle" /\ hs[h].kind.paged
      /\ lst' \in [Handle -> Conn \cup {None}] /\ forfeit' \subseteq Handle /\ hs[h].kind \in Kind
  BY DEF SInv, TypeOK, NextPage, PlaceOf
<1>2. \A q \in wire : q.h = h => q.by = "nobody"
  BY <1>1, Quiet
<1>3. /\ hs[h].ans = None /\ hs[h].own # None
      /\ (Several(addrs) => hs[h].kind.pinned)
  BY <1>1, KindFacts DEF PlaceOf, InUse
<1> DEFINE n == [hs[h] EXCEPT !.pend = FALSE]
           m == [hs[h] EXCEPT !.at = "paging"]
<1>4. /\ n \in Objects /\ n.at = "idle" /\ n.kind = hs[h].kind /\ n.own = hs[h].own
      /\ n.addr = hs[h].addr /\ n.bg = hs[h].bg /\ n.id = hs[h].id /\ n.ans = hs[h].ans
  BY <1>1, ZenonT(30) DEF Objects
<1>5. /\ m \in Objects /\ m.at = "paging" /\ m.kind = hs[h].kind /\ m.own = hs[h].own
      /\ m.addr = hs[h].addr /\ m.bg = hs[h].bg /\ m.id = hs[h].id /\ m.ans = hs[h].ans
  BY <1>1 DEF Objects
<1>6. \/ Becomes(h, n) /\ UNCHANGED wire
      \/ Exhausted(h, n)
      \/ Send(h, "owner", "page", m)
  BY DEF NextPage
<1> HIDE DEF n, m
<1>7. CASE Becomes(h, n) /\ UNCHANGED wire
  <2>1. PlaceOf(h, n)
    BY <1>1, <1>3, <1>4, SamePlace DEF InUse
  <2> QED BY <1>1, <1>2, <1>4, <1>7, <2>1, Turns DEF NextPage, netVars
<1>8. CASE Exhausted(h, n)
  BY <1>1, <1>2, <1>3, <1>4, <1>8, ExhaustedS DEF NextPage, netVars
<1>9. CASE Send(h, "owner", "page", m)
  <2>1. PlaceOf(h, m)
    BY <1>1, <1>3, <1>5, SamePlace DEF InUse
  <2>2. Awaits(m, "owner", "page")
    BY <1>3, <1>5 DEF Awaits
  <2> QED BY <1>1, <1>2, <1>3, <1>5, <1>9, <2>1, <2>2, Sends DEF NextPage, netVars
<1> QED BY <1>6, <1>7, <1>8, <1>9

LEMMA PagedS ==
    ASSUME SInv, NEW h \in Handle, Paged(h)
    PROVE  SInv'
<1>1. /\ hs[h] \in Objects /\ PlaceOf(h, hs[h]) /\ hs[h].at = "paging"
      /\ lst' \in [Handle -> Conn \cup {None}] /\ forfeit' \subseteq Handle /\ hs[h].kind \in Kind
  BY DEF SInv, TypeOK, Paged, PlaceOf
<1>2. \A q \in wire : q.h = h => q.by = "nobody"
  BY <1>1, Quiet DEF Paged
<1> DEFINE back == [hs[h] EXCEPT !.at = "idle", !.ans = None]
           n == [back EXCEPT !.more = FALSE]
<1>3. /\ back \in Objects /\ back.at = "idle" /\ back.kind = hs[h].kind /\ back.own = hs[h].own
      /\ back.addr = hs[h].addr /\ back.bg = hs[h].bg /\ back.id = hs[h].id /\ back.ans = None
  BY <1>1, ZenonT(30) DEF Objects
<1>4. (Becomes(h, back) /\ UNCHANGED wire) \/ Exhausted(h, n)
  BY DEF Paged
<1> HIDE DEF back
<1>5. /\ n \in Objects /\ n.at = "idle" /\ n.kind = hs[h].kind /\ n.own = hs[h].own
      /\ n.addr = hs[h].addr /\ n.bg = hs[h].bg /\ n.id = hs[h].id /\ n.ans = None
  BY <1>3, ZenonT(30) DEF Objects
<1> HIDE DEF n
<1>6. CASE Becomes(h, back) /\ UNCHANGED wire
  <2>1. PlaceOf(h, back)
    BY <1>1, <1>3, SamePlace DEF InUse
  <2> QED BY <1>1, <1>2, <1>3, <1>6, <2>1, Turns DEF Paged, netVars
<1>7. CASE Exhausted(h, n)
  <2>1. hs[h].kind.paged
    BY <1>1 DEF PlaceOf, InUse
  <2> QED BY <1>1, <1>2, <1>5, <1>7, <2>1, ExhaustedS DEF Paged, netVars
<1> QED BY <1>4, <1>6, <1>7

LEMMA AddDataS ==
    ASSUME SInv, NEW h \in Handle, AddData(h)
    PROVE  SInv'
<1>1. /\ hs[h] \in Objects /\ PlaceOf(h, hs[h]) /\ hs[h].at = "idle" /\ hs[h].kind.lazy
      /\ ~hs[h].closed /\ hs[h].ans = None /\ hs[h].kind \in Kind
      /\ lst' \in [Handle -> Conn \cup {None}] /\ forfeit' \subseteq Handle
      /\ (Several(addrs) => hs[h].kind.pinned)
      /\ (hs[h].id # None => hs[h].own # None)
  BY DEF SInv, TypeOK, AddData, PlaceOf
<1>2. \A q \in wire : q.h = h => q.by = "nobody"
  BY <1>1, Quiet
<1> DEFINE n(stage) == [hs[h] EXCEPT !.at = stage]
           m == [hs[h] EXCEPT !.closed = TRUE, !.id = None, !.at = "closing"]
<1>3. ASSUME NEW stage \in {"opening", "adding"}
      PROVE  /\ n(stage) \in Objects /\ n(stage).at = stage /\ n(stage).kind = hs[h].kind
             /\ n(stage).own = hs[h].own /\ n(stage).addr = hs[h].addr /\ n(stage).bg = hs[h].bg
             /\ n(stage).id = hs[h].id /\ n(stage).ans = None /\ ~n(stage).closed
  BY <1>1 DEF Objects
<1>4. /\ m \in Objects /\ m.at = "closing" /\ m.kind = hs[h].kind /\ m.own = hs[h].own
      /\ m.addr = hs[h].addr /\ m.bg = hs[h].bg /\ m.id = None /\ m.ans = None
  BY <1>1, ZenonT(30) DEF Objects
<1>5. \/ Send(h, "owner", "open", n("opening"))
      \/ hs[h].id # None /\ Send(h, "owner", "add", n("adding"))
      \/ hs[h].id = None /\ Send(h, "owner", "oneshot", m)
      \/ hs[h].id # None /\ Send(h, "owner", "addclose", m)
  BY DEF AddData
<1> HIDE DEF n, m
<1>6. ASSUME NEW stage \in {"opening", "adding"} PROVE PlaceOf(h, n(stage))
  BY <1>1, <1>3, SamePlace DEF InUse
<1>7. PlaceOf(h, m)
  BY <1>1, <1>4, SamePlace DEF InUse
<1>8. CASE Send(h, "owner", "open", n("opening"))
  <2>1. Awaits(n("opening"), "owner", "open")
    BY <1>3 DEF Awaits
  <2> QED BY <1>1, <1>2, <1>3, <1>6, <1>8, <2>1, Sends DEF AddData, netVars, Opens
<1>9. CASE hs[h].id # None /\ Send(h, "owner", "add", n("adding"))
  <2>1. Awaits(n("adding"), "owner", "add")
    BY <1>3 DEF Awaits
  <2> QED BY <1>1, <1>2, <1>3, <1>6, <1>9, <2>1, Sends DEF AddData, netVars, Opens
<1>10. CASE hs[h].id = None /\ Send(h, "owner", "oneshot", m)
  <2>1. Awaits(m, "owner", "oneshot")
    BY <1>4 DEF Awaits
  <2> QED BY <1>1, <1>2, <1>4, <1>7, <1>10, <2>1, Sends DEF AddData, netVars, Opens
<1>11. CASE hs[h].id # None /\ Send(h, "owner", "addclose", m)
  <2>1. Awaits(m, "owner", "addclose")
    BY <1>4 DEF Awaits
  <2> QED BY <1>1, <1>2, <1>4, <1>7, <1>11, <2>1, Sends DEF AddData, netVars, Opens
<1> QED BY <1>5, <1>8, <1>9, <1>10, <1>11

\* The object after a call: only the stage, the answer and the flag change.
LEMMA BackS ==
    ASSUME SInv, NEW h \in Handle, NEW n \in Objects, Becomes(h, n),
           UNCHANGED <<up, home, addrs, res, last, wire, stray>>,
           lst' \in [Handle -> Conn \cup {None}], forfeit' \subseteq Handle,
           hs[h].at \in InUse \/ (hs[h].at = "opening" /\ hs[h].kind.lazy),
           n.at = "idle", n.kind = hs[h].kind, n.own = hs[h].own, n.addr = hs[h].addr,
           n.bg = hs[h].bg, n.id = hs[h].id \/ n.id = None, n.ans = None,
           \A q \in wire : q.h = h => q.by = "nobody"
    PROVE  SInv'
<1>1. hs[h] \in Objects /\ PlaceOf(h, hs[h])
  BY DEF SInv, TypeOK
<1>2. PlaceOf(h, n)
  BY <1>1, SamePlace DEF InUse
<1> QED BY <1>2, Turns

LEMMA AddedS ==
    ASSUME SInv, NEW h \in Handle, Added(h)
    PROVE  SInv'
<1> DEFINE n == [hs[h] EXCEPT !.at = "idle", !.ans = None]
<1>1. /\ hs[h] \in Objects /\ PlaceOf(h, hs[h]) /\ hs[h].kind \in Kind
      /\ lst' \in [Handle -> Conn \cup {None}] /\ forfeit' \subseteq Handle
  BY DEF SInv, TypeOK, Added, PlaceOf
<1>2. \A q \in wire : q.h = h => q.by = "nobody"
  BY Quiet DEF Added
<1>3. /\ n \in Objects /\ n.at = "idle" /\ n.kind = hs[h].kind /\ n.own = hs[h].own
      /\ n.addr = hs[h].addr /\ n.bg = hs[h].bg /\ n.id = hs[h].id /\ n.ans = None
  BY <1>1, ZenonT(30) DEF Objects
<1>4. Becomes(h, n)
  BY DEF Added
<1> HIDE DEF n
<1>5. hs[h].at \in InUse \/ (hs[h].at = "opening" /\ hs[h].kind.lazy)
  BY <1>1, KindFacts DEF Added, InUse
<1> QED BY <1>1, <1>2, <1>3, <1>4, <1>5, BackS DEF Added, netVars

LEMMA CloseS ==
    ASSUME SInv, NEW h \in Handle, Close(h)
    PROVE  SInv'
<1> DEFINE k == hs[h].kind
           n == [hs[h] EXCEPT !.at = "closing", !.id = IF k.takes THEN None ELSE @,
                              !.closed = k.eager]
           m == [n EXCEPT !.at = "idle", !.closed = TRUE]
<1>1. /\ hs[h] \in Objects /\ PlaceOf(h, hs[h]) /\ k \in Kind /\ hs[h].at = "idle"
      /\ lst' \in [Handle -> Conn \cup {None}] /\ forfeit' \subseteq Handle
  BY DEF SInv, TypeOK, Close, PlaceOf
<1>2. \A q \in wire : q.h = h => q.by = "nobody"
  BY <1>1, Quiet
<1>3. k.takes \in BOOLEAN /\ k.eager \in BOOLEAN /\ k.lazy \in BOOLEAN /\ hs[h].ans = None
  BY <1>1, KindFacts DEF PlaceOf
<1>4. /\ n \in Objects /\ n.at = "closing" /\ n.kind = k /\ n.own = hs[h].own
      /\ n.addr = hs[h].addr /\ n.bg = hs[h].bg /\ (n.id = hs[h].id \/ n.id = None)
      /\ n.ans = None
  <2>1. CASE k.takes
    BY <1>1, <1>3, <2>1, ZenonT(30) DEF Objects
  <2>2. CASE ~k.takes
    BY <1>1, <1>3, <2>2, ZenonT(30) DEF Objects
  <2> QED BY <1>3, <2>1, <2>2
<1>5. IF hs[h].id = None THEN Becomes(h, m) /\ UNCHANGED wire
      ELSE Send(h, "owner", IF k.lazy THEN "addclose" ELSE "close", n)
  BY DEF Close
<1> HIDE DEF n
<1>6. /\ m \in Objects /\ m.at = "idle" /\ m.kind = k /\ m.own = n.own
      /\ m.addr = n.addr /\ m.bg = n.bg /\ m.id = n.id /\ m.ans = None
  BY <1>4, ZenonT(30) DEF Objects
<1> HIDE DEF m
<1>7. CASE hs[h].id = None
  BY <1>1, <1>2, <1>4, <1>5, <1>6, <1>7, BackS DEF Close, netVars, InUse
<1>8. CASE hs[h].id # None
  <2>1. PlaceOf(h, n)
    BY <1>1, <1>4, SamePlace DEF InUse
  <2>2. hs[h].own # None /\ (Several(addrs) => k.pinned)
    BY <1>1, <1>8 DEF PlaceOf
  <2>3. PICK op \in {"addclose", "close"} : Send(h, "owner", op, n)
    BY <1>5, <1>8
  <2>4. Awaits(n, "owner", op)
    BY <1>4 DEF Awaits
  <2> QED BY <1>1, <1>2, <1>4, <2>1, <2>2, <2>3, <2>4, Sends DEF Close, netVars
<1> QED BY <1>7, <1>8

LEMMA ClosedS ==
    ASSUME SInv, NEW h \in Handle, Closed(h)
    PROVE  SInv'
<1> DEFINE good == hs[h].ans.ok \/ (hs[h].kind = ComputeTask /\ hs[h].ans.gone)
           n == [hs[h] EXCEPT !.at = "idle", !.ans = None, !.closed = @ \/ good]
<1>1. /\ hs[h] \in Objects /\ PlaceOf(h, hs[h]) /\ hs[h].at = "closing" /\ hs[h].ans \in Answers
      /\ lst' \in [Handle -> Conn \cup {None}] /\ forfeit' \subseteq Handle
  BY DEF SInv, TypeOK, Closed, PlaceOf, Objects
<1>2. \A q \in wire : q.h = h => q.by = "nobody"
  BY Quiet DEF Closed
<1>3. good \in BOOLEAN
  BY <1>1 DEF Answers
<1>4. Becomes(h, n)
  BY DEF Closed
<1> HIDE DEF good
<1>5. /\ n \in Objects /\ n.at = "idle" /\ n.kind = hs[h].kind /\ n.own = hs[h].own
      /\ n.addr = hs[h].addr /\ n.bg = hs[h].bg /\ n.id = hs[h].id /\ n.ans = None
  BY <1>1, <1>3, ZenonT(30) DEF Objects
<1> HIDE DEF n
<1> QED BY <1>1, <1>2, <1>4, <1>5, BackS DEF Closed, netVars, InUse

LEMMA DropS ==
    ASSUME SInv, NEW h \in Handle, Drop(h)
    PROVE  SInv'
<1> DEFINE n == [hs[h] EXCEPT !.at = "dropped", !.bg = "send"]
<1>1. /\ hs[h] \in Objects /\ PlaceOf(h, hs[h]) /\ hs[h].at = "idle"
      /\ lst' \in [Handle -> Conn \cup {None}] /\ forfeit' \subseteq Handle
  BY DEF SInv, TypeOK, Drop, PlaceOf
<1>2. \A q \in wire : q.h = h => q.by = "nobody"
  BY <1>1, Quiet
<1>3. /\ n \in Objects /\ n.at = "dropped" /\ n.bg = "send" /\ n.kind = hs[h].kind
      /\ n.own = hs[h].own /\ n.addr = hs[h].addr /\ n.id = hs[h].id /\ n.ans = hs[h].ans
      /\ n.closed = hs[h].closed
  BY <1>1, ZenonT(30) DEF Objects
<1>4. Becomes(h, IF hs[h].closed \/ hs[h].id = None THEN Gone ELSE n)
  BY DEF Drop
<1> HIDE DEF n
<1>5. CASE hs[h].closed \/ hs[h].id = None
  BY <1>1, <1>2, <1>4, <1>5, GoneS DEF Drop, netVars
<1>6. CASE ~(hs[h].closed \/ hs[h].id = None)
  <2>1. PlaceOf(h, n)
    BY <1>1, <1>3, <1>6 DEF PlaceOf, InUse
  <2> QED BY <1>1, <1>2, <1>3, <1>4, <1>6, <2>1, Turns DEF Drop, netVars
<1> QED BY <1>5, <1>6

LEMMA DropTaskS ==
    ASSUME SInv, NEW h \in Handle, DropTask(h)
    PROVE  SInv'
<1> DEFINE n == [hs[h] EXCEPT !.bg = "sent"]
<1>1. /\ hs[h] \in Objects /\ PlaceOf(h, hs[h]) /\ hs[h].bg = "send"
      /\ lst' \in [Handle -> Conn \cup {None}] /\ forfeit' \subseteq Handle
  BY DEF SInv, TypeOK, DropTask, PlaceOf
<1>2. \A q \in wire : q.h = h => q.by = "nobody"
  BY <1>1, Quiet
<1>3. /\ n \in Objects /\ n.bg = "sent" /\ n.at = hs[h].at /\ n.kind = hs[h].kind
      /\ n.own = hs[h].own /\ n.addr = hs[h].addr /\ n.id = hs[h].id /\ n.ans = hs[h].ans
      /\ n.closed = hs[h].closed
  BY <1>1 DEF Objects
<1>4. IF hs[h].kind = ComputeTask THEN Becomes(h, Gone) /\ UNCHANGED wire
      ELSE Send(h, "drop", IF hs[h].kind.lazy THEN "addclose" ELSE "close", n)
  BY DEF DropTask
<1> HIDE DEF n
<1>5. CASE hs[h].kind = ComputeTask
  BY <1>1, <1>2, <1>4, <1>5, GoneS DEF DropTask, netVars
<1>6. CASE hs[h].kind # ComputeTask
  <2>1. /\ hs[h].at = "dropped" /\ hs[h].kind \in Kind /\ hs[h].own # None /\ hs[h].ans = None
        /\ (Several(addrs) => hs[h].kind.pinned)
    BY <1>1 DEF PlaceOf
  <2>2. PlaceOf(h, n)
    BY <1>1, <1>3, <2>1 DEF PlaceOf, InUse
  <2>3. PICK op \in {"addclose", "close"} : Send(h, "drop", op, n)
    BY <1>4, <1>6
  <2>4. Awaits(n, "drop", op)
    BY <1>3, <2>1 DEF Awaits
  <2> QED BY <1>1, <1>2, <1>3, <2>1, <2>2, <2>3, <2>4, Sends DEF DropTask, netVars
<1> QED BY <1>5, <1>6

LEMMA DropTaskEndsS ==
    ASSUME SInv, NEW h \in Handle, DropTaskEnds(h)
    PROVE  SInv'
<1>1. \A q \in wire : q.h = h => q.by = "nobody"
  BY Quiet DEF DropTaskEnds
<1>2. lst' \in [Handle -> Conn \cup {None}] /\ forfeit' \subseteq Handle
  BY DEF DropTaskEnds, SInv, TypeOK
<1> QED BY <1>1, <1>2, GoneS DEF DropTaskEnds, netVars

LEMMA CancelS ==
    ASSUME SInv, NEW h \in Handle, Cancel(h)
    PROVE  SInv'
<1> DEFINE back == [hs[h] EXCEPT !.at = "idle", !.ans = None]
           n == IF hs[h].at \in {"opening", "listening"} /\ ~hs[h].kind.lazy THEN Gone ELSE back
           late(q) == IF q.h = h THEN [q EXCEPT !.by = "nobody"] ELSE q
<1>1. /\ hs[h] \in Objects /\ PlaceOf(h, hs[h])
      /\ hs[h].at \in {"opening", "listening", "paging", "adding", "closing"}
  BY DEF SInv, TypeOK, Cancel
<1>2. /\ back \in Objects /\ back.at = "idle" /\ back.kind = hs[h].kind /\ back.own = hs[h].own
      /\ back.addr = hs[h].addr /\ back.bg = hs[h].bg /\ back.id = hs[h].id /\ back.ans = None
  BY <1>1, ZenonT(30) DEF Objects
<1>3. Becomes(h, n) /\ wire' = {late(q) : q \in wire}
  BY DEF Cancel
<1> HIDE DEF back
<1>4. n \in Objects /\ PlaceOf(h, n)
  <2>1. CASE hs[h].at \in {"opening", "listening"} /\ ~hs[h].kind.lazy
    BY <2>1, EndObjects DEF PlaceOf, InUse
  <2>2. CASE ~(hs[h].at \in {"opening", "listening"} /\ ~hs[h].kind.lazy)
    <3>1. PlaceOf(h, back)
      BY <1>1, <1>2, <2>2, SamePlace DEF InUse
    <3> QED BY <1>2, <2>2, <3>1
  <2> QED BY <2>1, <2>2
<1> HIDE DEF n
<1>5. ASSUME NEW q \in wire
      PROVE  /\ late(q) \in Messages /\ late(q).h = q.h /\ late(q).kind = q.kind
             /\ late(q).own = q.own /\ late(q).op = q.op /\ late(q).id = q.id
             /\ late(q).conn = q.conn /\ (q.h = h => late(q).by = "nobody")
             /\ (q.h # h => late(q) = q) /\ q.h \in Handle
  BY DEF SInv, TypeOK, Messages
<1> HIDE DEF late
<1>6. TypeOK'
  <2>1. wire' \subseteq Messages
    BY <1>3, <1>5
  <2> QED BY <1>3, <1>4, <2>1 DEF SInv, TypeOK, Becomes, Cancel, netVars
<1>7. hs'[h] = n /\ \A g \in Handle : g # h => hs'[g] = hs[g]
  BY <1>3 DEF SInv, TypeOK, Becomes
<1>8. Net' /\ Numbered'
  BY DEF SInv, Net, Numbered, Cancel, netVars
<1>9. \A g \in Handle : PlaceOf(g, hs[g])'
  <2> SUFFICES ASSUME NEW g \in Handle PROVE PlaceOf(g, hs[g])'
    OBVIOUS
  <2>1. CASE g = h
    BY <1>4, <1>7, <2>1 DEF PlaceOf, Mine, Cancel, netVars
  <2>2. CASE g # h
    BY <1>7, <2>2 DEF SInv, PlaceOf, Mine, Cancel, netVars
  <2> QED BY <2>1, <2>2
<1>10. ASSUME NEW q \in wire PROVE Carried(late(q))'
  <2>1. Carried(q)
    BY DEF SInv
  <2>2. CASE q.h = h
    BY <1>5, <2>1, <2>2 DEF Carried, Mine, Cancel, netVars
  <2>3. CASE q.h # h
    <3>1. late(q) = q /\ hs'[q.h] = hs[q.h]
      BY <1>5, <1>7, <2>3
    <3>2. \A p \in wire' : p.h = q.h => p \in wire
      BY <1>3, <1>5, <2>3
    <3> QED BY <2>1, <3>1, <3>2 DEF Carried, Awaits, Mine, Cancel, netVars
  <2> QED BY <2>2, <2>3
<1>11. \A q \in wire' : Carried(q)'
  BY <1>3, <1>10
<1> QED BY <1>6, <1>8, <1>9, <1>11 DEF SInv, Cancel

\* A connection keeps its address and gives out new numbers only.
Grows ==
    /\ \A c \in Conn : home[c] # None => home'[c] = home[c]
    /\ \A c \in Conn : last[c] <= last'[c]
    /\ \A r \in res' : r \in res \/ last[r.conn] < r.id

\* So a number that is a handle's own stays so.
LEMMA MineKept ==
    ASSUME TypeOK, TypeOK', Grows, NEW g, NEW c, NEW i \in Id \cup {None}, Mine(g, c, i)
    PROVE  /\ c \in Conn /\ home'[c] # None /\ home'[c] = home[c]
           /\ i # None => i <= last'[c] /\ \A r \in res' : r.conn = c /\ r.id = i => r.owner = g
<1>1. c \in Conn /\ home[c] # None /\ home'[c] = home[c]
  BY DEF Mine, Grows
<1>2. last[c] \in Nat /\ last'[c] \in Nat /\ Id \subseteq Nat
  BY <1>1, HandlesAssumption DEF TypeOK, Id
<1>3. ASSUME i # None PROVE i <= last'[c] /\ \A r \in res' : r.conn = c /\ r.id = i => r.owner = g
  <2>1. i \in Nat /\ i <= last[c] /\ last[c] <= last'[c]
    BY <1>1, <1>2, <1>3 DEF Mine, Grows
  <2>2. ASSUME NEW r \in res', r.conn = c, r.id = i PROVE r.owner = g
    <3>1. r \in res
      BY <2>1, <2>2, <1>2 DEF Grows
    <3> QED BY <3>1, <2>2, <1>3 DEF Mine
  <2> QED BY <1>2, <2>1, <2>2
<1> QED BY <1>1, <1>3

\* What an object and a request say stays true of what only grows.
LEMMA MineStays ==
    ASSUME TypeOK, TypeOK', Grows, NEW g, NEW c, NEW i \in Id \cup {None}, Mine(g, c, i)
    PROVE  Mine(g, c, i)'
<1>1. /\ c \in Conn /\ home'[c] # None
      /\ i # None => i <= last'[c] /\ \A r \in res' : r.conn = c /\ r.id = i => r.owner = g
  BY MineKept
<1> QED BY <1>1 DEF Mine

LEMMA PlaceKept ==
    ASSUME TypeOK, TypeOK', Grows, addrs' = addrs, NEW g, NEW x \in Objects, PlaceOf(g, x)
    PROVE  PlaceOf(g, x)'
<1>1. x.id \in Id \cup {None} /\ (x.ans # None => x.ans.id \in Id \cup {None})
  BY DEF Objects, Answers
<1>2. x.own # None => x.addr = home'[x.own] /\ Mine(g, x.own, x.id)'
  BY <1>1, MineKept DEF PlaceOf, Mine
<1>3. x.at = "opening" /\ x.ans # None => (x.ans.ok => Mine(g, x.ans.conn, x.ans.id)')
  BY <1>1, MineKept DEF PlaceOf, Mine
<1> QED BY <1>2, <1>3 DEF PlaceOf

\* The server takes a request off the wire and answers it.
LEMMA DeliverS ==
    ASSUME SInv, NEW q \in wire, NEW a \in Answers, wire' = wire \ {q}, Deliver(q, a),
           UNCHANGED <<up, home, addrs, lst, forfeit>>,
           res' \subseteq [conn : Conn, id : Id, owner : Handle, kind : Kind],
           last' \in [Conn -> 0 .. MaxId], Grows, Numbered', stray' = {},
           q.by # "nobody" /\ q.op = "open" /\ a.ok =>
             /\ a.conn \in Conn /\ home[a.conn] # None
             /\ a.id # None => /\ a.id <= last'[a.conn]
                               /\ \A r \in res' : r.conn = a.conn /\ r.id = a.id => r.owner = q.h
    PROVE  SInv'
<1>1. q \in Messages /\ q.h \in Handle /\ Carried(q) /\ hs[q.h] \in Objects /\ PlaceOf(q.h, hs[q.h])
  BY DEF SInv, TypeOK, Messages
<1> DEFINE n == [hs[q.h] EXCEPT !.ans = a]
<1>2. /\ n \in Objects /\ n.own = hs[q.h].own /\ n.id = hs[q.h].id /\ n.addr = hs[q.h].addr
      /\ n.at = hs[q.h].at /\ n.bg = hs[q.h].bg /\ n.kind = hs[q.h].kind
      /\ n.closed = hs[q.h].closed /\ n.ans = a
  BY <1>1 DEF Objects
<1>3. IF q.by # "nobody" THEN Becomes(q.h, n) ELSE UNCHANGED hs
  BY DEF Deliver
<1> HIDE DEF n
<1>4. hs' \in [Handle -> Objects] /\ \A g \in Handle : hs'[g] = IF g = q.h /\ q.by # "nobody"
                                                                THEN n ELSE hs[g]
  BY <1>2, <1>3 DEF Becomes, SInv, TypeOK
<1>5. TypeOK'
  BY <1>4 DEF SInv, TypeOK
<1>6. Net'
  BY DEF SInv, Net
<1>7. \A g \in Handle : PlaceOf(g, hs[g])'
  <2> SUFFICES ASSUME NEW g \in Handle, NEW x, x = hs'[g] PROVE PlaceOf(g, x)'
    BY PlaceAt
  <2>1. CASE x = hs[g]
    <3>1. x \in Objects /\ PlaceOf(g, x)
      BY <2>1 DEF SInv, TypeOK
    <3> QED BY <1>5, <3>1, PlaceKept DEF SInv
  <2>2. CASE g = q.h /\ q.by # "nobody" /\ x = n
    <3>1. Awaits(hs[g], q.by, q.op)
      BY <1>1, <2>2 DEF Carried
    <3>2. \A y \in Objects : PlaceOf(g, y) => PlaceOf(g, y)'
      BY <1>5, PlaceKept DEF SInv
    <3>3. PICK y \in Objects : y = hs[g]
      BY <1>1, <2>2
    <3>4. PlaceOf(g, y)'
      BY <3>2, <3>3, <1>1, <2>2
    <3>5. /\ x.own = y.own /\ x.id = y.id /\ x.addr = y.addr /\ x.at = y.at /\ x.bg = y.bg
          /\ x.kind = y.kind /\ x.closed = y.closed /\ x.ans = a
      BY <1>2, <2>2, <3>3
    <3>6. y.at \in {"opening", "paging", "adding", "closing"} \/ (y.bg = "sent" /\ y.at = "dropped")
      BY <3>1, <3>3 DEF Awaits
    <3>7. x.at = "opening" => q.op = "open"
      BY <3>1, <3>3, <3>5 DEF Awaits
    <3>8. x.at = "opening" /\ a.ok => Mine(g, a.conn, a.id)'
      BY <3>7, <2>2 DEF Mine
    <3> QED BY <3>4, <3>5, <3>6, <3>8 DEF PlaceOf, InUse
  <2> QED BY <1>4, <2>1, <2>2
<1>8. ASSUME NEW p \in wire' PROVE Carried(p)'
  <2>1. p \in wire /\ p # q /\ Carried(p) /\ p.h \in Handle /\ p.id \in Id \cup {None}
    BY DEF SInv, TypeOK, Messages
  <2>2. p.by # "nobody" => hs'[p.h] = hs[p.h]
    BY <1>4, <2>1 DEF Carried
  <2>3. ASSUME p.op \notin Opens PROVE Mine(p.h, p.own, p.id)'
    <3>1. Mine(p.h, p.own, p.id) /\ TypeOK
      BY <2>1, <2>3 DEF Carried, SInv
    <3> QED BY <1>5, <2>1, <3>1, MineStays
  <2> QED BY <2>1, <2>2, <2>3 DEF Carried, Awaits
<1> QED BY <1>5, <1>6, <1>7, <1>8 DEF SInv

LEMMA ServerOpensS ==
    ASSUME SInv, NEW q \in wire, q.op \in Opens, wire' = wire \ {q}, ServerOpens(q),
           UNCHANGED <<up, home, addrs, lst, forfeit, stray>>
    PROVE  SInv'
<1> DEFINE id == last[q.conn] + 1
           new == [conn |-> q.conn, id |-> id, owner |-> q.h, kind |-> q.kind]
<1>1. /\ q.conn \in Conn /\ q.conn \in up /\ q.h \in Handle /\ q.kind \in Kind
      /\ last \in [Conn -> 0 .. MaxId] /\ last[q.conn] \in Nat
      /\ res \subseteq [conn : Conn, id : Id, owner : Handle, kind : Kind]
      /\ home[q.conn] # None
  <2>1. q \in Messages /\ Carried(q) /\ Net
    BY DEF SInv, TypeOK
  <2>2. q.conn \in Conn /\ q.h \in Handle /\ q.kind \in Kind
    BY <2>1 DEF Messages
  <2>3. q.conn \in up
    BY <2>1 DEF Carried
  <2>4. home[q.conn] # None
    BY <2>1, <2>3, HandlesAssumption DEF Net, SInv, TypeOK
  <2>5. /\ last \in [Conn -> 0 .. MaxId]
        /\ res \subseteq [conn : Conn, id : Id, owner : Handle, kind : Kind]
    BY DEF SInv, TypeOK
  <2>6. last[q.conn] \in Nat
    BY <2>2, <2>5, HandlesAssumption
  <2> QED BY <2>2, <2>3, <2>4, <2>5, <2>6
<1>2. /\ id \in Id /\ id \in Nat /\ last[q.conn] < id /\ id # None
      /\ last' = [last EXCEPT ![q.conn] = id]
  BY <1>1, HandlesAssumption DEF ServerOpens, Id
<1>3. PICK rows \in BOOLEAN, more \in BOOLEAN :
         /\ res' = res \cup {new} \/ res' = res
         /\ Deliver(q, [ok |-> TRUE, gone |-> FALSE, conn |-> q.conn, rows |-> rows,
                        more |-> more,
                        id |-> IF new.kind = SetCursor /\ ~more THEN None ELSE id])
  BY ZenonT(30) DEF ServerOpens
<1> DEFINE i == IF new.kind = SetCursor /\ ~more THEN None ELSE id
           a == [ok |-> TRUE, gone |-> FALSE, conn |-> q.conn, rows |-> rows, more |-> more,
                 id |-> i]
<1>4. Deliver(q, a) /\ i \in {None, id}
  BY <1>3
<1>5. /\ new \in [conn : Conn, id : Id, owner : Handle, kind : Kind]
      /\ new.conn = q.conn /\ new.id = id /\ new.owner = q.h
  BY <1>1, <1>2
<1> HIDE DEF i, new
<1>6. a \in Answers /\ a.conn = q.conn /\ a.id = i
  BY <1>1, <1>2, <1>4 DEF Answers
<1> HIDE DEF a
<1>7. res' \subseteq [conn : Conn, id : Id, owner : Handle, kind : Kind]
  BY <1>1, <1>3, <1>5
<1>8. /\ last' \in [Conn -> 0 .. MaxId] /\ last'[q.conn] = id
      /\ \A c \in Conn : c # q.conn => last'[c] = last[c]
      /\ \A c \in Conn : last[c] \in Nat
  BY <1>1, <1>2, HandlesAssumption DEF Id
<1>9. \A r \in res : /\ r.conn \in up /\ r.conn \in Conn /\ r.id \in Nat /\ r.id <= last[r.conn]
                     /\ (r.conn = q.conn => r.id # id)
  <2> SUFFICES ASSUME NEW r \in res
               PROVE  /\ r.conn \in up /\ r.conn \in Conn /\ r.id \in Nat
                      /\ r.id <= last[r.conn] /\ (r.conn = q.conn => r.id # id)
    OBVIOUS
  <2>1. r.conn \in Conn /\ r.id \in Nat
    BY <1>1, HandlesAssumption DEF Id
  <2>2. r.conn \in up /\ r.id <= last[r.conn]
    BY DEF SInv, Numbered
  <2> QED BY <1>1, <1>2, <2>1, <2>2
<1> HIDE DEF id
<1>10. Grows
  <2>1. \A c \in Conn : last[c] <= last'[c]
    BY <1>1, <1>2, <1>8
  <2>2. \A r \in res' : r \in res \/ last[r.conn] < r.id
    BY <1>2, <1>3, <1>5
  <2> QED BY <2>1, <2>2 DEF Grows
<1>11. Numbered'
  <2>1. ASSUME NEW r \in res' PROVE r.conn \in up /\ r.id <= last'[r.conn]
    <3>1. CASE r \in res
      <4>1. r.conn \in up /\ r.conn \in Conn /\ r.id \in Nat /\ r.id <= last[r.conn]
        BY <1>9, <3>1
      <4>2. last[r.conn] <= last'[r.conn] /\ last[r.conn] \in Nat /\ last'[r.conn] \in Nat
        BY <1>2, <1>8, <4>1
      <4> QED BY <4>1, <4>2
    <3>2. CASE r = new
      BY <1>1, <1>2, <1>5, <1>8, <3>2
    <3> QED BY <1>3, <3>1, <3>2
  <2>2. \A r, s \in res' : r.conn = s.conn /\ r.id = s.id => r = s
    BY <1>3, <1>5, <1>9 DEF SInv, Numbered
  <2> QED BY <2>1, <2>2 DEF Numbered
<1>12. a.id # None => /\ a.id <= last'[a.conn]
                      /\ \A r \in res' : r.conn = a.conn /\ r.id = a.id => r.owner = q.h
  <2> SUFFICES ASSUME a.id # None
               PROVE  /\ a.id <= last'[a.conn]
                      /\ \A r \in res' : r.conn = a.conn /\ r.id = a.id => r.owner = q.h
    OBVIOUS
  <2>1. a.id = id /\ a.conn = q.conn
    BY <1>4, <1>6
  <2>2. a.id <= last'[a.conn]
    BY <1>2, <1>8, <2>1
  <2>3. \A r \in res' : r = new \/ r \in res
    BY <1>3
  <2>4. \A r \in res' : r.conn = a.conn /\ r.id = a.id => r = new
    BY <1>9, <2>1, <2>3
  <2> QED BY <1>5, <2>2, <2>4
<1> QED BY <1>1, <1>4, <1>6, <1>7, <1>8, <1>10, <1>11, <1>12, DeliverS DEF SInv

\* Resources go away.
LEMMA ShrinksS ==
    ASSUME SInv, res' \subseteq res, last' = last, home' = home, up' \subseteq up,
           \A r \in res' : r.conn \in up'
    PROVE  /\ Grows /\ Numbered' /\ last' \in [Conn -> 0 .. MaxId]
           /\ res' \subseteq [conn : Conn, id : Id, owner : Handle, kind : Kind]
<1>1. \A c \in Conn : last[c] <= last[c]
  BY HandlesAssumption DEF SInv, TypeOK
<1> QED BY <1>1 DEF SInv, Grows, Numbered, TypeOK

\* A request that is not an opening one reaches the resource of its own handle, while
\* the connection of that is up.
LEMMA ReachesOwn ==
    ASSUME SInv, NEW q \in wire, q.op \notin Opens, NEW r \in res,
           r.conn = q.conn, r.id = q.id, q.own \in up
    PROVE  r.owner = q.h
<1>1. q.conn = q.own /\ Mine(q.h, q.own, q.id)
  BY DEF SInv, Carried
<1>2. q.id # None
  BY HandlesAssumption DEF SInv, TypeOK
<1> QED BY <1>1, <1>2 DEF Mine

LEMMA ServerS ==
    ASSUME SInv, NEW q \in wire, ServerExecutes(q) \/ ServerFails(q)
    PROVE  SInv'
<1>0. q \in Messages /\ Carried(q)
  BY DEF SInv, TypeOK
<1>1. Failed(FALSE) \in Answers /\ Failed(TRUE) \in Answers
  BY DEF Failed, Answers
<1>2. ASSUME NEW b \in BOOLEAN, wire' = wire \ {q}, Deliver(q, Failed(b)),
             UNCHANGED <<up, home, addrs, lst, forfeit, stray, res, last>>
      PROVE  SInv'
  <2>1. ~Failed(b).ok /\ Failed(b) \in Answers
    BY <1>1, <1>2 DEF Failed
  <2>2. \A r \in res' : r.conn \in up'
    BY <1>2 DEF SInv, Numbered
  <2>3. /\ Grows /\ Numbered' /\ last' \in [Conn -> 0 .. MaxId]
        /\ res' \subseteq [conn : Conn, id : Id, owner : Handle, kind : Kind]
    BY <1>2, <2>2, ShrinksS
  <2> QED BY <1>2, <2>1, <2>3, DeliverS DEF SInv
<1>3. CASE ServerFails(q)
  BY <1>2, <1>3, ZenonT(30) DEF ServerFails, netVars
<1>4. CASE ServerExecutes(q) /\ q.op \in Opens
  BY <1>4, ServerOpensS DEF ServerExecutes, netVars, Opens
<1>5. CASE ServerExecutes(q) /\ q.op \notin Opens
           /\ \A r \in res : r.conn = q.conn /\ r.id = q.id => ~Understands(r.kind, q.op)
  <2>1. wire' = wire \ {q} /\ UNCHANGED <<up, home, addrs, lst, forfeit, stray, res, last>>
        /\ Deliver(q, Failed(q.op = "close"))
    BY <1>5 DEF ServerExecutes, netVars, Opens
  <2>2. PICK b \in BOOLEAN : b = (q.op = "close")
    BY ZenonT(30)
  <2>3. Deliver(q, Failed(b))
    BY <2>1, <2>2
  <2> QED BY <1>2, <2>1, <2>3
<1>6. ASSUME ServerExecutes(q), q.op \notin Opens, NEW r \in res, r.conn = q.conn, r.id = q.id,
             ServerUses(q, r), UNCHANGED last,
             stray' = IF r.owner # q.h /\ q.own \in up THEN stray \cup {q.h} ELSE stray
      PROVE  SInv'
  <2>1. stray' = {}
    BY <1>6, ReachesOwn DEF SInv
  <2>2. PICK more \in BOOLEAN :
           /\ res' = res \ {r} \/ res' = res
           /\ Deliver(q, [ok |-> TRUE, gone |-> FALSE, conn |-> q.conn, rows |-> TRUE,
                          more |-> more, id |-> q.id])
    BY <1>6, ZenonT(30) DEF ServerUses
  <2> DEFINE a == [ok |-> TRUE, gone |-> FALSE, conn |-> q.conn, rows |-> TRUE,
                   more |-> more, id |-> q.id]
  <2>3. a \in Answers
    BY <1>0 DEF Answers, Messages
  <2>4. Deliver(q, a)
    BY <2>2
  <2> HIDE DEF a
  <2>5. wire' = wire \ {q} /\ UNCHANGED <<up, home, addrs, lst, forfeit>>
    BY <1>6 DEF ServerExecutes, netVars
  <2>6. \A s \in res' : s.conn \in up'
    BY <2>2, <2>5 DEF SInv, Numbered
  <2>7. /\ Grows /\ Numbered' /\ last' \in [Conn -> 0 .. MaxId]
        /\ res' \subseteq [conn : Conn, id : Id, owner : Handle, kind : Kind]
    BY <1>6, <2>2, <2>5, <2>6, ShrinksS
  <2>8. q.op # "open"
    BY <1>6 DEF Opens
  <2> QED BY <2>1, <2>3, <2>4, <2>5, <2>7, <2>8, DeliverS
<1> QED BY <1>3, <1>4, <1>5, <1>6 DEF ServerExecutes, Opens

\* The handles and the messages stay as they are.
LEMMA StillS ==
    ASSUME SInv, TypeOK', Net', Numbered', Grows, stray' = {},
           UNCHANGED <<up, addrs, hs, wire>>
    PROVE  SInv'
<1>1. \A h \in Handle : PlaceOf(h, hs[h])'
  <2> SUFFICES ASSUME NEW h \in Handle, NEW x, x = hs'[h] PROVE PlaceOf(h, x)'
    BY PlaceAt
  <2>1. x \in Objects /\ PlaceOf(h, x)
    BY DEF SInv, TypeOK
  <2> QED BY <2>1, PlaceKept DEF SInv
<1>2. ASSUME NEW q \in wire' PROVE Carried(q)'
  <2>1. q \in wire /\ Carried(q) /\ q.h \in Handle /\ q.id \in Id \cup {None}
    BY DEF SInv, TypeOK, Messages
  <2>2. ASSUME q.op \notin Opens PROVE Mine(q.h, q.own, q.id)'
    <3>1. Mine(q.h, q.own, q.id) /\ TypeOK
      BY <2>1, <2>2 DEF Carried, SInv
    <3> QED BY <2>1, <3>1, MineStays
  <2> QED BY <2>1, <2>2 DEF Carried, Awaits
<1> QED BY <1>1, <1>2 DEF SInv

LEMMA SameS ==
    ASSUME SInv, UNCHANGED <<up, home, addrs, hs, res, wire, last, forfeit, stray>>,
           lst' \in [Handle -> Conn \cup {None}]
    PROVE  SInv'
<1>1. TypeOK' /\ Net' /\ Numbered' /\ stray' = {}
  BY DEF SInv, TypeOK, Net, Numbered
<1>2. \A r \in res' : r.conn \in up'
  BY DEF SInv, Numbered
<1>3. Grows
  BY <1>2, ShrinksS
<1> QED BY <1>1, <1>3, StillS

LEMMA TaskFinishesS ==
    ASSUME SInv, TaskFinishes
    PROVE  SInv'
<1>1. res' \subseteq res /\ UNCHANGED <<up, home, addrs, hs, wire, lst, last, forfeit, stray>>
  BY DEF TaskFinishes, netVars
<1>2. \A r \in res' : r.conn \in up'
  BY <1>1 DEF SInv, Numbered
<1>3. /\ Grows /\ Numbered' /\ last' \in [Conn -> 0 .. MaxId]
      /\ res' \subseteq [conn : Conn, id : Id, owner : Handle, kind : Kind]
  BY <1>1, <1>2, ShrinksS
<1>4. TypeOK'
  BY <1>1, <1>3 DEF SInv, TypeOK
<1>5. Net'
  BY <1>1 DEF SInv, Net
<1>6. stray' = {}
  BY <1>1 DEF SInv
<1> QED BY <1>1, <1>3, <1>4, <1>5, <1>6, StillS

LEMMA WaitS ==
    ASSUME SInv, NEW h \in Handle, Wait(h)
    PROVE  SInv'
<1>1. /\ UNCHANGED <<up, home, addrs, hs, res, wire, last, forfeit, stray>>
      /\ lst' \in [Handle -> Conn \cup {None}]
  BY DEF Wait, netVars, SInv, TypeOK
<1> QED BY <1>1, SameS

LEMMA BreakS ==
    ASSUME SInv, NEW c \in Conn, Break(c)
    PROVE  SInv'
<1> DEFINE Cut(h) == \E q \in wire : q.conn = c /\ q.h = h /\ q.by # "nobody"
           n(h) == [hs[h] EXCEPT !.ans = Failed(FALSE)]
<1>1. /\ up' = up \ {c} /\ res' = {r \in res : r.conn # c}
      /\ wire' = {q \in wire : q.conn # c} /\ UNCHANGED <<home, addrs, last, forfeit, stray>>
      /\ lst' \in [Handle -> Conn \cup {None}]
  BY DEF Break, SInv, TypeOK
<1>2. hs' = [h \in Handle |-> IF Cut(h) THEN n(h) ELSE hs[h]]
  BY DEF Break
<1>3. ASSUME NEW h \in Handle PROVE hs[h] \in Objects /\ n(h) \in Objects /\ PlaceOf(h, hs[h])
  <2>1. hs[h] \in Objects /\ PlaceOf(h, hs[h])
    BY DEF SInv, TypeOK
  <2>2. Failed(FALSE) \in Answers
    BY DEF Failed, Answers
  <2> QED BY <2>1, <2>2, ZenonT(30) DEF Objects
<1>4. ASSUME NEW h \in Handle, Cut(h) PROVE PlaceOf(h, n(h))
  <2>1. PICK q \in wire : q.conn = c /\ q.h = h /\ q.by # "nobody"
    BY <1>4
  <2>2. Awaits(hs[h], q.by, q.op)
    BY <2>1 DEF SInv, Carried
  <2> QED BY <1>3, <2>2, FailedPlace, ZenonT(30)
<1> HIDE DEF Cut, n
<1>5. \A r \in res' : r.conn \in up'
  BY <1>1 DEF SInv, Numbered
<1>6. /\ Grows /\ Numbered' /\ last' \in [Conn -> 0 .. MaxId]
      /\ res' \subseteq [conn : Conn, id : Id, owner : Handle, kind : Kind]
  BY <1>1, <1>5, ShrinksS
<1>7. TypeOK'
  <2>1. hs' \in [Handle -> Objects]
    BY <1>2, <1>3
  <2> QED BY <1>1, <1>6, <2>1 DEF SInv, TypeOK
<1>8. Net'
  BY <1>1 DEF SInv, Net
<1>9. \A h \in Handle : PlaceOf(h, hs[h])'
  <2> SUFFICES ASSUME NEW h \in Handle, NEW x, x = hs'[h] PROVE PlaceOf(h, x)'
    BY PlaceAt
  <2>1. x \in Objects /\ PlaceOf(h, x)
    BY <1>2, <1>3, <1>4
  <2> QED BY <1>1, <1>6, <1>7, <2>1, PlaceKept DEF SInv
<1>10. ASSUME NEW q \in wire' PROVE Carried(q)'
  <2>1. q \in wire /\ q.conn # c /\ Carried(q) /\ q.h \in Handle /\ q.id \in Id \cup {None}
    BY <1>1 DEF SInv, TypeOK, Messages
  <2>2. q.by # "nobody" => hs'[q.h] = hs[q.h]
    BY <1>2, <2>1 DEF Cut, Carried
  <2>3. ASSUME q.op \notin Opens PROVE Mine(q.h, q.own, q.id)'
    <3>1. Mine(q.h, q.own, q.id) /\ TypeOK
      BY <2>1, <2>3 DEF Carried, SInv
    <3> QED BY <1>6, <1>7, <2>1, <3>1, MineStays
  <2> QED BY <1>1, <2>1, <2>2, <2>3 DEF Carried, Awaits
<1> QED BY <1>1, <1>6, <1>7, <1>8, <1>9, <1>10 DEF SInv

LEMMA RedialS ==
    ASSUME SInv, NEW c \in Conn, Redial(c)
    PROVE  SInv'
<1>1. PICK a \in addrs : (\A d \in up : home[d] # a) /\ home' = [home EXCEPT ![c] = a]
  BY ZenonT(30) DEF Redial
<1>2. /\ home[c] = None /\ up' = up \cup {c}
      /\ UNCHANGED <<addrs, hs, res, wire, lst, last, forfeit, stray>>
  BY DEF Redial
<1>3. home'[c] = a /\ (\A d \in Conn : d # c => home'[d] = home[d]) /\ a \in Addr /\ a # None
  BY <1>1, HandlesAssumption DEF SInv, TypeOK
<1>4. TypeOK'
  BY <1>1, <1>2, <1>3 DEF SInv, TypeOK
<1>5. Net'
  BY <1>1, <1>2, <1>3 DEF SInv, TypeOK, Net
<1>6. Grows
  <2>1. \A d \in Conn : last[d] <= last[d]
    BY HandlesAssumption DEF SInv, TypeOK
  <2> QED BY <1>2, <1>3, <2>1 DEF Grows
<1>7. Numbered'
  BY <1>2 DEF SInv, Numbered
<1>8. \A h \in Handle : PlaceOf(h, hs[h])'
  <2> SUFFICES ASSUME NEW h \in Handle, NEW x, x = hs'[h] PROVE PlaceOf(h, x)'
    BY PlaceAt
  <2>1. x \in Objects /\ PlaceOf(h, x)
    BY <1>2 DEF SInv, TypeOK
  <2> QED BY <1>2, <1>4, <1>6, <2>1, PlaceKept DEF SInv
<1>9. ASSUME NEW q \in wire' PROVE Carried(q)'
  <2>1. q \in wire /\ Carried(q) /\ q.h \in Handle /\ q.id \in Id \cup {None}
    BY <1>2 DEF SInv, TypeOK, Messages
  <2>2. q.op \notin Opens => Mine(q.h, q.own, q.id)' /\ q.own # c
    BY <1>2, <1>4, <1>6, <2>1, MineKept DEF Carried, SInv, Mine
  <2> QED BY <1>2, <2>1, <2>2 DEF Carried, Awaits
<1> QED BY <1>2, <1>4, <1>5, <1>7, <1>8, <1>9 DEF SInv

LEMMA SStep ==
    ASSUME SpreadPinned, SInv, [Next]_vars
    PROVE  SInv'
<1>1. CASE UNCHANGED vars
  <2>1. UNCHANGED <<up, home, addrs, hs, res, last, wire, lst, forfeit, stray>>
    BY <1>1 DEF vars, netVars
  <2>2. lst' \in [Handle -> Conn \cup {None}]
    BY <2>1 DEF SInv, TypeOK
  <2> QED BY <2>1, <2>2, SameS
<1>2. CASE Next
  BY <1>2, OpenS, OpenedS, OpenFailsS, ListenS, NextPageS, PagedS, AddDataS, AddedS, CloseS,
     ClosedS, WaitS, DropS, DropTaskS, DropTaskEndsS, CancelS, ServerS, TaskFinishesS, BreakS,
     RedialS DEF Next
<1> QED BY <1>1, <1>2

\* RequestRoute::pinned(meta.address): for any handles, kinds, addresses and
\* connections, whatever breaks, fails or is cancelled, no request of a handle reaches
\* the resource of another one while the connection of its own is up; provided that
\* the kinds used with several addresses are the pinned ones.
THEOREM RequestsStay ==
    ASSUME SpreadPinned
    PROVE  Spec => []StaysOnItsResource
<1>1. SInv => StaysOnItsResource
  BY DEF SInv, StaysOnItsResource
<1>2. SInv /\ [Next]_vars => SInv'
  BY SStep
<1> QED BY <1>1, <1>2, SInitial, PTL DEF Spec
============================================================================
