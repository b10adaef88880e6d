------------------------------ MODULE Handles ------------------------------
(***************************************************************************)
(* The client objects that stand for a resource on the server: the entry   *)
(* cursors of scan, index and SQL queries and the SQL fields cursor        *)
(* (cursor.rs), the cursor of a set (data_structures.rs), the data         *)
(* streamer (streamer.rs), the continuous query (query/continuous.rs) and  *)
(* the compute task (compute/mod.rs).  A resource belongs to the           *)
(* connection it was opened on and is named by a number that connection    *)
(* gave it; the server's side is external.  Requests of cursors and tasks  *)
(* are pinned to an address; the others take the default route.            *)
(***************************************************************************)
EXTENDS Naturals, FiniteSets, TLC

CONSTANTS
    Handle,    \* objects a program may create, one after another or together
    Programs,  \* the sets of kinds it may have in use together
    Addr,      \* the addresses of the cluster
    Spread,    \* the kinds it creates when the cluster has several addresses
    MaxConn,   \* connections dialled in a behaviour
    MaxId,     \* resources opened on one connection
    MaxLate,   \* abandoned requests on their way at a time
    Faults,    \* whether a request may fail on the server
    None

----------------------------------------------------------------------------
(* The kinds of handle: whether later requests are pinned to the address   *)
(* of the response, whether it is read page by page, whether next_page     *)
(* closes it after the last page (otherwise the server has), whether       *)
(* close() gives up the id and whether it sets closed before it sends,     *)
(* whether a notification listener is registered, and whether it is opened *)
(* by its first use.                                                       *)

EntryCursor(closeOnExhaustion) ==
    [pinned |-> TRUE, paged |-> TRUE, shuts |-> closeOnExhaustion, takes |-> FALSE,
     eager |-> FALSE, heard |-> FALSE, lazy |-> FALSE]

scan_query  == EntryCursor(FALSE)
index_query == EntryCursor(FALSE)
sql_query   == EntryCursor(TRUE)
SqlFieldsCursor == EntryCursor(FALSE)

\* The server closes it with the last page, and resource_id is None from then on.
SetCursor ==
    [EntryCursor(FALSE) EXCEPT !.pinned = FALSE, !.takes = TRUE]

DataStreamer ==
    [SetCursor EXCEPT !.paged = FALSE, !.eager = TRUE, !.lazy = TRUE]

ContinuousQueryCursor ==
    [SetCursor EXCEPT !.paged = FALSE, !.takes = FALSE, !.heard = TRUE]

\* closed is the flag cancelled, close() is cancel().
ComputeTask ==
    [ContinuousQueryCursor EXCEPT !.pinned = TRUE, !.eager = TRUE]

Kind == {scan_query, index_query, sql_query, SqlFieldsCursor, SetCursor, DataStreamer,
         ContinuousQueryCursor, ComputeTask}

----------------------------------------------------------------------------
Conn == 1 .. MaxConn
Id   == 1 .. MaxId

Answers == [ok : BOOLEAN, gone : BOOLEAN, id : Id \cup {None}, conn : Conn \cup {None},
            rows : BOOLEAN, more : BOOLEAN]

ASSUME HandlesAssumption ==
    /\ Programs \subseteq SUBSET Kind /\ Spread \subseteq Kind
    /\ MaxConn \in Nat /\ MaxId \in Nat /\ MaxLate \in Nat /\ Faults \in BOOLEAN
    /\ None \notin Addr \cup Conn \cup Id /\ None \notin Answers

VARIABLES
    up,       \* the live connections
    home,     \* home[c]: the address connection c was dialled to
    addrs,    \* the addresses of the cluster in this behaviour
    hs,       \* hs[h]: the client object
    res,      \* the resources on the server
    last,     \* last[c]: the last number connection c gave to one
    wire,     \* requests on their way
    lst,      \* lst[h]: the connection that has a notification listener of h
    forfeit,  \* handles whose resource nobody can name any more
    stray     \* handles a request of which reached someone else's resource
              \* while the connection of their own was up

netVars == <<up, home, addrs>>
vars == <<netVars, hs, res, last, wire, lst, forfeit, stray>>

Fresh == [kind |-> None, at |-> "none", bg |-> "none", id |-> None, addr |-> None,
          own |-> None, pend |-> FALSE, more |-> FALSE, closed |-> FALSE, ans |-> None]

Objects ==
    [kind : Kind \cup {None},
     at : {"none", "opening", "listening", "idle", "paging", "closing", "adding", "dropped"},
     bg : {"none", "send", "sent"}, id : Id \cup {None}, addr : Addr \cup {None},
     own : Conn \cup {None}, pend : BOOLEAN, more : BOOLEAN, closed : BOOLEAN,
     ans : Answers \cup {None}]

Messages ==
    [h : Handle, kind : Kind, own : Conn \cup {None}, by : {"owner", "drop", "nobody"},
     op : {"open", "oneshot", "page", "add", "addclose", "close"}, id : Id \cup {None},
     conn : Conn]

TypeOK ==
    /\ up \subseteq Conn /\ addrs \subseteq Addr
    /\ home \in [Conn -> Addr \cup {None}]
    /\ hs \in [Handle -> Objects]
    /\ res \subseteq [conn : Conn, id : Id, owner : Handle, kind : Kind]
    /\ last \in [Conn -> 0 .. MaxId]
    /\ wire \subseteq Messages
    /\ lst \in [Handle -> Conn \cup {None}]
    /\ forfeit \subseteq Handle /\ stray \subseteq Handle

Init ==
    /\ addrs \in {{a} : a \in Addr} \cup {Addr}
    /\ \E f \in [addrs -> Conn] :
         /\ \A a, b \in addrs : f[a] = f[b] => a = b
         /\ up = {f[a] : a \in addrs} /\ up = 1 .. Cardinality(addrs)
         /\ home = [c \in Conn |-> IF \E a \in addrs : f[a] = c
                                   THEN CHOOSE a \in addrs : f[a] = c ELSE None]
    /\ hs = [h \in Handle |-> Fresh]
    /\ res = {} /\ last = [c \in Conn |-> 0] /\ wire = {}
    /\ lst = [h \in Handle |-> None]
    /\ forfeit = {} /\ stray = {}

----------------------------------------------------------------------------
(* Sending *)

\* Faulty variant of Route: every request takes the default route.
RouteDefault(h) == up

\* RequestRoute::pinned keeps to the address; the default route is any channel.
Route(h) ==
    IF hs[h].addr # None /\ hs[h].kind.pinned
    THEN {c \in up : home[c] = hs[h].addr} ELSE up

Failed(gone) == [ok |-> FALSE, gone |-> gone, id |-> None, conn |-> None,
                 rows |-> FALSE, more |-> FALSE]

\* send_with_route for h, awaited by the owner of the handle or by the task
\* its drop spawned; the object becomes new.
Send(h, by, op, new) ==
    \/ \E c \in Route(h) :
         /\ wire' = wire \cup {[h |-> h, kind |-> new.kind, own |-> hs[h].own, by |-> by, op |-> op, id |-> hs[h].id, conn |-> c]}
         /\ hs' = [hs EXCEPT ![h] = new]
    \/ /\ Route(h) = {}
       /\ hs' = [hs EXCEPT ![h] = [new EXCEPT !.ans = Failed(FALSE)]]
       /\ UNCHANGED wire

\* A handle whose last task has ended.
Gone == [Fresh EXCEPT !.at = "dropped"]

Becomes(h, new) == hs' = [hs EXCEPT ![h] = new]

----------------------------------------------------------------------------
(* The server and the network *)

\* The caller that waits for the request, if it still does, gets ans.
Deliver(q, ans) ==
    IF q.by # "nobody" THEN Becomes(q.h, [hs[q.h] EXCEPT !.ans = ans]) ELSE UNCHANGED hs

\* What kind of request a kind of resource understands.
Understands(kind, op) ==
    \/ op = "close"
    \/ op = "page" /\ kind.paged
    \/ op \in {"add", "addclose"} /\ kind = DataStreamer

\* A new resource with its first page: a cursor whose page is the last one is
\* released at once, but for that of a SQL query the client may have to do it.
ServerOpens(q) ==
    LET id == last[q.conn] + 1
        new == [conn |-> q.conn, id |-> id, owner |-> q.h, kind |-> q.kind]
    IN /\ id \in Id
       /\ last' = [last EXCEPT ![q.conn] = id]
       /\ \E rows, more \in BOOLEAN : \E keep \in {more, more \/ new.kind.shuts} :
         /\ (~new.kind.paged => more) /\ (more => rows)
         /\ res' = IF keep /\ q.op = "open" THEN res \cup {new} ELSE res
         /\ Deliver(q, [ok |-> TRUE, gone |-> FALSE, conn |-> q.conn, rows |-> rows,
                        more |-> more,
                        id |-> IF new.kind = SetCursor /\ ~more THEN None ELSE id])

ServerUses(q, r) ==
    \E more \in BOOLEAN : \E keep \in {more, more \/ r.kind.shuts} :
       /\ q.op # "page" => more
       /\ res' = IF q.op \in {"close", "addclose"} \/ ~keep THEN res \ {r} ELSE res
       /\ Deliver(q, [ok |-> TRUE, gone |-> FALSE, conn |-> q.conn, rows |-> TRUE,
                      more |-> more, id |-> q.id])

ServerExecutes(q) ==
    /\ q \in wire
    /\ wire' = wire \ {q}
    /\ \/ /\ q.op \in {"open", "oneshot"}
          /\ ServerOpens(q)
          /\ UNCHANGED stray
       \/ /\ q.op \notin {"open", "oneshot"}
          /\ \E r \in res : /\ r.conn = q.conn /\ r.id = q.id
                            /\ Understands(r.kind, q.op)
                            /\ ServerUses(q, r)
                            /\ UNCHANGED last
                            /\ stray' = IF r.owner # q.h /\ q.own \in up
                                        THEN stray \cup {q.h} ELSE stray
       \/ /\ q.op \notin {"open", "oneshot"}
          /\ \A r \in res : r.conn = q.conn /\ r.id = q.id => ~Understands(r.kind, q.op)
          /\ Deliver(q, Failed(q.op = "close"))
          /\ UNCHANGED <<res, last, stray>>
    /\ UNCHANGED <<netVars, lst, forfeit>>

\* The request is refused, or its timeout fires before it is executed.
ServerFails(q) ==
    /\ Faults /\ q \in wire
    /\ wire' = wire \ {q}
    /\ Deliver(q, Failed(FALSE))
    /\ UNCHANGED <<netVars, res, lst, last, forfeit, stray>>

TaskFinishes ==
    /\ \E r \in res : r.kind = ComputeTask /\ res' = res \ {r}
    /\ UNCHANGED <<netVars, hs, wire, lst, last, forfeit, stray>>

\* The server releases what belongs to a connection when it breaks.
Break(c) ==
    /\ c \in up
    /\ up' = up \ {c}
    /\ res' = {r \in res : r.conn # c}
    /\ wire' = {q \in wire : q.conn # c}
    /\ hs' = [h \in Handle |->
                IF \E q \in wire : q.conn = c /\ q.h = h /\ q.by # "nobody"
                THEN [hs[h] EXCEPT !.ans = Failed(FALSE)] ELSE hs[h]]
    /\ lst' = [h \in Handle |-> IF lst[h] = c THEN None ELSE lst[h]]
    /\ UNCHANGED <<home, addrs, last, forfeit, stray>>

\* Some task reconnects to an address that has no connection.
Redial(c) ==
    /\ home[c] = None /\ \A d \in 1 .. c - 1 : home[d] # None
    /\ \E a \in addrs : /\ \A d \in up : home[d] # a
                        /\ home' = [home EXCEPT ![c] = a]
    /\ up' = up \cup {c}
    /\ UNCHANGED <<addrs, hs, res, wire, lst, last, forfeit, stray>>

----------------------------------------------------------------------------
(* Opening *)

Several(S) == \E a, b \in S : a # b

\* The query and compute methods send their request; DataStreamer::new does not.
Open(h) ==
    /\ hs[h].at = "none"
    /\ \E k \in Kind :
         /\ \E p \in Programs : {k} \cup {hs[i].kind : i \in Handle} \subseteq p \cup {None}
         /\ Several(addrs) => k \in Spread
         /\ LET new == [hs[h] EXCEPT !.kind = k]
            IN IF k.lazy
               THEN Becomes(h, [new EXCEPT !.at = "idle"]) /\ UNCHANGED wire
               ELSE Send(h, "owner", "open", [new EXCEPT !.at = "opening"])
    /\ UNCHANGED <<netVars, res, lst, last, forfeit, stray>>

\* EntryCursor::new, SqlFieldsCursor::new, SetCursor; listeners come next.
Opened(h) ==
    /\ hs[h].at = "opening" /\ hs[h].ans # None /\ hs[h].ans.ok
    /\ LET a == hs[h].ans
       IN Becomes(h, [hs[h] EXCEPT !.at = IF hs[h].kind.heard THEN "listening" ELSE "idle",
                                   !.id = a.id, !.own = a.conn, !.addr = home[a.conn],
                                   !.pend = a.rows /\ hs[h].kind.paged,
                                   !.more = a.more, !.ans = None])
    /\ UNCHANGED <<netVars, res, wire, lst, last, forfeit, stray>>

\* The request failed, or (forfeiting an open cursor) a row of the first page does
\* not decode: there is no object.
OpenFails(h) ==
    /\ hs[h].at = "opening" /\ hs[h].ans # None /\ ~hs[h].kind.lazy
    /\ \/ ~hs[h].ans.ok /\ UNCHANGED forfeit
       \/ /\ hs[h].ans.ok /\ hs[h].kind.paged /\ hs[h].ans.rows
          /\ forfeit' = forfeit \cup {h}
    /\ Becomes(h, Gone)
    /\ UNCHANGED <<netVars, res, wire, lst, last, stray>>

\* register_notification_listener at the address of the response.
Listen(h) ==
    /\ hs[h].at = "listening"
    /\ \/ \E c \in up : /\ home[c] = hs[h].addr
                        /\ lst' = [lst EXCEPT ![h] = c]
                        /\ Becomes(h, [hs[h] EXCEPT !.at = "idle"])
       \/ /\ \A c \in up : home[c] # hs[h].addr
          /\ Becomes(h, Gone)
          /\ UNCHANGED lst
    /\ UNCHANGED <<netVars, res, wire, last, forfeit, stray>>

----------------------------------------------------------------------------
(* Paging *)

\* mark_exhausted: the server has released the cursor, or it is closed now; a
\* set cursor has no id left when the last page came from the server.
Exhausted(h, new) ==
    \/ new.closed /\ Becomes(h, new) /\ UNCHANGED wire
    \/ /\ ~new.closed
       /\ IF new.kind.shuts
          THEN Send(h, "owner", "close", [new EXCEPT !.at = "closing"])
          ELSE Becomes(h, [new EXCEPT !.closed = TRUE, !.id = IF new.kind.takes THEN None
                                                              ELSE @]) /\ UNCHANGED wire

\* next_page: the pending rows, nothing more, or a request.
NextPage(h) ==
    /\ hs[h].at = "idle" /\ hs[h].kind.paged
    /\ \/ hs[h].pend /\ hs[h].more
          /\ Becomes(h, [hs[h] EXCEPT !.pend = FALSE]) /\ UNCHANGED wire
       \/ ~hs[h].more /\ Exhausted(h, [hs[h] EXCEPT !.pend = FALSE])
       \/ /\ ~hs[h].pend /\ hs[h].more /\ hs[h].id # None
          /\ Send(h, "owner", "page", [hs[h] EXCEPT !.at = "paging"])
    /\ UNCHANGED <<netVars, res, lst, last, forfeit, stray>>

\* A page that failed or does not decode leaves the cursor as it was.
Paged(h) ==
    /\ hs[h].at = "paging" /\ hs[h].ans # None
    /\ LET back == [hs[h] EXCEPT !.at = "idle", !.ans = None]
       IN \/ hs[h].ans.ok /\ ~hs[h].ans.more /\ Exhausted(h, [back EXCEPT !.more = FALSE])
          \/ Becomes(h, back) /\ UNCHANGED wire
    /\ UNCHANGED <<netVars, res, lst, last, forfeit, stray>>

----------------------------------------------------------------------------
(* The streamer *)

\* add_data, flush, and add_data_and_close, which consumes the streamer.
AddData(h) ==
    /\ hs[h].at = "idle" /\ hs[h].kind.lazy /\ ~hs[h].closed
    /\ \/ /\ hs[h].id = None
          /\ Send(h, "owner", "open", [hs[h] EXCEPT !.at = "opening"])
       \/ /\ hs[h].id # None
          /\ Send(h, "owner", "add", [hs[h] EXCEPT !.at = "adding"])
       \/ Send(h, "owner", IF hs[h].id = None THEN "oneshot" ELSE "addclose",
               [hs[h] EXCEPT !.closed = TRUE, !.id = None, !.at = "closing"])
    /\ UNCHANGED <<netVars, res, lst, last, forfeit, stray>>

\* The first add_data failed: the streamer has no resource yet.
Added(h) ==
    /\ hs[h].ans # None /\ hs[h].kind = DataStreamer
    /\ \/ hs[h].at = "adding"
       \/ hs[h].at = "opening" /\ ~hs[h].ans.ok
    /\ Becomes(h, [hs[h] EXCEPT !.at = "idle", !.ans = None])
    /\ UNCHANGED <<netVars, res, wire, lst, last, forfeit, stray>>

----------------------------------------------------------------------------
(* Closing *)

\* close, or ComputeTask::cancel.
Close(h) ==
    /\ hs[h].at = "idle" /\ ~hs[h].closed
    /\ LET k == hs[h].kind
           new == [hs[h] EXCEPT !.at = "closing",
                                !.id = IF k.takes THEN None ELSE @,
                                !.closed = k.eager]
       IN IF hs[h].id = None
          THEN Becomes(h, [new EXCEPT !.at = "idle", !.closed = TRUE]) /\ UNCHANGED wire
          ELSE Send(h, "owner", IF k.lazy THEN "addclose" ELSE "close", new)
    /\ lst' = IF hs[h].kind = ContinuousQueryCursor THEN [lst EXCEPT ![h] = None] ELSE lst
    /\ UNCHANGED <<netVars, res, last, forfeit, stray>>

\* Faulty variant of Closed: a failed close counts as one.
ClosedAnyway(h) ==
    /\ hs[h].at = "closing" /\ hs[h].ans # None
    /\ Becomes(h, [hs[h] EXCEPT !.at = "idle", !.ans = None, !.closed = TRUE])
    /\ UNCHANGED <<netVars, res, wire, lst, last, forfeit, stray>>

\* Only an acknowledged close counts; the id of a set or streamer is gone.  A
\* task that has finished is cancelled all the same.
Closed(h) ==
    /\ hs[h].at = "closing" /\ hs[h].ans # None
    /\ LET good == hs[h].ans.ok \/ (hs[h].kind = ComputeTask /\ hs[h].ans.gone)
       IN /\ Becomes(h, [hs[h] EXCEPT !.at = "idle", !.ans = None, !.closed = @ \/ good])
          /\ lst' = IF good /\ hs[h].kind = ComputeTask THEN [lst EXCEPT ![h] = None] ELSE lst
          /\ forfeit' = IF ~good /\ (hs[h].kind.takes \/ hs[h].kind.eager)
                        THEN forfeit \cup {h} ELSE forfeit
    /\ UNCHANGED <<netVars, res, wire, last, stray>>

\* ComputeTask::wait has the result.
Wait(h) ==
    /\ hs[h].at = "idle" /\ hs[h].kind = ComputeTask /\ ~hs[h].closed /\ lst[h] # None
    /\ \A r \in res : r.owner # h
    /\ lst' = [lst EXCEPT ![h] = None]
    /\ UNCHANGED <<netVars, hs, res, wire, last, forfeit, stray>>

\* Faulty variant of Drop: a cursor with rows left is not closed.
DropSilent(h) ==
    /\ hs[h].at = "idle"
    /\ Becomes(h, Gone)
    /\ UNCHANGED <<netVars, res, wire, lst, last, forfeit, stray>>

\* Drop spawns a task that closes what is not closed yet; that of a compute task
\* only takes the listener away.
Drop(h) ==
    /\ hs[h].at = "idle"
    /\ Becomes(h, IF hs[h].closed \/ hs[h].id = None THEN Gone
                  ELSE [hs[h] EXCEPT !.at = "dropped", !.bg = "send"])
    /\ UNCHANGED <<netVars, res, wire, lst, last, forfeit, stray>>

DropTask(h) ==
    /\ hs[h].bg = "send"
    /\ IF hs[h].kind = ComputeTask
       THEN Becomes(h, Gone) /\ UNCHANGED wire
       ELSE Send(h, "drop", IF hs[h].kind.lazy THEN "addclose" ELSE "close",
                 [hs[h] EXCEPT !.bg = "sent"])
    /\ lst' = IF hs[h].kind.heard THEN [lst EXCEPT ![h] = None] ELSE lst
    /\ UNCHANGED <<netVars, res, last, forfeit, stray>>

DropTaskEnds(h) ==
    /\ hs[h].bg = "sent" /\ hs[h].ans # None
    /\ Becomes(h, Gone)
    /\ forfeit' = IF hs[h].ans.ok THEN forfeit ELSE forfeit \cup {h}
    /\ UNCHANGED <<netVars, res, wire, lst, last, stray>>

\* The caller drops the future of a call: the request stays on its way and its
\* answer goes nowhere.
Cancel(h) ==
    /\ hs[h].at \in {"opening", "listening", "paging", "adding", "closing"}
    /\ Cardinality({q \in wire : q.by = "nobody"}) < MaxLate
    /\ Becomes(h, IF hs[h].at \in {"opening", "listening"} /\ ~hs[h].kind.lazy
                  THEN Gone ELSE [hs[h] EXCEPT !.at = "idle", !.ans = None])
    /\ wire' = {IF q.h = h THEN [q EXCEPT !.by = "nobody"] ELSE q : q \in wire}
    /\ forfeit' = IF \/ hs[h].at \in {"opening", "listening"}
                     \/ hs[h].at = "closing" /\ (hs[h].kind.takes \/ hs[h].kind.eager)
                  THEN forfeit \cup {h} ELSE forfeit
    /\ UNCHANGED <<netVars, res, lst, last, stray>>

----------------------------------------------------------------------------
Next ==
    \/ \E h \in Handle :
         \/ Open(h) \/ Opened(h) \/ OpenFails(h) \/ Listen(h)
         \/ NextPage(h) \/ Paged(h) \/ AddData(h) \/ Added(h)
         \/ Close(h) \/ Closed(h) \/ Wait(h) \/ Drop(h)
         \/ DropTask(h) \/ DropTaskEnds(h) \/ Cancel(h)
    \/ \E q \in wire : ServerExecutes(q) \/ ServerFails(q)
    \/ TaskFinishes
    \/ \E c \in Conn : Break(c) \/ Redial(c)

Spec == Init /\ [][Next]_vars
----------------------------------------------------------------------------
(* Properties *)

\* While the connection a handle's resource was opened on is up, no request made
\* through the handle reaches the resource of another one: the cursors are pinned
\* (RequestRoute::pinned(meta.address)), and the other kinds have one address.
StaysOnItsResource == stray = {}

\* A cursor or continuous query that says it is closed (EntryCursor::closed) has no
\* resource on the server, however late answers come, unless an open was cancelled or
\* could not be decoded, or a close failed.
ClosedMeansGone ==
    \A h \in Handle : hs[h].closed /\ ~hs[h].kind.eager =>
        h \in forfeit \/ \A r \in res : r.owner # h

\* When the last task of a handle has ended, neither a cursor, a streamer or a
\* continuous query on the server nor a listener of the client is left behind,
\* unless an open was cancelled or could not be decoded, or a close failed.
NothingLeftBehind ==
    \A h \in Handle :
        /\ hs[h].at = "dropped" /\ hs[h].bg = "none" /\ h \notin forfeit
        /\ \A q \in wire : q.h # h
        => /\ \A r \in res : r.owner = h => r.kind = ComputeTask
           /\ lst[h] = None

\* "Subsequent calls add data to the open streamer" (DataStreamer::add_data): in a
\* cluster with two addresses they take the default route, which may lead to another
\* node, where the number names the streamer of someone else.
AddsToTheOpenStreamer == \A h \in stray : hs[h].kind # DataStreamer
============================================================================
