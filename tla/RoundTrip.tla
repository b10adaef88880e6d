----------------------------- MODULE RoundTrip -----------------------------
(***************************************************************************)
(* An operation of the client on its way through ChannelManager            *)
(* (transport.rs): the choice of a connection, the retry loop, the         *)
(* fallback of a routed request, and the reconnect that operations and the *)
(* heartbeat task share.  Channel::request is reduced to what Channel      *)
(* shows of it: the frame reaches the server at most once, and the call    *)
(* ends with a reply to its correlation id or with a connection error.     *)
(* The throttle of reconnects is in Throttle, discovery is left out.       *)
(***************************************************************************)
EXTENDS Naturals, Sequences, FiniteSets

CONSTANTS
    Op,             \* operations, each with its own correlation id
    Reads,          \* is_read_only_op of the requests made: a subset of BOOLEAN
    EndpointCount,  \* the seed endpoints are 1..EndpointCount, in order
    Start,          \* the endpoint of the first connection
    ConnCount,      \* bound: connections made to one endpoint
    Kinds,          \* the routes used: "default", "preferred", "pinned"
    Policy,         \* "Default", "Never", "ReadOnly" or "Custom"
    RetryLimit,     \* conf.retry_limit
    Timeouts,       \* whether request_timeout is configured
    Throttled,      \* whether reconnect_throttle is configured
    Heartbeat,      \* {"heartbeat"}, or {} when the task is not running
    None

ASSUME RoundTripAssumption ==
    /\ Reads \subseteq BOOLEAN
    /\ EndpointCount \in Nat \ {0} /\ ConnCount \in Nat \ {0}
    /\ Start \in 1..EndpointCount
    /\ Kinds \subseteq {"default", "preferred", "pinned"}
    /\ Policy \in {"Default", "Never", "ReadOnly", "Custom"}
    /\ RetryLimit \in Nat
    /\ Timeouts \in BOOLEAN /\ Throttled \in BOOLEAN
    /\ Heartbeat \subseteq {"heartbeat"}
    /\ Op \cap {"heartbeat", None} = {}
    /\ None \notin {"heartbeat", "default", "preferred", "pinned"}

Endpoint == 1..EndpointCount
Conn     == Endpoint \X (1..ConnCount)
Actor    == Op \cup Heartbeat

VARIABLES
    pc,       \* pc[a]: where the task of a is
    kind,     \* kind[o]: the route o was sent with
    readOnly, \* readOnly[o]: is_read_only_op of its op code
    target,   \* target[o]: the endpoint of its pinned address or preferred node
    inLoop,   \* inLoop[o]: o is in round_trip_internal
    attempt,  \* attempt[o]: the loop's counter
    buf,      \* buf[o]: the loop's request buffer still holds the request
    att,      \* att[o]: the calls of Channel::request made for o
    job,      \* job[a]: a's locals in reconnect_from, connect_any, connect_specific
    pool,     \* connections made, all of them kept in the channels map
    up,       \* those that are available
    active,   \* the active connection
    guard,    \* holder of reconnect_guard
    dialing   \* holder of channel_connect_guard

opVars   == <<kind, readOnly, target, inLoop, attempt, buf, att>>
linkVars == <<job, pool, up, active, guard, dialing>>
vars     == <<pc, opVars, linkVars>>

Ended   == {"ok", "err", "cancelled"}
\* The address that failed, the endpoint being tried, how many endpoints follow it,
\* and the number of the connection made.
Job     == [failed : Endpoint, try : Endpoint, left : 0..EndpointCount - 1,
            made : 0..ConnCount]
NoJob   == [failed |-> 1, try |-> 1, left |-> 0, made |-> 0]
Attempt == [conn : Conn, full : BOOLEAN, at : {"refused", "queued", "got", "answered"}]

TypeOK ==
    /\ pc \in [Actor -> {"idle", "select", "pick", "sent", "failed", "probe", "guard",
                         "next", "dial", "adopt"} \cup Ended]
    /\ kind \in [Op -> Kinds \cup {None}]
    /\ readOnly \in [Op -> BOOLEAN]
    /\ target \in [Op -> Endpoint]
    /\ inLoop \in [Op -> BOOLEAN]
    /\ attempt \in [Op -> 0..RetryLimit]
    /\ buf \in [Op -> BOOLEAN]
    /\ att \in [Op -> Seq(Attempt)]
    /\ job \in [Actor -> Job]
    /\ pool \subseteq Conn
    /\ up \subseteq pool
    /\ active \in pool
    /\ guard \in Actor \cup {None}
    /\ dialing \in Actor \cup {None}

\* The client starts with one connection to a seed endpoint.
Init ==
    /\ pc = [a \in Actor |-> "idle"]
    /\ kind = [o \in Op |-> None]
    /\ readOnly = [o \in Op |-> FALSE]
    /\ target = [o \in Op |-> 1]
    /\ inLoop = [o \in Op |-> FALSE]
    /\ attempt = [o \in Op |-> 0]
    /\ buf = [o \in Op |-> TRUE]
    /\ att = [o \in Op |-> <<>>]
    /\ job = [a \in Actor |-> NoJob]
    /\ active = <<Start, 1>>
    /\ pool = {active}
    /\ up = {active}
    /\ guard = None
    /\ dialing = None

----------------------------------------------------------------------------
UpAt(e)  == {c \in up : c[1] = e}
Last(o)  == att[o][Len(att[o])]
After(e) == (e % EndpointCount) + 1

Goto(a, l) == pc' = [pc EXCEPT ![a] = l]

Leave(a) == job' = [job EXCEPT ![a] = NoJob]

\* Channel::request on c; a closed channel refuses it.
Post(o, c, full) ==
    /\ att' = [att EXCEPT ![o] =
                 Append(@, [conn |-> c, full |-> full,
                            at |-> IF c \in up THEN "queued" ELSE "refused"])]
    /\ Goto(o, IF c \in up THEN "sent" ELSE "failed")

EnterLoop(o) ==
    /\ inLoop' = [inLoop EXCEPT ![o] = TRUE]
    /\ Goto(o, "pick")

----------------------------------------------------------------------------
(* round_trip_with_route *)

Begin(o, k, e, r) ==
    /\ pc[o] = "idle"
    /\ k = "default" => e = 1
    /\ kind' = [kind EXCEPT ![o] = k]
    /\ readOnly' = [readOnly EXCEPT ![o] = r]
    /\ target' = [target EXCEPT ![o] = e]
    /\ IF k = "default" THEN EnterLoop(o) ELSE Goto(o, "select") /\ UNCHANGED inLoop
    /\ UNCHANGED <<attempt, buf, att, linkVars>>

\* select_channel_for_route: an available connection of the address, else, for a
\* preferred node, a new one; a node of unknown address goes to the loop.
Select(o) ==
    /\ pc[o] = "select"
    /\ \/ /\ \E c \in UpAt(target[o]) : Post(o, c, TRUE)
          /\ UNCHANGED <<inLoop, job>>
       \/ /\ UpAt(target[o]) = {}
          /\ kind[o] = "pinned"
          /\ Goto(o, "err")
          /\ UNCHANGED <<inLoop, att, job>>
       \/ /\ UpAt(target[o]) = {}
          /\ kind[o] = "preferred"
          /\ \/ /\ job' = [job EXCEPT ![o].try = target[o]]
                /\ Goto(o, "next")
                /\ UNCHANGED inLoop
             \/ /\ EnterLoop(o)
                /\ UNCHANGED job
          /\ UNCHANGED att
    /\ UNCHANGED <<kind, readOnly, target, attempt, buf, pool, up, active, guard, dialing>>

----------------------------------------------------------------------------
(* round_trip_internal *)

\* default_channel: an available candidate, or the active connection as it is.
\* The attempt taken for the last one takes the buffer, the others copy it.
Pick(o) ==
    /\ pc[o] = "pick"
    /\ \E c \in IF up # {} THEN up ELSE {active} : Post(o, c, buf[o])
    /\ buf' = [buf EXCEPT ![o] = @ /\ attempt[o] + 1 < RetryLimit]
    /\ UNCHANGED <<kind, readOnly, target, inLoop, attempt, linkVars>>

\* should_retry: only connection errors get here.  A custom policy may also fail,
\* which ends the operation as a refusal does.
ShouldRetry(o) ==
    CASE Policy = "Default"  -> {TRUE}
      [] Policy = "Never"    -> {FALSE}
      [] Policy = "ReadOnly" -> {readOnly[o]}
      [] Policy = "Custom"   -> BOOLEAN

\* Faulty variant of LoopFailed: the policy is not asked.
LoopFailedUnasked(o) ==
    /\ pc[o] = "failed" /\ inLoop[o]
    /\ Goto(o, IF attempt[o] < RetryLimit THEN "guard" ELSE "err")
    /\ job' = [job EXCEPT ![o].failed = Last(o).conn[1]]
    /\ UNCHANGED <<opVars, pool, up, active, guard, dialing>>

\* A request of the loop failed: it goes on to reconnect while it may retry.
LoopFailed(o) ==
    /\ pc[o] = "failed" /\ inLoop[o]
    /\ \E again \in ShouldRetry(o) :
          Goto(o, IF again /\ attempt[o] < RetryLimit THEN "guard" ELSE "err")
    /\ job' = [job EXCEPT ![o].failed = Last(o).conn[1]]
    /\ UNCHANGED <<opVars, pool, up, active, guard, dialing>>

\* Faulty variant of RouteFailed: a pinned request falls back like a preferred one.
RouteFailedUnpins(o) ==
    /\ pc[o] = "failed" /\ ~inLoop[o]
    /\ EnterLoop(o)
    /\ UNCHANGED <<kind, readOnly, target, attempt, buf, att, linkVars>>

\* The request sent to the route's own connection failed: a pinned one ends, a
\* preferred one enters the loop with its copy of the request.
RouteFailed(o) ==
    /\ pc[o] = "failed" /\ ~inLoop[o]
    /\ \/ kind[o] = "pinned" /\ Goto(o, "err") /\ UNCHANGED inLoop
       \/ kind[o] = "preferred" /\ EnterLoop(o)
    /\ UNCHANGED <<kind, readOnly, target, attempt, buf, att, linkVars>>

----------------------------------------------------------------------------
(* What becomes of a call of Channel::request; see Channel *)

\* The writer pump writes the frame.  An empty buffer writes nothing.
Transmit(o, i) ==
    /\ att[o][i].at = "queued" /\ att[o][i].full
    /\ att[o][i].conn \in up
    /\ att' = [att EXCEPT ![o][i].at = "got"]
    /\ UNCHANGED <<pc, kind, readOnly, target, inLoop, attempt, buf, linkVars>>

\* A reply on the connection to any attempt of o: they share the correlation id.
Reply(o, i) ==
    /\ pc[o] = "sent"
    /\ att[o][i].at = "got" /\ att[o][i].conn = Last(o).conn
    /\ Last(o).conn \in up
    /\ att' = [att EXCEPT ![o][i].at = "answered"]
    /\ Goto(o, "ok")
    /\ UNCHANGED <<kind, readOnly, target, inLoop, attempt, buf, linkVars>>

\* The connection broke and its slots were drained, or the timer fired.
RequestFails(o) ==
    /\ pc[o] = "sent"
    /\ Timeouts \/ Last(o).conn \notin up
    /\ Goto(o, "failed")
    /\ UNCHANGED <<opVars, linkVars>>

\* The caller drops the operation; the guards it holds are released.
Cancel(o) ==
    /\ pc[o] \notin Ended \cup {"idle"}
    /\ Goto(o, "cancelled")
    /\ guard' = IF guard = o THEN None ELSE guard
    /\ dialing' = IF dialing = o THEN None ELSE dialing
    /\ Leave(o)
    /\ UNCHANGED <<opVars, pool, up, active>>

\* mark_broken or close of a connection, for whatever reason.
Break(c) ==
    /\ c \in up
    /\ up' = up \ {c}
    /\ UNCHANGED <<pc, opVars, job, pool, active, guard, dialing>>

----------------------------------------------------------------------------
(* heartbeat_tick *)

HeartbeatTick(a) ==
    /\ a \in Heartbeat
    /\ pc[a] = "idle"
    /\ job' = [job EXCEPT ![a].failed = active[1]]
    /\ Goto(a, IF active \in up THEN "probe" ELSE "guard")
    /\ UNCHANGED <<opVars, pool, up, active, guard, dialing>>

\* The heartbeat goes to the connection that is active by then.
HeartbeatProbe(a) ==
    /\ pc[a] = "probe"
    /\ \/ active \in up /\ Goto(a, "idle")
       \/ (Timeouts \/ active \notin up) /\ Goto(a, "guard")
    /\ UNCHANGED <<opVars, linkVars>>

----------------------------------------------------------------------------
(* reconnect_from *)

\* The caller goes on: an operation with its next attempt, the heartbeat later.
Reconnected(a) ==
    /\ Goto(a, IF a \in Op THEN "pick" ELSE "idle")
    /\ attempt' = [o \in Op |-> IF o = a THEN attempt[o] + 1 ELSE attempt[o]]
    /\ Leave(a)

ReconnectFails(a) ==
    /\ Goto(a, IF a \in Op THEN "err" ELSE "idle")
    /\ UNCHANGED attempt
    /\ Leave(a)

\* Another task has moved on to a healthy connection of another address.
MovedOn(a) == active \in up /\ active[1] # job[a].failed

StartConnecting(a) ==
    /\ guard' = a
    /\ job' = [job EXCEPT ![a].try = After(job[a].failed),
                         ![a].left = EndpointCount - 1]
    /\ Goto(a, "next")
    /\ UNCHANGED attempt

\* Faulty variant of Lock: reconnect_guard is not waited for.
LockWithoutGuard(a) ==
    /\ pc[a] = "guard"
    /\ IF MovedOn(a) THEN Reconnected(a) /\ UNCHANGED guard ELSE StartConnecting(a)
    /\ UNCHANGED <<kind, readOnly, target, inLoop, buf, att, pool, up, active, dialing>>

\* Under reconnect_guard: nothing to do, refused by the throttle, or connect_any
\* from the endpoint after the failed one.
Lock(a) ==
    /\ pc[a] = "guard"
    /\ guard = None
    /\ \/ MovedOn(a) /\ Reconnected(a) /\ UNCHANGED guard
       \/ ~MovedOn(a) /\ Throttled /\ ReconnectFails(a) /\ UNCHANGED guard
       \/ ~MovedOn(a) /\ StartConnecting(a)
    /\ UNCHANGED <<kind, readOnly, target, inLoop, buf, att, pool, up, active, dialing>>

----------------------------------------------------------------------------
(* connect_any, and connect_specific for a preferred node *)

Specific(a) == a \in Op /\ ~inLoop[a]

\* The caller goes on with a connection to the endpoint it was at.
Connected(a, c) ==
    IF Specific(a)
    THEN /\ Post(a, c, TRUE)
         /\ Leave(a)
         /\ UNCHANGED <<active, guard, attempt>>
    ELSE /\ active' = c
         /\ guard' = None
         /\ Reconnected(a)
         /\ UNCHANGED att

\* Faulty variant of Dial: channel_connect_guard is not waited for.
DialWithoutGuard(a) ==
    /\ pc[a] = "next"
    /\ IF UpAt(job[a].try) # {}
       THEN \E c \in UpAt(job[a].try) : Connected(a, c)
       ELSE Goto(a, "dial") /\ UNCHANGED <<active, guard, attempt, att, job>>
    /\ UNCHANGED <<kind, readOnly, target, inLoop, buf, pool, up, dialing>>

\* channel_connect_guard: reuse an available connection, else dial.
Dial(a) ==
    /\ pc[a] = "next"
    /\ dialing = None
    /\ \/ /\ \E c \in UpAt(job[a].try) : Connected(a, c)
          /\ UNCHANGED dialing
       \/ /\ UpAt(job[a].try) = {}
          /\ dialing' = a
          /\ Goto(a, "dial")
          /\ UNCHANGED <<active, guard, attempt, att, job>>
    /\ UNCHANGED <<kind, readOnly, target, inLoop, buf, pool, up>>

\* The new connection is in the pool before its maker goes on with it.
DialOk(a) ==
    /\ pc[a] = "dial"
    /\ LET e == job[a].try
           n == Cardinality({c \in pool : c[1] = e}) + 1
       IN /\ n <= ConnCount
          /\ pool' = pool \cup {<<e, n>>}
          /\ up' = up \cup {<<e, n>>}
          /\ job' = [job EXCEPT ![a].made = n]
    /\ dialing' = None
    /\ Goto(a, "adopt")
    /\ UNCHANGED <<opVars, active, guard>>

\* on_channel_connected has run; the connection may have broken meanwhile.
Adopt(a) ==
    /\ pc[a] = "adopt"
    /\ Connected(a, <<job[a].try, job[a].made>>)
    /\ UNCHANGED <<kind, readOnly, target, inLoop, buf, pool, up, dialing>>

\* Faulty variant of DialFails: the error returns with reconnect_guard still held.
DialFailsKeepsGuard(a) ==
    /\ pc[a] = "dial"
    /\ dialing' = None
    /\ ReconnectFails(a)
    /\ UNCHANGED <<kind, readOnly, target, inLoop, buf, att, pool, up, active, guard>>

\* The next endpoint in cyclic order; after the last one the reconnect fails.
DialFails(a) ==
    /\ pc[a] = "dial"
    /\ dialing' = None
    /\ \/ /\ Specific(a)
          /\ EnterLoop(a)
          /\ Leave(a)
          /\ UNCHANGED <<guard, attempt>>
       \/ /\ ~Specific(a) /\ job[a].left > 0
          /\ job' = [job EXCEPT ![a].try = After(@), ![a].left = @ - 1]
          /\ Goto(a, "next")
          /\ UNCHANGED <<guard, inLoop, attempt>>
       \/ /\ ~Specific(a) /\ job[a].left = 0
          /\ ReconnectFails(a)
          /\ guard' = None
          /\ UNCHANGED inLoop
    /\ UNCHANGED <<kind, readOnly, target, buf, att, pool, up, active>>

----------------------------------------------------------------------------
ReconnectStep(a) ==
    \/ Lock(a) \/ Dial(a) \/ DialOk(a) \/ Adopt(a) \/ DialFails(a)

OpStep(o) ==
    \/ Select(o) \/ Pick(o) \/ RouteFailed(o) \/ LoopFailed(o) \/ RequestFails(o)
    \/ ReconnectStep(o)

Next ==
    \/ \E o \in Op, k \in Kinds, e \in Endpoint, r \in Reads : Begin(o, k, e, r)
    \/ \E o \in Op : OpStep(o) \/ Cancel(o)
    \/ \E o \in Op : \E i \in 1..Len(att[o]) : Transmit(o, i) \/ Reply(o, i)
    \/ \E a \in Heartbeat : HeartbeatTick(a) \/ HeartbeatProbe(a) \/ ReconnectStep(a)
    \/ \E c \in Conn : Break(c)

Spec == Init /\ [][Next]_vars

\* Tasks keep running, a dial ends, and tokio's mutexes are queues: whoever waits
\* for a guard that is released again and again gets it.
Fairness ==
    /\ \A o \in Op : WF_vars(OpStep(o)) /\ SF_vars(Lock(o)) /\ SF_vars(Dial(o))
    /\ \A a \in Heartbeat : WF_vars(HeartbeatProbe(a)) /\ WF_vars(ReconnectStep(a))

FairSpec == Spec /\ Fairness
----------------------------------------------------------------------------
(* Properties *)

Executions(o) ==
    Cardinality({i \in 1..Len(att[o]) : att[o][i].at \in {"got", "answered"}})

\* A pinned request (a transaction's, a cursor's) is sent once at most, to its own
\* address, whatever happens to the connections in between.
PinnedStaysPut ==
    \A o \in Op : kind[o] = "pinned" =>
        /\ Len(att[o]) <= 1
        /\ \A i \in 1..Len(att[o]) : att[o][i].conn[1] = target[o]

\* An operation that should_retry refuses is executed once at most when it has no
\* route of its own, however the connections break around it.
PolicyBoundsLoop ==
    \A o \in Op : kind[o] = "default" /\ ShouldRetry(o) = {FALSE} => Executions(o) <= 1

\* Operations and the heartbeat race to reconnect.  A connection that is active
\* and healthy is replaced only on behalf of a task that saw its address fail.
HealthyActiveKept ==
    [][active' # active /\ active \in up =>
         \E a \in Actor : pc[a] \in {"next", "adopt"} /\ job[a].failed = active[1]]_vars

\* With connections made by operations, the heartbeat and preferred routes at once,
\* there is never more than one healthy connection to an endpoint.
OneConnectionPerEndpoint == \A e \in Endpoint : Cardinality(UpAt(e)) <= 1

\* With a request timeout every operation ends, whatever breaks and whoever else
\* reconnects at the same time.
EveryOperationEnds == \A o \in Op : pc[o] # "idle" ~> pc[o] \in Ended

\* Every attempt carries the request: "Avoid cloning request on last attempt (pass
\* by ownership)" (round_trip_internal) holds it for the attempt it is moved to.
AttemptsCarryRequest == \A o \in Op : \A i \in 1..Len(att[o]) : att[o][i].full

\* RetryPolicy::Never disables failover: the server gets a request once at most.
NeverMeansOnce == \A o \in Op : Policy = "Never" => Executions(o) <= 1
============================================================================
