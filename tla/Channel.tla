------------------------------ MODULE Channel ------------------------------
(***************************************************************************)
(* One connection of the client (transport.rs, struct Channel): callers of *)
(* Channel::request, the writer pump, the response pump, and the tasks     *)
(* that close a pruned connection, with the sharded table of in-flight     *)
(* slots they share.  A task runs from one await to the next; an abort of  *)
(* a pump, and the drop of a caller's or a closer's future, take effect at *)
(* an await.  Listeners of server notifications are in Notifications.      *)
(***************************************************************************)
EXTENDS Naturals, Sequences, FiniteSets

CONSTANTS
    Req,         \* calls of Channel::request; a retry on the channel is a new call
    Corr,        \* correlation ids
    ShardCount,  \* shards of the in-flight table (16 in the code)
    Closers,     \* tasks that call Channel::close
    Timeouts,    \* whether request_timeout is configured (its default is None)
    None

ASSUME ChannelAssumption ==
    /\ Corr \subseteq Nat
    /\ ShardCount \in Nat \ {0}
    /\ Timeouts \in BOOLEAN
    /\ None \notin Req
    /\ None \notin Corr
    /\ {"writer", "reader"} \cap Closers = {}

Actors == {"writer", "reader"} \cup Closers

VARIABLES
    pc,        \* pc[r]: where the caller of r is
    corr,      \* corr[r]: the correlation id r was called with
    slot,      \* slot[r]: the InFlightSlot of r: its result, "taken" once polled out
    answer,    \* answer[r]: the call whose response frame filled r's slot
    parked,    \* parked[r]: the caller sleeps and its waker is in the slot
    table,     \* table[c]: the call whose slot is in flight under c
    queue,     \* the writer_tx channel
    batch,     \* frames the writer pump is writing
    written,   \* calls whose frame the server has received
    answered,  \* calls whose response the response pump has read
    frame,     \* the response the response pump is dispatching
    closed,    \* the closed flag
    task,      \* task[a]: where the pump or closer a is
    first,     \* first[a]: a's mark_broken was the one that set closed
    shard,     \* shard[a]: the next shard a's mark_broken drains
    held,      \* held[a]: slots a took out of the table and has still to fill
    aborted,   \* pumps whose abort was requested
    drained    \* some mark_broken went through all shards

callVars == <<pc, corr, slot, answer, parked>>
wireVars == <<queue, batch, written, answered, frame>>
markVars == <<closed, task, first, shard, held, aborted, drained>>
vars == <<callVars, table, wireVars, markVars>>

Active  == {"insert", "send", "wait", "unsent", "cleanup"}
Marking == {"lock", "drain", "notify"}
Awaits  == {"recv", "write", "read", "lock", "notify"}

TypeOK ==
    /\ pc \in [Req -> {"idle", "ok", "err", "refused", "cancelled"} \cup Active]
    /\ corr \in [Req -> Corr \cup {None}]
    /\ slot \in [Req -> {"empty", "ok", "lost", "taken"}]
    /\ answer \in [Req -> Req \cup {None}]
    /\ parked \in [Req -> BOOLEAN]
    /\ table \in [Corr -> Req \cup {None}]
    /\ queue \in Seq(Req)
    /\ batch \in Seq(Req)
    /\ written \subseteq Req
    /\ answered \subseteq Req
    /\ frame \in Req \cup {None}
    /\ closed \in BOOLEAN
    /\ task \in [Actors -> {"idle", "recv", "write", "read", "fill", "dead"} \cup Marking]
    /\ first \in [Actors -> BOOLEAN]
    /\ shard \in [Actors -> 0..ShardCount]
    /\ held \in [Actors -> SUBSET Req]
    /\ aborted \subseteq Actors
    /\ drained \in BOOLEAN

Init ==
    /\ pc = [r \in Req |-> "idle"]
    /\ corr = [r \in Req |-> None]
    /\ slot = [r \in Req |-> "empty"]
    /\ answer = [r \in Req |-> None]
    /\ parked = [r \in Req |-> FALSE]
    /\ table = [c \in Corr |-> None]
    /\ queue = <<>> /\ batch = <<>>
    /\ written = {} /\ answered = {} /\ frame = None
    /\ closed = FALSE
    /\ task = [a \in Actors |-> IF a = "writer" THEN "recv"
                               ELSE IF a = "reader" THEN "read" ELSE "idle"]
    /\ first = [a \in Actors |-> FALSE]
    /\ shard = [a \in Actors |-> 0]
    /\ held = [a \in Actors |-> {}]
    /\ aborted = {}
    /\ drained = FALSE

Elems(s) == {s[i] : i \in 1..Len(s)}

----------------------------------------------------------------------------
(* InFlightSlot *)

\* Faulty variant of Fill: the result is stored and the caller is not woken.
FillKeepsWaker(r, v) ==
    /\ slot' = [slot EXCEPT ![r] = IF @ = "empty" THEN v ELSE @]
    /\ UNCHANGED parked

\* The first result stays; storing it takes the waker out and wakes the caller.
Fill(r, v) ==
    /\ slot' = [slot EXCEPT ![r] = IF @ = "empty" THEN v ELSE @]
    /\ parked' = [parked EXCEPT ![r] = IF slot[r] = "empty" THEN FALSE ELSE @]

Remove(c) == table' = [table EXCEPT ![c] = None]

----------------------------------------------------------------------------
(* Channel::request *)

\* A fresh correlation id, or a retry under the id of a call that failed.
MayUse(c) == \A q \in Req : corr[q] = c => pc[q] \in {"err", "refused"}

\* is_available is read once, before the slot goes into the table.
Request(r, c) ==
    /\ pc[r] = "idle"
    /\ MayUse(c)
    /\ corr' = [corr EXCEPT ![r] = c]
    /\ pc' = [pc EXCEPT ![r] = IF closed THEN "refused" ELSE "insert"]
    /\ UNCHANGED <<slot, answer, parked, table, wireVars, markVars>>

Insert(r) ==
    /\ pc[r] = "insert"
    /\ table' = [table EXCEPT ![corr[r]] = r]
    /\ pc' = [pc EXCEPT ![r] = "send"]
    /\ UNCHANGED <<corr, slot, answer, parked, wireVars, markVars>>

\* writer_tx.send fails once the writer pump has dropped its receiver.
Send(r) ==
    /\ pc[r] = "send"
    /\ \/ /\ task["writer"] # "dead"
          /\ queue' = Append(queue, r)
          /\ pc' = [pc EXCEPT ![r] = "wait"]
       \/ /\ task["writer"] = "dead"
          /\ pc' = [pc EXCEPT ![r] = "unsent"]
          /\ UNCHANGED queue
    /\ UNCHANGED <<corr, slot, answer, parked, table, batch, written, answered,
                   frame, markVars>>

\* Faulty variant of TakeResult: a slot failed by a drain is taken for a reply.
TakeResultIgnoresLoss(r) ==
    /\ slot[r] \in {"ok", "lost"}
    /\ slot' = [slot EXCEPT ![r] = "taken"]
    /\ pc' = [pc EXCEPT ![r] = "ok"]
    /\ UNCHANGED parked

\* A poll that finds the slot done takes the result: a response whose id is not
\* the caller's is an error that leaves the table alone.
TakeResult(r) ==
    /\ slot[r] \in {"ok", "lost"}
    /\ slot' = [slot EXCEPT ![r] = "taken"]
    /\ pc' = [pc EXCEPT ![r] = IF slot[r] = "lost" THEN "cleanup"
                               ELSE IF corr[answer[r]] = corr[r] THEN "ok" ELSE "err"]
    /\ UNCHANGED parked

\* WaitFuture::poll
Poll(r) ==
    /\ pc[r] = "wait"
    /\ ~parked[r]
    /\ \/ TakeResult(r)
       \/ /\ slot[r] = "empty"
          /\ parked' = [parked EXCEPT ![r] = TRUE]
          /\ UNCHANGED <<pc, slot>>
    /\ UNCHANGED <<corr, answer, table, wireVars, markVars>>

\* Faulty variant of TimerFires: the deadline is never armed.
TimerIgnored(r) == FALSE /\ UNCHANGED vars

\* tokio's timeout polls the slot once more before it reports the deadline.
TimerFires(r) ==
    /\ Timeouts
    /\ pc[r] = "wait"
    /\ \/ TakeResult(r)
       \/ /\ slot[r] = "empty"
          /\ pc' = [pc EXCEPT ![r] = "cleanup"]
          /\ UNCHANGED <<slot, parked>>
    /\ UNCHANGED <<corr, answer, table, wireVars, markVars>>

\* Faulty variant of Cleanup: the slot stays in the table.
CleanupSkipsTable(r) ==
    /\ pc[r] \in {"unsent", "cleanup"}
    /\ pc' = [pc EXCEPT ![r] = IF @ = "unsent" THEN "refused" ELSE "err"]
    /\ UNCHANGED <<corr, slot, answer, parked, table, wireVars, markVars>>

\* Both error paths remove whatever slot is filed under the id.
Cleanup(r) ==
    /\ pc[r] \in {"unsent", "cleanup"}
    /\ Remove(corr[r])
    /\ pc' = [pc EXCEPT ![r] = IF @ = "unsent" THEN "refused" ELSE "err"]
    /\ UNCHANGED <<corr, slot, answer, parked, wireVars, markVars>>

\* The caller's future is dropped: nothing takes its slot out of the table.
Cancel(r) ==
    /\ pc[r] = "wait"
    /\ pc' = [pc EXCEPT ![r] = "cancelled"]
    /\ UNCHANGED <<corr, slot, answer, parked, table, wireVars, markVars>>

----------------------------------------------------------------------------
(* mark_broken begins with closed.swap, in the step that called it *)
MarkBroken(a) ==
    /\ first' = [first EXCEPT ![a] = ~closed]
    /\ closed' = TRUE
    /\ task' = [task EXCEPT ![a] = "lock"]

----------------------------------------------------------------------------
(* attach_writer_pump *)

\* recv, then try_recv until the queue is empty.
WriterRecv ==
    /\ task["writer"] = "recv"
    /\ queue # <<>>
    /\ batch' = queue
    /\ queue' = <<>>
    /\ task' = [task EXCEPT !["writer"] = "write"]
    /\ UNCHANGED <<callVars, table, written, answered, frame, closed, first, shard,
                   held, aborted, drained>>

WriteOk ==
    /\ task["writer"] = "write"
    /\ written' = written \cup Elems(batch)
    /\ batch' = <<>>
    /\ task' = [task EXCEPT !["writer"] = "recv"]
    /\ UNCHANGED <<callVars, table, queue, answered, frame, closed, first, shard,
                   held, aborted, drained>>

\* The write fails or times out after the server got the first n frames.
WriteFails(n) ==
    /\ task["writer"] = "write"
    /\ written' = written \cup Elems(SubSeq(batch, 1, n))
    /\ batch' = <<>>
    /\ MarkBroken("writer")
    /\ UNCHANGED <<callVars, table, queue, answered, frame, shard, held, aborted,
                   drained>>

----------------------------------------------------------------------------
(* attach_response_pump *)

\* Faulty variant of ReadResponse: the slot is looked up, not taken out.
ReadResponseKeepsSlot(q) ==
    /\ task["reader"] = "read"
    /\ q \in written \ answered
    /\ answered' = answered \cup {q}
    /\ LET c == corr[q]
       IN IF table[c] = None
          THEN UNCHANGED <<held, frame, task>>
          ELSE /\ held' = [held EXCEPT !["reader"] = {table[c]}]
               /\ frame' = q
               /\ task' = [task EXCEPT !["reader"] = "fill"]
    /\ UNCHANGED <<callVars, table, queue, batch, written, closed, first, shard,
                   aborted, drained>>

\* The response to q arrives; its slot, if there is one, leaves the table.
ReadResponse(q) ==
    /\ task["reader"] = "read"
    /\ q \in written \ answered
    /\ answered' = answered \cup {q}
    /\ LET c == corr[q]
       IN IF table[c] = None
          THEN UNCHANGED <<table, held, frame, task>>
          ELSE /\ held' = [held EXCEPT !["reader"] = {table[c]}]
               /\ frame' = q
               /\ Remove(c)
               /\ task' = [task EXCEPT !["reader"] = "fill"]
    /\ UNCHANGED <<callVars, queue, batch, written, closed, first, shard, aborted,
                   drained>>

FillResponse ==
    /\ task["reader"] = "fill"
    /\ \E r \in held["reader"] :
          /\ Fill(r, "ok")
          /\ answer' = [answer EXCEPT ![r] = frame]
    /\ held' = [held EXCEPT !["reader"] = {}]
    /\ frame' = None
    /\ task' = [task EXCEPT !["reader"] = "read"]
    /\ UNCHANGED <<pc, corr, table, queue, batch, written, answered, closed, first,
                   shard, aborted, drained>>

ReadFails ==
    /\ task["reader"] = "read"
    /\ MarkBroken("reader")
    /\ UNCHANGED <<callVars, table, wireVars, shard, held, aborted, drained>>

----------------------------------------------------------------------------
(* The rest of mark_broken, run by either pump or by a closer *)

Close(a) ==
    /\ a \in Closers
    /\ task[a] = "idle"
    /\ MarkBroken(a)
    /\ UNCHANGED <<callVars, table, wireVars, shard, held, aborted, drained>>

AbortedBy(a) ==
    CASE a = "writer" -> {"reader"}
      [] a = "reader" -> {"writer"}
      [] OTHER -> {"writer", "reader"}

\* After mark_broken: abort the other pump (a closer: both), then end.
Finish(a) ==
    /\ aborted' = aborted \cup AbortedBy(a)
    /\ task' = [task EXCEPT ![a] = "dead"]
    /\ queue' = IF a = "writer" THEN <<>> ELSE queue

\* Store last_error; only the call that set closed goes on to drain.
MarkRecord(a) ==
    /\ task[a] = "lock"
    /\ \/ /\ first[a]
          /\ task' = [task EXCEPT ![a] = "drain"]
          /\ UNCHANGED <<queue, aborted>>
       \/ /\ ~first[a]
          /\ Finish(a)
    /\ UNCHANGED <<callVars, table, batch, written, answered, frame, closed, first,
                   shard, held, drained>>

InShard(c, k) == c % ShardCount = k

\* mem::take of one shard, under its lock.
TakeShard(a) ==
    /\ task[a] = "drain"
    /\ held[a] = {}
    /\ shard[a] < ShardCount
    /\ held' = [held EXCEPT ![a] = {r \in Req : \E c \in Corr :
                                      InShard(c, shard[a]) /\ table[c] = r}]
    /\ table' = [c \in Corr |-> IF InShard(c, shard[a]) THEN None ELSE table[c]]
    /\ shard' = [shard EXCEPT ![a] = @ + 1]
    /\ UNCHANGED <<callVars, wireVars, closed, task, first, aborted, drained>>

FillLost(a, r) ==
    /\ task[a] = "drain"
    /\ r \in held[a]
    /\ Fill(r, "lost")
    /\ held' = [held EXCEPT ![a] = @ \ {r}]
    /\ UNCHANGED <<pc, corr, answer, table, wireVars, closed, task, first, shard,
                   aborted, drained>>

DrainEnd(a) ==
    /\ task[a] = "drain"
    /\ held[a] = {}
    /\ shard[a] = ShardCount
    /\ drained' = TRUE
    /\ task' = [task EXCEPT ![a] = "notify"]
    /\ UNCHANGED <<callVars, table, wireVars, closed, first, shard, held, aborted>>

\* The listeners' locks are awaited here; what they guard is in Notifications.
MarkNotify(a) ==
    /\ task[a] = "notify"
    /\ Finish(a)
    /\ UNCHANGED <<callVars, table, batch, written, answered, frame, closed, first,
                   shard, held, drained>>

\* An aborted pump, or a closer whose future is dropped, stops at an await.  What
\* the writer was writing may have reached the server in part.
Stop(a, n) ==
    /\ a \in aborted \cup Closers
    /\ task[a] \in Awaits
    /\ task' = [task EXCEPT ![a] = "dead"]
    /\ IF a = "writer"
       THEN /\ written' = written \cup Elems(SubSeq(batch, 1, n))
            /\ queue' = <<>>
            /\ batch' = <<>>
       ELSE UNCHANGED <<written, queue, batch>>
    /\ UNCHANGED <<callVars, table, answered, frame, closed, first, shard, held,
                   aborted, drained>>

----------------------------------------------------------------------------
CallStep(r) == Insert(r) \/ Send(r) \/ Poll(r) \/ TimerFires(r) \/ Cleanup(r)

WriterStep == WriterRecv \/ WriteOk \/ \E n \in 0..Len(batch) : WriteFails(n)

MarkStep(a) ==
    \/ MarkRecord(a) \/ TakeShard(a) \/ (\E r \in Req : FillLost(a, r))
    \/ DrainEnd(a) \/ MarkNotify(a)

Next ==
    \/ \E r \in Req, c \in Corr : Request(r, c)
    \/ \E r \in Req : CallStep(r) \/ Cancel(r)
    \/ WriterStep
    \/ \E q \in Req : ReadResponse(q)
    \/ FillResponse
    \/ ReadFails
    \/ \E a \in Actors : Close(a) \/ MarkStep(a) \/ \E n \in 0..Len(batch) : Stop(a, n)

Spec == Init /\ [][Next]_vars

\* A spawned task and a polled future keep running; nothing obliges the server to
\* answer, the network to fail, or anybody to close the channel.
Fairness ==
    /\ \A r \in Req : WF_vars(CallStep(r))
    /\ WF_vars(WriterStep)
    /\ WF_vars(FillResponse)
    /\ \A a \in Actors : WF_vars(MarkStep(a))

FairSpec == Spec /\ Fairness
----------------------------------------------------------------------------
(* Properties *)

InTable == {r \in Req : \E c \in Corr : table[c] = r}

\* InFlightSlot::fill never meets a slot that is already done: whoever may still
\* fill a slot (the table, on behalf of the next response or drain, or the task
\* that took it out) is alone in owning it, and the slot is empty.
FilledExactlyOnce ==
    /\ \A r \in Req :
          (r \in InTable \/ \E a \in Actors : r \in held[a]) => slot[r] = "empty"
    /\ \A a \in Actors :
          /\ held[a] \cap InTable = {}
          /\ \A b \in Actors \ {a} : held[a] \cap held[b] = {}

\* WaitFuture::poll and fill share one mutex: no caller sleeps on a slot that has
\* its result, whatever the order of poll, fill and timer.
NoLostWakeup == \A r \in Req : pc[r] = "wait" /\ parked[r] => slot[r] = "empty"

\* The in-flight table holds a slot only under the id of its own call, and only
\* while that call can still use it; a dropped future is the one exception, which
\* leaves its slot behind until the response arrives or the channel breaks.
NoOrphanSlot ==
    \A c \in Corr : table[c] # None =>
        /\ corr[table[c]] = c
        /\ pc[table[c]] \in {"send", "wait", "unsent", "cleanup", "cancelled"}

\* The channel keeps the promise of Call: one frame per call, a reply only to an
\* id the server received, and a refused call is one the server never sees.
CallStatus ==
    [r \in Req |-> CASE pc[r] = "idle" -> "idle"
                     [] pc[r] = "ok" -> "ok"
                     [] pc[r] = "err" -> "failed"
                     [] pc[r] = "refused" -> "refused"
                     [] pc[r] = "cancelled" -> "abandoned"
                     [] OTHER -> "open"]

Abstract == INSTANCE Call WITH status <- CallStatus, key <- corr, sent <- written

ImplementsCall == Abstract!Spec

\* With a request timeout every call ends, whatever the server, the pumps and the
\* closers do.
EveryCallEnds == \A r \in Req : pc[r] \in Active ~> pc[r] \notin Active

\* "`mark_broken` drains all slots on failure" (request): once a drain has been
\* through the shards and no task of the channel runs any more, nobody is left
\* waiting for a slot that no one will fill.
DrainLeavesNoWaiter ==
    drained /\ (\A a \in Actors : task[a] \in {"idle", "dead"})
        => \A r \in Req : pc[r] = "wait" => slot[r] # "empty"
============================================================================
