-------------------------------- MODULE Tx --------------------------------
(***************************************************************************)
(* One client transaction (tx.rs): tasks that commit or roll it back, the  *)
(* cache operations run in it (cache.rs), and the rollback spawned when    *)
(* the last handle is dropped, all sharing the state mutex.  Requests are  *)
(* pinned to the address the transaction was started on; the server's side *)
(* is external: it executes requests of the connection the transaction     *)
(* belongs to, and rolls the transaction back when that connection breaks. *)
(***************************************************************************)
EXTENDS Naturals, FiniteSets

CONSTANTS
    Committer,   \* tasks that call Transaction::commit
    Rollbacker,  \* tasks that call Transaction::rollback
    CacheOp,     \* operations on caches of the transaction
    Cancels,     \* whether callers may drop their futures
    Timeouts,    \* whether request_timeout is configured
    Breaks,      \* whether the connection may break
    Outside,     \* whether the Transaction may be dropped outside the runtime
    None

Ender == Committer \cup Rollbacker
Task  == Ender \cup CacheOp \cup {"drop"}

ASSUME TxAssumption ==
    /\ Committer \cap Rollbacker = {} /\ Ender \cap CacheOp = {}
    /\ "drop" \notin Ender \cup CacheOp
    /\ None \notin Task \cup {"ok", "fail"}
    /\ Cancels \in BOOLEAN /\ Timeouts \in BOOLEAN
    /\ Breaks \in BOOLEAN /\ Outside \in BOOLEAN

VARIABLES
    state,      \* the mutex's TransactionState
    holder,     \* the task that holds the mutex across an await
    pc,         \* pc[t]: where task t is
    caches,     \* some CacheCore of the transaction is alive
    dropped,    \* the Transaction was dropped
    link,       \* the connection requests to the address go to
    wire,       \* tasks whose request is on its way to the server
    reply,      \* reply[t]: the server's answer to t
    server,     \* the transaction on the server
    done,       \* operations the server executed in the transaction
    committed,  \* those of them it committed
    ends        \* tasks whose TX_END reached the server

clientVars == <<state, holder, pc, caches, dropped>>
serverVars == <<link, wire, reply, server, done, committed, ends>>
vars == <<clientVars, serverVars>>

Ended == {"ok", "fail", "refused", "cancelled"}
InCall == {"lock", "send", "sent", "lost"}

TypeOK ==
    /\ state \in {"Active", "Committed", "RolledBack", "Lost"}
    /\ holder \in Ender \cup {"drop", None}
    /\ pc \in [Task -> {"idle"} \cup InCall \cup Ended]
    /\ caches \in BOOLEAN
    /\ dropped \in BOOLEAN
    /\ link \in {"own", "down", "other"}
    /\ wire \subseteq Task
    /\ reply \in [Task -> {None, "ok", "fail"}]
    /\ server \in {"active", "committed", "rolledback"}
    /\ done \subseteq CacheOp
    /\ committed \subseteq CacheOp
    /\ ends \subseteq Task

\* tx_start has returned.
Init ==
    /\ state = "Active"
    /\ holder = None
    /\ pc = [t \in Task |-> "idle"]
    /\ caches = FALSE
    /\ dropped = FALSE
    /\ link = "own"
    /\ wire = {}
    /\ reply = [t \in Task |-> None]
    /\ server = "active"
    /\ done = {} /\ committed = {} /\ ends = {}

----------------------------------------------------------------------------
Goto(t, l) == pc' = [pc EXCEPT ![t] = l]

\* send_with_route, pinned: an available connection of the address gets the
\* request; one that is not the transaction's own does not know its id.
Post(t) ==
    /\ wire' = IF link = "own" THEN wire \cup {t} ELSE wire
    /\ reply' = [reply EXCEPT ![t] = IF link = "other" THEN "fail" ELSE None]
    /\ UNCHANGED <<link, server, done, committed, ends>>

\* The connection breaks, or the timer fires, before the answer is there.
Unanswered == Timeouts \/ link # "own"

----------------------------------------------------------------------------
(* The server, and the connection to it *)

Closes(t) == IF t \in Committer THEN "committed" ELSE "rolledback"

ServerExecutes(t) ==
    /\ t \in wire
    /\ wire' = wire \ {t}
    /\ reply' = [reply EXCEPT ![t] = IF server = "active" THEN "ok" ELSE "fail"]
    /\ IF t \in CacheOp
       THEN /\ done' = IF server = "active" THEN done \cup {t} ELSE done
            /\ UNCHANGED <<server, committed, ends>>
       ELSE /\ ends' = ends \cup {t}
            /\ server' = IF server = "active" THEN Closes(t) ELSE server
            /\ committed' = IF server = "active" /\ t \in Committer THEN done ELSE committed
            /\ UNCHANGED done
    /\ UNCHANGED <<clientVars, link>>

LinkBreaks ==
    /\ Breaks
    /\ link # "down"
    /\ link' = "down"
    /\ wire' = {}
    /\ server' = IF server = "active" THEN "rolledback" ELSE server
    /\ UNCHANGED <<clientVars, reply, done, committed, ends>>

\* Some task reconnects to the address.
LinkReplaced ==
    /\ link = "down"
    /\ link' = "other"
    /\ UNCHANGED <<clientVars, wire, reply, server, done, committed, ends>>

----------------------------------------------------------------------------
(* Operations of a transactional cache *)

OpenCache ==
    /\ ~dropped /\ ~caches
    /\ caches' = TRUE
    /\ UNCHANGED <<state, holder, pc, dropped, serverVars>>

DropCaches ==
    /\ caches
    /\ \A o \in CacheOp : pc[o] \notin InCall
    /\ caches' = FALSE
    /\ UNCHANGED <<state, holder, pc, dropped, serverVars>>

OpBegin(o) ==
    /\ caches
    /\ pc[o] = "idle"
    /\ Goto(o, "lock")
    /\ UNCHANGED <<state, holder, caches, dropped, serverVars>>

\* ensure_cache_ops_allowed: the mutex is released before the request is sent.
TxRoute(o) ==
    /\ pc[o] = "lock"
    /\ holder = None
    /\ Goto(o, IF state = "Active" THEN "send" ELSE "refused")
    /\ UNCHANGED <<state, holder, caches, dropped, serverVars>>

\* Faulty variant of TxSend: the request is not pinned; a node that has no such
\* transaction executes it on its own.
TxSendUnpinned(o) ==
    /\ pc[o] = "send"
    /\ reply' = [reply EXCEPT ![o] = "ok"]
    /\ Goto(o, "sent")
    /\ UNCHANGED <<state, holder, caches, dropped, link, wire, server, done, committed,
                   ends>>

TxSend(o) ==
    /\ pc[o] = "send"
    /\ Post(o)
    /\ Goto(o, "sent")
    /\ UNCHANGED <<state, holder, caches, dropped>>

\* map_tx_err: a server error is returned as it is, a connection error is not.
OpResult(o) ==
    /\ pc[o] = "sent"
    /\ \/ reply[o] # None /\ Goto(o, reply[o])
       \/ Unanswered /\ Goto(o, "lost")
    /\ UNCHANGED <<state, holder, caches, dropped, serverVars>>

\* mark_lost, whatever the state has become by then.
MarkLost(o) ==
    /\ pc[o] = "lost"
    /\ holder = None
    /\ state' = "Lost"
    /\ Goto(o, "fail")
    /\ UNCHANGED <<holder, caches, dropped, serverVars>>

----------------------------------------------------------------------------
(* Transaction::commit and rollback *)

EndBegin(e) ==
    /\ ~dropped
    /\ pc[e] = "idle"
    /\ Goto(e, "lock")
    /\ UNCHANGED <<state, holder, caches, dropped, serverVars>>

\* Faulty variant of EndLock: the state is read and the mutex is let go.
EndLockReleased(e) ==
    /\ pc[e] = "lock"
    /\ holder = None
    /\ Goto(e, IF state = "Active" THEN "send" ELSE "refused")
    /\ UNCHANGED <<state, holder, caches, dropped, serverVars>>

\* end holds the mutex from here until the request has its result.
EndLock(e) ==
    /\ pc[e] = "lock"
    /\ holder = None
    /\ \/ /\ state = "Active"
          /\ holder' = e
          /\ Goto(e, "send")
       \/ /\ state # "Active"
          /\ Goto(e, "refused")
          /\ UNCHANGED holder
    /\ UNCHANGED <<state, caches, dropped, serverVars>>

EndSend(e) ==
    /\ pc[e] = "send"
    /\ Post(e)
    /\ Goto(e, "sent")
    /\ UNCHANGED <<state, holder, caches, dropped>>

\* Faulty variant of EndResult: an unanswered end leaves the mutex locked.
EndResultKeepsLock(e) ==
    /\ pc[e] = "sent"
    /\ \/ reply[e] # None /\ Goto(e, reply[e]) /\ holder' = None
       \/ Unanswered /\ Goto(e, "fail") /\ UNCHANGED holder
    /\ state' = IF e \in Committer THEN "Committed" ELSE "RolledBack"
    /\ UNCHANGED <<caches, dropped, serverVars>>

\* The transaction counts as closed even when the request failed.
EndResult(e) ==
    /\ pc[e] = "sent"
    /\ \/ reply[e] # None /\ Goto(e, reply[e])
       \/ Unanswered /\ Goto(e, "fail")
    /\ state' = IF e \in Committer THEN "Committed" ELSE "RolledBack"
    /\ holder' = None
    /\ UNCHANGED <<caches, dropped, serverVars>>

----------------------------------------------------------------------------
(* Drop for Transaction *)

\* Nobody borrows the transaction.  The rollback task is spawned only when no
\* cache of the transaction is left; outside the runtime it cannot be spawned.
DropTransaction ==
    /\ ~dropped
    /\ \A e \in Ender : pc[e] \notin InCall
    /\ dropped' = TRUE
    /\ \/ ~caches /\ Goto("drop", "lock")
       \/ (caches \/ Outside) /\ UNCHANGED pc
    /\ UNCHANGED <<state, holder, caches, serverVars>>

\* Faulty variant of DropLock: it gives up when the state is Active.
DropLockGivesUp ==
    /\ pc["drop"] = "lock"
    /\ holder = None
    /\ Goto("drop", "refused")
    /\ UNCHANGED <<state, holder, caches, dropped, serverVars>>

DropLock ==
    /\ pc["drop"] = "lock"
    /\ holder = None
    /\ \/ /\ state = "Active"
          /\ state' = "RolledBack"
          /\ holder' = "drop"
          /\ Goto("drop", "send")
       \/ /\ state # "Active"
          /\ Goto("drop", "refused")
          /\ UNCHANGED <<state, holder>>
    /\ UNCHANGED <<caches, dropped, serverVars>>

DropSend ==
    /\ pc["drop"] = "send"
    /\ Post("drop")
    /\ Goto("drop", "sent")
    /\ UNCHANGED <<state, holder, caches, dropped>>

DropResult ==
    /\ pc["drop"] = "sent"
    /\ \/ reply["drop"] # None /\ Goto("drop", reply["drop"])
       \/ Unanswered /\ Goto("drop", "fail")
    /\ holder' = None
    /\ UNCHANGED <<state, caches, dropped, serverVars>>

\* A caller drops the future of an operation or of commit or rollback: the mutex
\* is released and the state stays as it is.
Cancel(t) ==
    /\ Cancels
    /\ t # "drop"
    /\ pc[t] \in InCall
    /\ Goto(t, "cancelled")
    /\ holder' = IF holder = t THEN None ELSE holder
    /\ UNCHANGED <<state, caches, dropped, serverVars>>

----------------------------------------------------------------------------
TxStep(o)  == TxRoute(o) \/ TxSend(o) \/ OpResult(o) \/ MarkLost(o)
EndStep(e) == EndLock(e) \/ EndSend(e) \/ EndResult(e)
DropStep   == DropLock \/ DropSend \/ DropResult

Next ==
    \/ OpenCache \/ DropCaches \/ DropTransaction
    \/ \E o \in CacheOp : OpBegin(o) \/ TxStep(o)
    \/ \E e \in Ender : EndBegin(e) \/ EndStep(e)
    \/ DropStep
    \/ \E t \in Task : ServerExecutes(t) \/ Cancel(t)
    \/ LinkBreaks \/ LinkReplaced

Spec == Init /\ [][Next]_vars

\* Tasks keep running, and the mutex is a queue: a task that waits for it is
\* granted it although others keep locking it.
Fairness ==
    /\ \A o \in CacheOp : WF_vars(TxStep(o)) /\ SF_vars(TxRoute(o)) /\ SF_vars(MarkLost(o))
    /\ \A e \in Ender : WF_vars(EndStep(e)) /\ SF_vars(EndLock(e))
    /\ WF_vars(DropStep) /\ SF_vars(DropLock)

\* The server answers what reaches it.
ServerFairness == \A t \in Task : WF_vars(ServerExecutes(t))

FairSpec == Spec /\ Fairness /\ ServerFairness
----------------------------------------------------------------------------
(* Properties *)

\* Commits, rollbacks and the rollback of a drop, racing each other for the state
\* lock, send one TX_END between those of them whose futures are not dropped
\* (TransactionInner::end).
OneEndRequest == Cardinality({t \in ends : pc[t] # "cancelled"}) <= 1

\* "Hold the state lock across the whole operation so exactly one end request
\* reaches the server" (TransactionInner::end), of all futures: a commit dropped
\* after it was sent is followed by a second request.
ExactlyOneEnd == Cardinality(ends) <= 1

\* A commit that returns Ok has committed every operation that returned Ok; a
\* rollback that returns Ok has left nothing committed.
AtomicCommit ==
    /\ \A e \in Committer : pc[e] = "ok" => \A o \in CacheOp : pc[o] = "ok" => o \in committed
    /\ \A e \in Rollbacker : pc[e] = "ok" => server = "rolledback" /\ committed = {}

\* Every operation, commit, rollback and drop gets the mutex and its result.
EveryTaskEnds == \A t \in Task : pc[t] \in InCall ~> pc[t] \in Ended

\* The drop of the last handle ends an active transaction on the server, unless
\* an operation lost the connection or ran into its timeout.
LastDropRollsBack ==
    pc["drop"] = "lock" ~> server # "active" \/ link # "own" \/ state = "Lost"
============================================================================
