--------------------------- MODULE Notifications ---------------------------
(***************************************************************************)
(* Server notifications of one resource on one connection (transport.rs):  *)
(* the response pump dispatches frames that the server may send before the *)
(* client has registered its listener, while the client registers and      *)
(* removes the listener and mark_broken takes it away.  Keys do not        *)
(* interact, so one (op_code, resource_id) stands for all.                 *)
(*                                                                         *)
(* A step is what happens under one lock: the lookup and the send of       *)
(* dispatch_notification share the guard of notification_listeners, and    *)
(* the flush of register_notification_listener that of                     *)
(* pending_notifications.                                                  *)
(***************************************************************************)
EXTENDS Naturals, Sequences, Functions

CONSTANTS
    FrameCount,  \* bound: frames the server sends for the resource
    Breaks,      \* does the connection break?
    Aborts,      \* may the pump that runs mark_broken be aborted by another
                 \* task that finds the connection closed?
    Leaves,      \* does the client remove its listener?
    Lost         \* the error put in the stream of a broken connection

ASSUME NotificationsAssumption ==
    /\ FrameCount \in Nat
    /\ Breaks \in BOOLEAN /\ Aborts \in BOOLEAN /\ Leaves \in BOOLEAN
    /\ Lost \notin Nat

VARIABLES
    pump,      \* where the response pump is
    read,      \* frames the pump has read: 1..read
    client,    \* where the listener's owner is
    receiving, \* the receiver of the listener's channel is alive
    listener,  \* notification_listeners has the key
    pending,   \* pending_notifications[key]
    inbox,     \* what was put in the listener's channel
    dropped,   \* history: frames removed or cleared with pending
    closed,    \* Channel::closed
    breaker    \* where mark_broken is

vars == <<pump, read, client, receiving, listener, pending, inbox, dropped,
          closed, breaker>>

Frame == 1..FrameCount

TypeOK ==
    /\ pump \in {"read", "lookup", "push", "stopped"}
    /\ read \in 0..FrameCount
    /\ client \in {"idle", "insert", "flush", "listening", "refused",
                   "remove", "purge", "gone"}
    /\ receiving \in BOOLEAN /\ listener \in BOOLEAN
    /\ pending \in Seq(Frame)
    /\ inbox \in Seq(Frame \cup {Lost})
    /\ dropped \subseteq Frame
    /\ closed \in BOOLEAN
    /\ breaker \in {"idle", "take", "clear", "tell", "clear_none", "done", "aborted"}

Init ==
    /\ pump = "read" /\ read = 0
    /\ client = "idle" /\ receiving = FALSE
    /\ listener = FALSE
    /\ pending = <<>> /\ inbox = <<>> /\ dropped = {}
    /\ closed = FALSE /\ breaker = "idle"

-----------------------------------------------------------------------------
(* The response pump                                                       *)

ReadNotification ==
    /\ pump = "read" /\ read < FrameCount
    /\ read' = read + 1
    /\ pump' = "lookup"
    /\ UNCHANGED <<client, receiving, listener, pending, inbox, dropped,
                   closed, breaker>>

\* send fails, and the frame is kept, when the receiver has been dropped.
DispatchLookup ==
    /\ pump = "lookup"
    /\ \/ /\ listener /\ receiving
          /\ inbox' = Append(inbox, read)
          /\ pump' = "read"
       \/ /\ ~(listener /\ receiving)
          /\ pump' = "push"
          /\ UNCHANGED inbox
    /\ UNCHANGED <<read, client, receiving, listener, pending, dropped,
                   closed, breaker>>

DispatchPush ==
    /\ pump = "push"
    /\ pending' = Append(pending, read)
    /\ pump' = "read"
    /\ UNCHANGED <<read, client, receiving, listener, inbox, dropped, closed,
                   breaker>>

-----------------------------------------------------------------------------
(* The owner of the listener: a compute task or a continuous query         *)

RegisterCheck ==
    /\ client = "idle"
    /\ client' = IF closed THEN "refused" ELSE "insert"
    /\ UNCHANGED <<pump, read, receiving, listener, pending, inbox, dropped,
                   closed, breaker>>

RegisterInsert ==
    /\ client = "insert"
    /\ listener' = TRUE /\ receiving' = TRUE
    /\ client' = "flush"
    /\ UNCHANGED <<pump, read, pending, inbox, dropped, closed, breaker>>

\* Faulty variant of RegisterFlush: the frames are read but not removed.
RegisterFlushCopies ==
    /\ client = "flush"
    /\ inbox' = inbox \o pending
    /\ client' = "listening"
    /\ UNCHANGED <<pump, read, receiving, listener, pending, dropped, closed,
                   breaker>>

\* Faulty variant of RegisterFlush: frames that came early are left behind.
RegisterFlushSkipped ==
    /\ client = "flush"
    /\ client' = "listening"
    /\ UNCHANGED <<pump, read, receiving, listener, pending, inbox, dropped,
                   closed, breaker>>

RegisterFlush ==
    /\ client = "flush"
    /\ inbox' = inbox \o pending
    /\ pending' = <<>>
    /\ client' = "listening"
    /\ UNCHANGED <<pump, read, receiving, listener, dropped, closed, breaker>>

\* The future that registers is dropped: the listener stays in the table,
\* without its receiver.
CancelRegister ==
    /\ Leaves /\ client \in {"insert", "flush"}
    /\ client' = "refused"
    /\ receiving' = FALSE
    /\ UNCHANGED <<pump, read, listener, pending, inbox, dropped, closed,
                   breaker>>

\* wait returns, cancel or close is called, or the handle is dropped; the
\* receiver may go before the spawned removal runs.
Leave ==
    /\ Leaves /\ client = "listening"
    /\ client' = "remove"
    /\ receiving' \in BOOLEAN
    /\ UNCHANGED <<pump, read, listener, pending, inbox, dropped, closed,
                   breaker>>

\* Faulty variant of RemoveListener: only the buffered frames are removed.
RemoveListenerKeeps ==
    /\ client = "remove"
    /\ client' = "purge"
    /\ UNCHANGED <<pump, read, receiving, listener, pending, inbox, dropped,
                   closed, breaker>>

RemoveListener ==
    /\ client = "remove"
    /\ listener' = FALSE
    /\ client' = "purge"
    /\ UNCHANGED <<pump, read, receiving, pending, inbox, dropped, closed,
                   breaker>>

RemovePending ==
    /\ client = "purge"
    /\ dropped' = dropped \cup Range(pending)
    /\ pending' = <<>>
    /\ client' = "gone"
    /\ UNCHANGED <<pump, read, receiving, listener, inbox, closed, breaker>>

-----------------------------------------------------------------------------
(* mark_broken, called by a pump that failed or by close                   *)

\* The response pump breaks off its own loop; otherwise it goes on until
\* it is aborted.
MarkBroken(byPump) ==
    /\ Breaks /\ breaker = "idle"
    /\ byPump => pump = "read"
    /\ closed' = TRUE
    /\ breaker' = "take"
    /\ pump' = IF byPump THEN "stopped" ELSE pump
    /\ UNCHANGED <<read, client, receiving, listener, pending, inbox, dropped>>

TakeListeners ==
    /\ breaker = "take"
    /\ breaker' = IF listener THEN "clear" ELSE "clear_none"
    /\ listener' = FALSE
    /\ UNCHANGED <<pump, read, client, receiving, pending, inbox, dropped,
                   closed>>

ClearPending ==
    /\ breaker \in {"clear", "clear_none"}
    /\ dropped' = dropped \cup Range(pending)
    /\ pending' = <<>>
    /\ breaker' = IF breaker = "clear" THEN "tell" ELSE "done"
    /\ UNCHANGED <<pump, read, client, receiving, listener, inbox, closed>>

\* Faulty variant of TellListener: the listeners taken are only dropped.
TellListenerSkipped ==
    /\ breaker = "tell"
    /\ breaker' = "done"
    /\ UNCHANGED <<pump, read, client, receiving, listener, pending, inbox,
                   dropped, closed>>

TellListener ==
    /\ breaker = "tell"
    /\ inbox' = IF receiving THEN Append(inbox, Lost) ELSE inbox
    /\ breaker' = "done"
    /\ UNCHANGED <<pump, read, client, receiving, listener, pending, dropped,
                   closed>>

\* A second mark_broken returns early and its caller aborts the pump that is
\* still in the first, at the await of a lock.
AbortBreaker ==
    /\ Aborts /\ breaker \in {"take", "clear", "clear_none"}
    /\ breaker' = "aborted"
    /\ UNCHANGED <<pump, read, client, receiving, listener, pending, inbox,
                   dropped, closed>>

\* abort_response_pump: the pump stops at the await it is in.
AbortPump ==
    /\ breaker \in {"done", "aborted"} /\ pump # "stopped"
    /\ pump' = "stopped"
    /\ dropped' = IF pump = "read" THEN dropped ELSE dropped \cup {read}
    /\ UNCHANGED <<read, client, receiving, listener, pending, inbox, closed,
                   breaker>>

Pump == ReadNotification \/ DispatchLookup \/ DispatchPush

Register == RegisterCheck \/ RegisterInsert \/ RegisterFlush

Unregister == RemoveListener \/ RemovePending

BreakDown == TakeListeners \/ ClearPending \/ TellListener \/ AbortPump

Next ==
    \/ Pump \/ Register \/ CancelRegister \/ Leave \/ Unregister
    \/ \E byPump \in BOOLEAN : MarkBroken(byPump)
    \/ BreakDown \/ AbortBreaker

Spec == Init /\ [][Next]_vars

\* Every task that has started is polled again; the server need not send and
\* the connection need not break.
Fairness ==
    /\ WF_vars(DispatchLookup) /\ WF_vars(DispatchPush)
    /\ WF_vars(Register) /\ WF_vars(Unregister) /\ WF_vars(BreakDown)

FairSpec == Spec /\ Fairness

-----------------------------------------------------------------------------
(* Properties                                                              *)

\* In how many places frame f is.
Places(f) ==
    LET in(s) == {i \in DOMAIN s : s[i] = f}
    IN  {<<"inbox", i>> : i \in in(inbox)}
        \cup {<<"pending", i>> : i \in in(pending)}
        \cup {<<"dropped", 0>> : x \in dropped \cap {f}}
        \cup {<<"pump", 0>> : x \in {y \in {f} : y = read
                                        /\ pump \in {"lookup", "push"}}}

\* Dispatch, registration, removal and mark_broken, in any order of their
\* locks, neither lose nor duplicate a frame: each frame read is in exactly
\* one place, the listener's channel, the pending buffer, the hands of the
\* pump, or among those removed with the resource.
FrameInOnePlace ==
    \A f \in 1..read : \E p \in Places(f) : Places(f) = {p}

\* After remove_notification_listener has removed the listener, no frame
\* enters its channel any more, whatever dispatch or registration was at.
NothingAfterRemoval ==
    [][(client = "purge" \/ client = "gone") =>
         Range(inbox') \cap Frame = Range(inbox) \cap Frame]_vars

\* A frame buffered before the listener is inserted reaches it, which is what
\* pending_notifications is for, unless the connection breaks or the
\* registration is dropped.
EarlyFrameDelivered ==
    \A f \in Frame :
        (client = "insert" /\ f \in Range(pending))
            ~> (f \in Range(inbox) \/ closed \/ client = "refused")

\* A listener that mark_broken finds in the table gets the error, even when its
\* registration is not finished, unless its owner has left or the task that
\* runs mark_broken is aborted.
TakenListenerTold ==
    (breaker = "clear")
        ~> (Lost \in Range(inbox) \/ ~receiving \/ breaker = "aborted")

\* What compute_task_protocol_test.rs expects of ComputeTask::wait: the
\* result that the server sent for the task reaches the listener registered
\* for it.  Dispatch may miss the listener, and register flush the buffer,
\* before dispatch puts the frame there.
ResultReachesListener ==
    \A f \in Frame : (f <= read /\ client = "listening") ~> (f \in Range(inbox))
=============================================================================
