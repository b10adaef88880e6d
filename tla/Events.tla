------------------------------- MODULE Events -------------------------------
(* The event bus (events.rs): what the client emits about itself goes into a  *)
(* bounded history and to a broadcast channel, in two steps; a subscriber     *)
(* takes a copy of the history and joins the channel, in two steps.  One      *)
(* subscriber; emissions of a kind that is switched off do nothing.           *)
EXTENDS Integers, Sequences

CONSTANTS Emitters,   \* tasks that emit events
          EachEmits,  \* bound: events of one task
          Capacity    \* EVENT_HISTORY_LIMIT, and of the broadcast channels

ASSUME EventsAssumption == EachEmits \in Nat /\ Capacity \in Nat \ {0}

VARIABLES history,    \* EventBus.history
          count,      \* events each task has begun to emit
          unsent,     \* events recorded and not yet sent
          sub,        \* the subscription: its stage and its copy of the history
          upstream,   \* what the bus's channel holds for it
          own,        \* what the channel of its own holds for it
          got,        \* what it has received
          lagged,     \* a channel has dropped an event that it had not read
          before,     \* history: events emitted when it began
          after       \* history: events whose emission began when it had joined

evVars == <<history, count, unsent, sub, upstream, own, got, lagged, before, after>>

EvInit ==
  /\ history = <<>> /\ count = [e \in Emitters |-> 0] /\ unsent = {}
  /\ sub = [at |-> "none", copy |-> <<>>]
  /\ upstream = <<>> /\ own = <<>> /\ got = <<>>
  /\ lagged = FALSE
  /\ before = {} /\ after = {}

(* What a broadcast channel keeps of s for a receiver that has not read it.   *)
Newest(s) == IF Len(s) > Capacity THEN SubSeq(s, Len(s) - Capacity + 1, Len(s)) ELSE s

(* Faulty variant of Recorded: the limit is compared the wrong way round.     *)
RecordedOneMore(s, x) == Append(IF Len(s) > Capacity THEN Tail(s) ELSE s, x)

(* record: the oldest event makes room.                                       *)
Recorded(s, x) == Append(IF Len(s) = Capacity THEN Tail(s) ELSE s, x)

(* emit_connection, emit_request and emit_lifecycle record the event ...      *)
RecordEvent(e) ==
  /\ count[e] < EachEmits
  /\ \A x \in unsent : x[1] # e
  /\ count' = [count EXCEPT ![e] = @ + 1]
  /\ LET x == <<e, count[e] + 1>>
     IN /\ history' = Recorded(history, x)
        /\ unsent' = unsent \cup {x}
        /\ after' = IF sub.at \in {"direct", "forwarded"} THEN after \cup {x} ELSE after
  /\ UNCHANGED <<sub, upstream, own, got, lagged, before>>

(* ... and send it, to nobody when nobody has joined.                         *)
Emit(x) ==
  /\ x \in unsent
  /\ unsent' = unsent \ {x}
  /\ IF sub.at \in {"direct", "forwarded"}
     THEN /\ upstream' = Newest(Append(upstream, x))
          /\ lagged' = (lagged \/ Len(upstream) = Capacity)
     ELSE UNCHANGED <<upstream, lagged>>
  /\ UNCHANGED <<history, count, sub, own, got, before, after>>

(* subscribe: the copy of the history under its lock.                         *)
Snapshot ==
  /\ sub.at = "none"
  /\ sub' = [at |-> "copied", copy |-> history]
  /\ before' = {history[i] : i \in 1 .. Len(history)} \ unsent
  /\ UNCHANGED <<history, count, unsent, upstream, own, got, lagged, after>>

(* sender.subscribe(); a copy goes into a channel of the subscriber's own,    *)
(* and a task is spawned that forwards to it.                                 *)
JoinBus ==
  /\ sub.at = "copied"
  /\ sub' = [at |-> IF sub.copy = <<>> THEN "direct" ELSE "forwarded", copy |-> <<>>]
  /\ own' = Newest(sub.copy)
  /\ UNCHANGED <<history, count, unsent, upstream, got, lagged, before, after>>

Forward ==
  /\ sub.at = "forwarded" /\ upstream # <<>>
  /\ own' = Newest(Append(own, Head(upstream)))
  /\ lagged' = (lagged \/ Len(own) = Capacity)
  /\ upstream' = Tail(upstream)
  /\ UNCHANGED <<history, count, unsent, sub, got, before, after>>

Receive ==
  /\ \/ /\ sub.at = "direct" /\ upstream # <<>>
        /\ got' = Append(got, Head(upstream)) /\ upstream' = Tail(upstream)
        /\ UNCHANGED own
     \/ /\ sub.at = "forwarded" /\ own # <<>>
        /\ got' = Append(got, Head(own)) /\ own' = Tail(own)
        /\ UNCHANGED upstream
  /\ UNCHANGED <<history, count, unsent, sub, lagged, before, after>>

(* The receiver is dropped: the forwarder's next send fails and it ends.      *)
Unsubscribe ==
  /\ sub.at \in {"direct", "forwarded"}
  /\ sub' = [sub EXCEPT !.at = "left"]
  /\ upstream' = <<>> /\ own' = <<>>
  /\ UNCHANGED <<history, count, unsent, got, lagged, before, after>>

EvNext ==
  \/ \E e \in Emitters : RecordEvent(e)
  \/ \E x \in unsent : Emit(x)
  \/ Snapshot \/ JoinBus \/ Forward \/ Receive \/ Unsubscribe

EvSpec == EvInit /\ [][EvNext]_evVars

(* An emission that does not overlap with subscribe() is seen exactly once:   *)
(* one that ended before it out of the history, one that began after it from  *)
(* the channel, in the order in which a task emitted them, and none twice     *)
(* even when the subscriber lags.                                             *)
SeenOnce ==
  sub.at \in {"direct", "forwarded"} =>
    LET stream == got \o own \o upstream
        Places(x) == {i \in 1 .. Len(stream) : stream[i] = x}
    IN  /\ \A x \in before \cup (after \ unsent) :
             /\ \A i, j \in Places(x) : i = j
             /\ ~lagged => Places(x) # {}
        /\ \A i, j \in 1 .. Len(stream) :
             i < j /\ stream[i][1] = stream[j][1] => stream[i][2] <= stream[j][2]
==============================================================================
