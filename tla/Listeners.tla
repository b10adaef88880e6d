------------------------------ MODULE Listeners ------------------------------
(* Named cache entry listeners (CacheListenerRegistry and                     *)
(* RegisteredCacheEntryListener of query/continuous.rs, and                   *)
(* register_cache_entry_listener of cache.rs): the entries one name of one    *)
(* cache goes through in the registry, and for each listener ever registered  *)
(* under it the handle the caller holds, the spawned task that forwards       *)
(* events, and the continuous query on the server.                            *)
(*                                                                            *)
(* The registry maps the name to the sending half of a listener's close       *)
(* channel.  Whoever removes the entry owns that half: it sends a close       *)
(* message, or drops it, which the listener's task also notices.              *)
EXTENDS Integers

CONSTANTS MaxListeners  \* registrations attempted in a behaviour

ASSUME ListenersAssumption == MaxListeners \in Nat

Listener == 1..MaxListeners
Nobody == 0

VARIABLES holder,   \* whose close channel is registered under the name
          caller,   \* "new", "opening", "live", "closed", or "gone": no handle
          told,     \* a close message waits in the listener's channel
          task,     \* "none", "loop", "closing", "finish", "done"
          query,    \* the server's query: "none", "open", or "closed": gone with
                    \* its connection, or its close was sent (Handles has the rest)
          frames,   \* "open": frames come; "failed": an error is queued; "ended"
          asked     \* the name was deregistered by name while this one held it

lsVars == <<holder, caller, told, task, query, frames, asked>>

LsInit ==
  /\ holder = Nobody
  /\ caller = [i \in Listener |-> "new"]
  /\ told = [i \in Listener |-> FALSE]
  /\ task = [i \in Listener |-> "none"]
  /\ query = [i \in Listener |-> "none"]
  /\ frames = [i \in Listener |-> "open"]
  /\ asked = [i \in Listener |-> FALSE]

(* CacheListenerRegistry::register; a taken name is an error.                 *)
RegisterName(i) ==
  /\ caller[i] = "new"
  /\ \A j \in 1..i - 1 : caller[j] # "new"
  /\ IF holder = Nobody
     THEN holder' = i /\ caller' = [caller EXCEPT ![i] = "opening"]
     ELSE caller' = [caller EXCEPT ![i] = "gone"] /\ UNCHANGED holder
  /\ UNCHANGED <<told, task, query, frames, asked>>

(* The continuous query is open: the task is spawned and the caller has its   *)
(* handle.                                                                    *)
OpenListener(i) ==
  /\ caller[i] = "opening"
  /\ caller' = [caller EXCEPT ![i] = "live"]
  /\ task' = [task EXCEPT ![i] = "loop"]
  /\ query' = [query EXCEPT ![i] = "open"]
  /\ UNCHANGED <<holder, told, frames, asked>>

(* It could not be opened: the name is removed, whoever holds it by now.      *)
OpenFails(i) ==
  /\ caller[i] = "opening"
  /\ caller' = [caller EXCEPT ![i] = "gone"]
  /\ holder' = Nobody
  /\ UNCHANGED <<told, task, query, frames, asked>>

(* The caller drops the future while the query is being opened: no handle and *)
(* no task, the name stays registered, and the server may have the query.     *)
OpenDropped(i) ==
  /\ caller[i] = "opening"
  /\ caller' = [caller EXCEPT ![i] = "gone"]
  /\ query' \in {query, [query EXCEPT ![i] = "open"]}
  /\ UNCHANGED <<holder, told, task, frames, asked>>

(* deregister, then a close message to the listener whose entry it was.       *)
TakeAndTell ==
  /\ told' = IF holder = Nobody THEN told ELSE [told EXCEPT ![holder] = TRUE]
  /\ holder' = Nobody

(* close or Drop of the handle.                                               *)
CloseHandle(i) ==
  /\ caller[i] = "live"
  /\ caller' = [caller EXCEPT ![i] = "closed"]
  /\ TakeAndTell
  /\ UNCHANGED <<task, query, frames, asked>>

(* deregister_cache_entry_listener.                                           *)
DeregisterByName ==
  /\ holder # Nobody
  /\ TakeAndTell
  /\ asked' = [asked EXCEPT ![holder] = TRUE]
  /\ UNCHANGED <<caller, task, query, frames>>

(* The connection is lost: its notification listeners get an error and the    *)
(* query is gone on the server.                                               *)
LoseConnection(i) ==
  /\ query[i] = "open" /\ frames[i] = "open"
  /\ frames' = [frames EXCEPT ![i] = "failed"]
  /\ query' = [query EXCEPT ![i] = "closed"]
  /\ UNCHANGED <<holder, caller, told, task, asked>>

(* close_rx.recv() is ready: a message, or every sender is gone.              *)
TaskTold(i) ==
  /\ task[i] = "loop"
  /\ told[i] \/ holder # i
  /\ task' = [task EXCEPT ![i] = IF told[i] THEN "closing" ELSE "finish"]
  /\ UNCHANGED <<holder, caller, told, query, frames, asked>>

(* next_batch failed: the error goes to the handle and the cursor is closed;  *)
(* or it returned None.                                                       *)
TaskFrames(i) ==
  /\ task[i] = "loop"
  /\ frames[i] # "open"
  /\ task' = [task EXCEPT ![i] = IF frames[i] = "failed" THEN "closing" ELSE "finish"]
  /\ UNCHANGED <<holder, caller, told, query, frames, asked>>

(* An event arrives after the handle is gone: the cursor is closed, which     *)
(* ends its frames even if it fails, but only the loop over the batch is left. *)
TaskForward(i) ==
  /\ task[i] = "loop"
  /\ frames[i] = "open" /\ caller[i] = "closed"
  /\ frames' = [frames EXCEPT ![i] = "ended"]
  /\ query' \in {query, [query EXCEPT ![i] = "closed"]}
  /\ UNCHANGED <<holder, caller, told, task, asked>>

(* cursor.close() of a task on its way out; it may fail.                      *)
TaskCloses(i) ==
  /\ task[i] = "closing"
  /\ task' = [task EXCEPT ![i] = "finish"]
  /\ frames' = [frames EXCEPT ![i] = "ended"]
  /\ query' \in {query, [query EXCEPT ![i] = "closed"]}
  /\ UNCHANGED <<holder, caller, told, asked>>

(* Faulty variant of TaskFinish: the name is left registered.                 *)
TaskFinishKeepsName(i) ==
  /\ task[i] = "finish"
  /\ task' = [task EXCEPT ![i] = "done"]
  /\ UNCHANGED <<holder, caller, told, query, frames, asked>>

(* The task removes the name, whoever holds it by now, and drops its cursor.  *)
TaskFinish(i) ==
  /\ task[i] = "finish"
  /\ task' = [task EXCEPT ![i] = "done"]
  /\ holder' = Nobody
  /\ UNCHANGED <<caller, told, query, frames, asked>>

(* Faulty variant of CursorDropped: only a cursor told to close is closed.    *)
CursorDroppedIfTold(i) ==
  /\ task[i] = "done" /\ query[i] = "open" /\ told[i]
  /\ query' = [query EXCEPT ![i] = "closed"]
  /\ UNCHANGED <<holder, caller, told, task, frames, asked>>

(* The request that the cursor's Drop spawned when it was not closed.         *)
CursorDropped(i) ==
  /\ task[i] = "done" /\ query[i] = "open"
  /\ query' = [query EXCEPT ![i] = "closed"]
  /\ UNCHANGED <<holder, caller, told, task, frames, asked>>

ListenerTask(i) ==
  TaskTold(i) \/ TaskFrames(i) \/ TaskCloses(i) \/ TaskFinish(i) \/ CursorDropped(i)

LsNext ==
  \/ \E i \in Listener :
       \/ RegisterName(i) \/ OpenListener(i) \/ OpenFails(i) \/ OpenDropped(i)
       \/ CloseHandle(i) \/ LoseConnection(i) \/ TaskForward(i)
       \/ ListenerTask(i)
  \/ DeregisterByName

(* The runtime polls a spawned task that is ready.                            *)
LsFairness == \A i \in Listener : WF_lsVars(ListenerTask(i))

LsSpec == LsInit /\ [][LsNext]_lsVars /\ LsFairness

(* Who holds the name of a listener that had been opened has a task that will *)
(* act on a close message: a name never stays taken by a listener that ended. *)
HolderIsServed ==
  holder # Nobody /\ caller[holder] \in {"live", "closed"}
    => task[holder] \in {"loop", "closing", "finish"} /\ ~told[holder]

(* A listener that was closed, dropped or deregistered leaves no query on the *)
(* server: whichever way its close channel ended, its task ends and the       *)
(* cursor is closed.                                                          *)
ClosedListenerStops ==
  \A i \in Listener :
    caller[i] = "closed" \/ (asked[i] /\ caller[i] = "live") ~> query[i] = "closed"

(* A listener stays until its own handle is closed, its name is deregistered  *)
(* or its connection fails.                                                   *)
ServedUntilClosed ==
  \A i \in Listener :
    caller[i] = "live" /\ ~asked[i] /\ frames[i] = "open" => task[i] = "loop" /\ ~told[i]
==============================================================================
