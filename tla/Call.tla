------------------------------- MODULE Call -------------------------------
(***************************************************************************)
(* What one connection promises the code above it: a call is opened under  *)
(* a correlation id, its frame reaches the server at most once, and the    *)
(* call ends at most once, in one of four ways.  Nothing is said about     *)
(* how: slots, pumps and the drain of a broken connection are in Channel,  *)
(* which is shown to implement this specification.                         *)
(***************************************************************************)
CONSTANTS Req,    \* calls of Channel::request
          Corr,   \* correlation ids
          None

VARIABLES status, \* status[r]: how far the caller of r sees it
          key,    \* key[r]: the correlation id of r
          sent    \* calls whose frame the server has received

vars == <<status, key, sent>>

Status == {"idle", "open", "ok", "failed", "refused", "abandoned"}

TypeOK ==
    /\ status \in [Req -> Status]
    /\ key \in [Req -> Corr \cup {None}]
    /\ sent \subseteq Req

Init ==
    /\ status = [r \in Req |-> "idle"]
    /\ key = [r \in Req |-> None]
    /\ sent = {}

\* Only a retry shares a correlation id, and only after the earlier attempt failed.
Begin(r, c) ==
    /\ status[r] = "idle"
    /\ \A q \in Req : key[q] = c => status[q] \in {"failed", "refused"}
    /\ key' = [key EXCEPT ![r] = c]
    /\ \E s \in {"open", "refused"} : status' = [status EXCEPT ![r] = s]
    /\ UNCHANGED sent

\* The server receives the frames of S, each for the first time.  A call may be
\* over by then, even with a reply: a retry that the answer to the earlier attempt
\* satisfied still has its own frame on the way.
Transmit(S) ==
    /\ S \cap sent = {}
    /\ \A r \in S : status[r] \notin {"idle", "refused"}
    /\ sent' = sent \cup S
    /\ UNCHANGED <<status, key>>

\* A reply answers a frame the server did receive under the same id.
Reply(r) ==
    /\ status[r] = "open"
    /\ \E q \in sent : key[q] = key[r]
    /\ status' = [status EXCEPT ![r] = "ok"]
    /\ UNCHANGED <<key, sent>>

\* The outcome is unknown: the frame may have been, or may still be, received.
Fail(r) ==
    /\ status[r] = "open"
    /\ status' = [status EXCEPT ![r] = "failed"]
    /\ UNCHANGED <<key, sent>>

\* The frame was not received and never will be.
Refuse(r) ==
    /\ status[r] = "open"
    /\ r \notin sent
    /\ status' = [status EXCEPT ![r] = "refused"]
    /\ UNCHANGED <<key, sent>>

\* The caller drops its future.
Abandon(r) ==
    /\ status[r] = "open"
    /\ status' = [status EXCEPT ![r] = "abandoned"]
    /\ UNCHANGED <<key, sent>>

Next ==
    \/ \E r \in Req, c \in Corr : Begin(r, c)
    \/ \E S \in SUBSET Req : Transmit(S)
    \/ \E r \in Req : Reply(r) \/ Fail(r) \/ Refuse(r) \/ Abandon(r)

Spec == Init /\ [][Next]_vars
============================================================================
