------------------------------ MODULE Throttle ------------------------------
(***************************************************************************)
(* The reconnect throttle of ChannelManager (transport.rs,                 *)
(* record_reconnect_attempt): a deque of the attempts admitted in the last *)
(* window, trimmed and tested under its mutex at every attempt.  The clock *)
(* is read with the mutex held, so the deque is in order of time.          *)
(***************************************************************************)
EXTENDS Naturals, Sequences, FiniteSets

CONSTANTS
    Window,       \* throttle.window, in ticks of the clock
    MaxAttempts,  \* throttle.max_attempts
    LastTick      \* bound: the clock stops here

ASSUME ThrottleAssumption ==
    Window \in Nat \ {0} /\ MaxAttempts \in Nat /\ LastTick \in Nat

VARIABLES
    now,       \* Instant::now()
    attempts,  \* the reconnect_attempts deque
    admitted,  \* history: when attempts were admitted
    refused    \* history: when attempts were refused

thVars == <<now, attempts, admitted, refused>>

ThTypeOK ==
    /\ now \in Nat
    /\ attempts \in Seq(Nat)
    /\ admitted \in Seq(Nat)
    /\ refused \subseteq Nat

ThInit ==
    /\ now = 0
    /\ attempts = <<>>
    /\ admitted = <<>>
    /\ refused = {}

Tick ==
    /\ now < LastTick
    /\ now' = now + 1
    /\ UNCHANGED <<attempts, admitted, refused>>

\* now.duration_since(attempt) >= throttle.window
Expired(t) == now - t >= Window

\* pop_front takes n attempts: all expired, the next one is not.
Trims(n) ==
    /\ \A i \in 1..n : Expired(attempts[i])
    /\ n < Len(attempts) => ~Expired(attempts[n + 1])

\* Faulty variant of Record: the limit is compared the wrong way round.
RecordOneMore(n) ==
    /\ n \in 0..Len(attempts)
    /\ Trims(n)
    /\ Len(attempts) - n <= MaxAttempts
    /\ attempts' = Append(SubSeq(attempts, n + 1, Len(attempts)), now)
    /\ admitted' = Append(admitted, now)
    /\ UNCHANGED <<now, refused>>

Record(n) ==
    /\ n \in 0..Len(attempts)
    /\ Trims(n)
    /\ LET live == SubSeq(attempts, n + 1, Len(attempts))
       IN \/ /\ Len(live) >= MaxAttempts
             /\ attempts' = live
             /\ refused' = refused \cup {now}
             /\ UNCHANGED admitted
          \/ /\ Len(live) < MaxAttempts
             /\ attempts' = Append(live, now)
             /\ admitted' = Append(admitted, now)
             /\ UNCHANGED refused
    /\ UNCHANGED now

ThNext == Tick \/ \E n \in 0..Len(attempts) : Record(n)

ThSpec == ThInit /\ [][ThNext]_thVars
----------------------------------------------------------------------------
(* Properties *)

\* In no window, wherever it begins, are more than max_attempts attempts admitted:
\* an attempt comes a whole window after the one max_attempts before it.
WindowBound ==
    \A i \in 1..Len(admitted) :
        i + MaxAttempts <= Len(admitted) =>
            admitted[i + MaxAttempts] >= admitted[i] + Window

\* An attempt is refused only when max_attempts were admitted in the window that
\* ends with it.
RefusedAtLimit ==
    \A t \in refused :
        Cardinality({i \in 1..Len(admitted) :
                        admitted[i] <= t /\ t < admitted[i] + Window}) >= MaxAttempts

\* The throttle is exact: it admits no more than its limit in any window, and refuses
\* nothing below it.
ThrottleExact == WindowBound /\ RefusedAtLimit
============================================================================
