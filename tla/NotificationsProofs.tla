------------------------- MODULE NotificationsProofs -------------------------
(* The notifications of one connection, for any number of frames: dispatch,    *)
(* registration, removal and mark_broken lose and duplicate none, and none     *)
(* enters the channel of a listener that was removed.  And the names of the    *)
(* client's registry of listeners, for any number of registrations, the event  *)
(* bus, for any number of emitters, and the registry of binary types, for any  *)
(* history of registrations.                                                   *)
EXTENDS Notifications, Listeners, Events, Registry, WellFoundedInduction, TLAPS

------------------------------------------------------------------------------
(* Sequences of frames *)

Distinct(s) == \A i, j \in DOMAIN s : s[i] = s[j] /\ s[i] \in Frame => i = j

Entry == Frame \cup {Lost}

LEMMA Appended ==
    ASSUME NEW s \in Seq(Entry), NEW x \in Entry
    PROVE  /\ Append(s, x) \in Seq(Entry)
           /\ Range(Append(s, x)) = Range(s) \cup {x}
           /\ Distinct(s) /\ x \notin Range(s) \cap Frame => Distinct(Append(s, x))
  <1> DEFINE q == Append(s, x)
             n == Len(s)
  <1>1. /\ q \in Seq(Entry) /\ n \in Nat /\ DOMAIN s = 1..n /\ DOMAIN q = 1..(n + 1)
        /\ q[n + 1] = x /\ \A i \in 1..n : q[i] = s[i]
    OBVIOUS
  <1> HIDE DEF q, n
  <1>2. DOMAIN q = DOMAIN s \cup {n + 1} /\ n + 1 \notin DOMAIN s
    BY <1>1
  <1>3. Range(q) = Range(s) \cup {x}
    BY <1>1, <1>2 DEF Range
  <1>4. ASSUME Distinct(s), x \notin Range(s) \cap Frame PROVE Distinct(q)
    BY <1>1, <1>2, <1>4 DEF Distinct, Range
  <1> QED
    BY <1>1, <1>3, <1>4 DEF q

LEMMA Concatenated ==
    ASSUME NEW s \in Seq(Entry), NEW u \in Seq(Entry)
    PROVE  /\ s \o u \in Seq(Entry)
           /\ Range(s \o u) = Range(s) \cup Range(u)
           /\ Distinct(s) /\ Distinct(u) /\ Range(s) \cap Range(u) \cap Frame = {}
                => Distinct(s \o u)
  <1> DEFINE q == s \o u
             n == Len(s)
             m == Len(u)
  <1>1. /\ q \in Seq(Entry) /\ n \in Nat /\ m \in Nat
        /\ DOMAIN s = 1..n /\ DOMAIN u = 1..m /\ DOMAIN q = 1..(n + m)
        /\ \A i \in 1..n : q[i] = s[i]
        /\ \A i \in 1..(n + m) : i > n => q[i] = u[i - n]
    OBVIOUS
  <1> HIDE DEF q, n, m
  <1>2. \A i \in DOMAIN q : IF i \in DOMAIN s THEN q[i] = s[i]
                            ELSE i - n \in DOMAIN u /\ q[i] = u[i - n]
    BY <1>1
  <1>3. \A i \in DOMAIN s : i \in DOMAIN q
    BY <1>1
  <1>4. \A i \in DOMAIN u : n + i \in DOMAIN q /\ n + i \notin DOMAIN s /\ (n + i) - n = i
    BY <1>1
  <1>5. Range(q) = Range(s) \cup Range(u)
    <2>1. Range(q) \subseteq Range(s) \cup Range(u)
      BY <1>2 DEF Range
    <2>2. Range(s) \subseteq Range(q)
      BY <1>2, <1>3 DEF Range
    <2>3. ASSUME NEW i \in DOMAIN u PROVE q[n + i] = u[i]
      BY <1>2, <1>4
    <2>4. Range(u) \subseteq Range(q)
      BY <1>4, <2>3 DEF Range
    <2> QED
      BY <2>1, <2>2, <2>4
  <1>6. ASSUME Distinct(s), Distinct(u), Range(s) \cap Range(u) \cap Frame = {}
        PROVE  Distinct(q)
    <2> SUFFICES ASSUME NEW i \in DOMAIN q, NEW j \in DOMAIN q, q[i] = q[j], q[i] \in Frame
                 PROVE  i = j
      BY DEF Distinct
    <2>1. CASE i \in DOMAIN s /\ j \in DOMAIN s
      BY <1>2, <1>6, <2>1 DEF Distinct
    <2>2. CASE i \notin DOMAIN s /\ j \notin DOMAIN s
      <3>1. i - n = j - n
        BY <1>2, <1>6, <2>2 DEF Distinct
      <3> QED
        BY <1>1, <3>1
    <2>3. CASE ~(i \in DOMAIN s <=> j \in DOMAIN s)
      <3>1. q[i] \in Range(s) \cap Range(u)
        BY <1>2, <2>3 DEF Range
      <3> QED
        BY <1>6, <3>1
    <2> QED
      BY <2>1, <2>2, <2>3
  <1> QED
    BY <1>1, <1>5, <1>6 DEF q

------------------------------------------------------------------------------
(* Every frame is in one place *)

Inbox == Range(inbox) \cap Frame
Hand == IF pump \in {"lookup", "push"} THEN {read} ELSE {}

\* The four places share no frame, none of them has one twice, and together they have
\* those that were read.
FrameInv ==
    /\ Distinct(inbox) /\ Distinct(pending)
    /\ Inbox \cap Range(pending) = {} /\ Inbox \cap dropped = {} /\ Inbox \cap Hand = {}
    /\ Range(pending) \cap dropped = {} /\ Range(pending) \cap Hand = {}
    /\ dropped \cap Hand = {}
    /\ Inbox \cup Range(pending) \cup dropped \cup Hand = 1..read

\* The table has no listener of an owner that removed it.
RemovedInv == client \in {"purge", "gone"} => ~listener

NInv == TypeOK /\ FrameInv /\ RemovedInv

LEMMA InitNotifications == Init => NInv
  <1> SUFFICES ASSUME Init PROVE NInv
    OBVIOUS
  <1>1. /\ Range(inbox) = {} /\ Range(pending) = {} /\ dropped = {} /\ Hand = {}
        /\ Distinct(inbox) /\ Distinct(pending) /\ 1..read = {}
    BY DEF Init, Range, Hand, Distinct
  <1>2. FrameInv
    BY <1>1 DEF FrameInv, Inbox
  <1>3. read \in 0..FrameCount
    BY NotificationsAssumption DEF Init
  <1>4. TypeOK
    <2>1. pending \in Seq(Frame) /\ inbox \in Seq(Frame \cup {Lost}) /\ dropped \subseteq Frame
      BY DEF Init
    <2> QED
      BY <1>3, <2>1 DEF Init, TypeOK
  <1>5. RemovedInv
    BY DEF Init, RemovedInv
  <1> QED
    BY <1>2, <1>4, <1>5 DEF NInv

LEMMA Sequences ==
    ASSUME TypeOK
    PROVE  /\ pending \in Seq(Entry) /\ Range(pending) \subseteq Frame
           /\ inbox \in Seq(Entry) /\ Frame \subseteq Nat /\ Lost \notin Frame
           /\ read \in Nat /\ (read > 0 => read \in Frame)
  <1>1. pending \in Seq(Frame) /\ inbox \in Seq(Entry)
    BY DEF TypeOK, Entry
  <1>2. pending \in Seq(Entry) /\ Range(pending) \subseteq Frame
    BY <1>1 DEF Entry, Range
  <1>3. read \in Nat /\ FrameCount \in Nat /\ read <= FrameCount /\ Lost \notin Nat
    BY NotificationsAssumption DEF TypeOK
  <1> QED
    BY <1>1, <1>2, <1>3 DEF Frame

\* A step that moves no frame.
LEMMA Still ==
    ASSUME FrameInv, UNCHANGED <<inbox, pending, dropped, read>>, Hand' = Hand
    PROVE  FrameInv'
  BY DEF FrameInv, Inbox, Distinct

LEMMA PumpFrames == ASSUME TypeOK, FrameInv, Pump PROVE FrameInv'
  <1>1. CASE ReadNotification
    <2>1. read' = read + 1 /\ Hand' = {read + 1} /\ Hand = {}
          /\ UNCHANGED <<inbox, pending, dropped>>
      BY <1>1 DEF ReadNotification, Hand
    <2>2. 1..read' = (1..read) \cup {read + 1} /\ read + 1 \notin 1..read
      BY <2>1, Sequences
    <2>3. Inbox' = Inbox /\ Distinct(inbox') /\ Distinct(pending')
      BY <2>1 DEF Inbox, FrameInv
    <2> QED
      BY <2>1, <2>2, <2>3 DEF FrameInv
  <1>2. CASE DispatchLookup
    <2>1. CASE listener /\ receiving
      <3>1. inbox' = Append(inbox, read) /\ Hand' = {} /\ Hand = {read}
            /\ UNCHANGED <<pending, dropped, read>>
        BY <1>2, <2>1 DEF DispatchLookup, Hand
      <3>2. read \in Frame
        <4>1. read \in 1..read
          BY <3>1 DEF FrameInv
        <4> QED
          BY <4>1, Sequences
      <3>3. read \in Entry /\ read \notin Range(inbox) \cap Frame
        BY <3>1, <3>2 DEF FrameInv, Inbox, Entry
      <3>4. Range(inbox') = Range(inbox) \cup {read} /\ Distinct(inbox')
        BY <3>1, <3>3, Sequences, Appended DEF FrameInv
      <3>5. Inbox' = Inbox \cup {read}
        BY <3>2, <3>4 DEF Inbox
      <3> QED
        BY <3>1, <3>4, <3>5 DEF FrameInv
    <2>2. CASE ~(listener /\ receiving)
      BY <1>2, <2>2, Still DEF DispatchLookup, Hand
    <2> QED
      BY <2>1, <2>2
  <1>3. CASE DispatchPush
    <2>1. pending' = Append(pending, read) /\ Hand' = {} /\ Hand = {read}
          /\ UNCHANGED <<inbox, dropped, read>>
      BY <1>3 DEF DispatchPush, Hand
    <2>2. read \in Entry /\ read \notin Range(pending)
      <3>1. read \in 1..read
        BY <2>1 DEF FrameInv
      <3> QED
        BY <2>1, <3>1, Sequences DEF FrameInv, Entry
    <2>3. Range(pending') = Range(pending) \cup {read} /\ Distinct(pending')
      BY <2>1, <2>2, Sequences, Appended DEF FrameInv
    <2>4. Inbox' = Inbox /\ Distinct(inbox')
      BY <2>1 DEF Inbox, FrameInv
    <2> QED
      BY <2>1, <2>3, <2>4 DEF FrameInv
  <1> QED
    BY <1>1, <1>2, <1>3 DEF Pump

\* RemovePending and ClearPending.
LEMMA PendingDropped ==
    ASSUME FrameInv, dropped' = dropped \cup Range(pending), pending' = <<>>,
           UNCHANGED <<pump, read, inbox>>
    PROVE  FrameInv'
  <1>1. Range(pending') = {} /\ Distinct(pending')
    BY DEF Range, Distinct
  <1>2. Inbox' = Inbox /\ Hand' = Hand /\ Distinct(inbox')
    BY DEF Inbox, Hand, FrameInv
  <1> QED
    BY <1>1, <1>2 DEF FrameInv

LEMMA OwnerFrames ==
    ASSUME TypeOK, FrameInv, Register \/ CancelRegister \/ Leave \/ Unregister
    PROVE  FrameInv'
  <1>1. CASE RegisterFlush
    <2>1. inbox' = inbox \o pending /\ pending' = <<>> /\ UNCHANGED <<dropped, read>>
          /\ Hand' = Hand
      BY <1>1 DEF RegisterFlush, Hand
    <2>2. Range(inbox) \cap Range(pending) \cap Frame = {}
      BY DEF FrameInv, Inbox
    <2>3. Range(inbox') = Range(inbox) \cup Range(pending) /\ Distinct(inbox')
      BY <2>1, <2>2, Sequences, Concatenated DEF FrameInv
    <2>4. Inbox' = Inbox \cup Range(pending)
      BY <2>3, Sequences DEF Inbox
    <2>5. Range(pending') = {} /\ Distinct(pending')
      BY <2>1 DEF Range, Distinct
    <2> QED
      BY <2>1, <2>3, <2>4, <2>5 DEF FrameInv
  <1>2. CASE RemovePending
    BY <1>2, PendingDropped DEF RemovePending
  <1>3. CASE RegisterCheck \/ RegisterInsert \/ CancelRegister \/ Leave \/ RemoveListener
    BY <1>3, Still
       DEF RegisterCheck, RegisterInsert, CancelRegister, Leave, RemoveListener, Hand
  <1> QED
    BY <1>1, <1>2, <1>3 DEF Register, Unregister

LEMMA BreakFrames ==
    ASSUME TypeOK, FrameInv,
           (\E byPump \in BOOLEAN : MarkBroken(byPump)) \/ BreakDown \/ AbortBreaker
    PROVE  FrameInv'
  <1>1. ASSUME NEW byPump \in BOOLEAN, MarkBroken(byPump) PROVE FrameInv'
    BY <1>1, Still DEF MarkBroken, Hand
  <1>2. CASE ClearPending
    BY <1>2, PendingDropped DEF ClearPending
  <1>3. CASE TellListener
    <2>1. UNCHANGED <<pending, dropped, read>> /\ Hand' = Hand
      BY <1>3 DEF TellListener, Hand
    <2>2. CASE inbox' = Append(inbox, Lost)
      <3>1. Lost \in Entry /\ Lost \notin Frame
        BY Sequences DEF Entry
      <3>2. Range(inbox') = Range(inbox) \cup {Lost} /\ Distinct(inbox')
        BY <2>2, <3>1, Sequences, Appended DEF FrameInv
      <3>3. Inbox' = Inbox
        BY <3>1, <3>2 DEF Inbox
      <3> QED
        BY <2>1, <3>2, <3>3 DEF FrameInv
    <2> QED
      BY <1>3, <2>1, <2>2, Still DEF TellListener
  <1>4. CASE AbortPump
    <2>1. UNCHANGED <<inbox, pending, read>> /\ Hand' = {} /\ pump # "stopped"
          /\ dropped' = IF pump = "read" THEN dropped ELSE dropped \cup {read}
      BY <1>4 DEF AbortPump, Hand
    <2>2. dropped' = dropped \cup Hand
      BY <2>1 DEF Hand, TypeOK
    <2>3. Inbox' = Inbox /\ Distinct(inbox') /\ Distinct(pending')
      BY <2>1 DEF Inbox, FrameInv
    <2> QED
      BY <2>1, <2>2, <2>3 DEF FrameInv
  <1>5. CASE TakeListeners \/ AbortBreaker
    BY <1>5, Still DEF TakeListeners, AbortBreaker, Hand
  <1> QED
    BY <1>1, <1>2, <1>3, <1>4, <1>5 DEF BreakDown

LEMMA NextType == ASSUME TypeOK, FrameInv, [Next]_vars PROVE TypeOK'
  <1>1. CASE Pump
    <2>1. CASE ReadNotification
      <3>1. read' \in 0..FrameCount
        BY <2>1, NotificationsAssumption DEF ReadNotification, TypeOK
      <3> QED
        BY <2>1, <3>1 DEF ReadNotification, TypeOK
    <2>2. ASSUME pump \in {"lookup", "push"} PROVE read \in Frame
      <3>1. read \in 1..read
        BY <2>2 DEF FrameInv, Hand
      <3> QED
        BY <3>1, Sequences
    <2>3. CASE DispatchLookup
      <3>1. inbox' \in Seq(Frame \cup {Lost})
        BY <2>2, <2>3 DEF DispatchLookup, TypeOK
      <3> QED
        BY <2>3, <3>1 DEF DispatchLookup, TypeOK
    <2>4. CASE DispatchPush
      <3>1. pending' \in Seq(Frame)
        BY <2>2, <2>4 DEF DispatchPush, TypeOK
      <3> QED
        BY <2>4, <3>1 DEF DispatchPush, TypeOK
    <2> QED
      BY <1>1, <2>1, <2>3, <2>4 DEF Pump
  <1>2. CASE RegisterFlush
    <2>1. inbox' \in Seq(Frame \cup {Lost})
      BY <1>2, Sequences, Concatenated DEF RegisterFlush, Entry
    <2> QED
      BY <1>2, <2>1 DEF RegisterFlush, TypeOK
  <1>3. CASE RegisterCheck \/ RegisterInsert \/ CancelRegister \/ Leave \/ RemoveListener
    BY <1>3 DEF RegisterCheck, RegisterInsert, CancelRegister, Leave, RemoveListener, TypeOK
  <1>4. CASE RemovePending \/ ClearPending
    <2>1. dropped' = dropped \cup Range(pending) /\ pending' = <<>>
      BY <1>4 DEF RemovePending, ClearPending
    <2>2. dropped' \subseteq Frame
      BY <2>1, Sequences DEF TypeOK
    <2>3. pending' \in Seq(Frame)
      BY <2>1
    <2> QED
      BY <1>4, <2>2, <2>3 DEF RemovePending, ClearPending, TypeOK
  <1>5. ASSUME NEW byPump \in BOOLEAN, MarkBroken(byPump) PROVE TypeOK'
    BY <1>5 DEF MarkBroken, TypeOK
  <1>6. CASE TakeListeners \/ AbortBreaker \/ UNCHANGED vars
    BY <1>6 DEF TakeListeners, AbortBreaker, vars, TypeOK
  <1>7. CASE TellListener
    <2>1. inbox' \in Seq(Frame \cup {Lost})
      BY <1>7 DEF TellListener, TypeOK
    <2> QED
      BY <1>7, <2>1 DEF TellListener, TypeOK
  <1>8. CASE AbortPump
    <2>1. ASSUME pump # "read" PROVE read \in Frame
      <3>1. read \in 1..read
        BY <1>8, <2>1 DEF AbortPump, FrameInv, Hand, TypeOK
      <3> QED
        BY <3>1, Sequences
    <2>2. dropped' \subseteq Frame
      BY <1>8, <2>1 DEF AbortPump, TypeOK
    <2> QED
      BY <1>8, <2>2 DEF AbortPump, TypeOK
  <1> QED
    BY <1>1, <1>2, <1>3, <1>4, <1>5, <1>6, <1>7, <1>8 DEF Next, Register, Unregister, BreakDown

LEMMA NextNotifications == NInv /\ [Next]_vars => NInv'
  <1> SUFFICES ASSUME NInv, [Next]_vars PROVE NInv'
    OBVIOUS
  <1>1. TypeOK'
    BY NextType DEF NInv
  <1>2. FrameInv'
    <2>1. CASE UNCHANGED vars
      BY <2>1, Still DEF NInv, vars, Hand
    <2> QED
      BY <2>1, PumpFrames, OwnerFrames, BreakFrames DEF NInv, Next
  <1>3. RemovedInv'
    <2>1. CASE Pump \/ BreakDown \/ AbortBreaker \/ UNCHANGED vars
      BY <2>1 DEF NInv, RemovedInv, Pump, ReadNotification, DispatchLookup, DispatchPush,
         BreakDown, TakeListeners, ClearPending, TellListener, AbortPump, AbortBreaker, vars
    <2>2. CASE Register \/ CancelRegister \/ Leave \/ Unregister
      BY <2>2 DEF NInv, RemovedInv, Register, RegisterCheck, RegisterInsert, RegisterFlush,
         CancelRegister, Leave, Unregister, RemoveListener, RemovePending
    <2>3. ASSUME NEW byPump \in BOOLEAN, MarkBroken(byPump) PROVE RemovedInv'
      BY <2>3 DEF NInv, RemovedInv, MarkBroken
    <2> QED
      BY <2>1, <2>2, <2>3 DEF Next
  <1> QED
    BY <1>1, <1>2, <1>3 DEF NInv

\* What FrameInv says of one frame.
LEMMA OnePlace == ASSUME TypeOK, FrameInv PROVE FrameInOnePlace
  <1> SUFFICES ASSUME NEW f \in 1..read PROVE \E p \in Places(f) : Places(f) = {p}
    BY DEF FrameInOnePlace
  <1> DEFINE A == {<<"inbox", i>> : i \in {j \in DOMAIN inbox : inbox[j] = f}}
             B == {<<"pending", i>> : i \in {j \in DOMAIN pending : pending[j] = f}}
             C == {<<"dropped", 0>> : x \in dropped \cap {f}}
             D == {<<"pump", 0>> : x \in {y \in {f} : y = read
                                                     /\ pump \in {"lookup", "push"}}}
  <1>1. Places(f) = A \cup B \cup C \cup D
    BY DEF Places
  <1>2. f \in Frame
    BY Sequences, NotificationsAssumption DEF Frame, TypeOK
  <1>3. IF f \in Inbox THEN \E i : A = {<<"inbox", i>>} ELSE A = {}
    <2>1. CASE f \in Inbox
      <3>1. PICK i \in DOMAIN inbox : inbox[i] = f
        BY <2>1 DEF Inbox, Range
      <3>2. \A j \in DOMAIN inbox : inbox[j] = f => j = i
        BY <1>2, <3>1 DEF FrameInv, Distinct
      <3>3. A = {<<"inbox", i>>}
        BY <3>1, <3>2
      <3> QED
        BY <2>1, <3>3
    <2>2. CASE f \notin Inbox
      BY <1>2, <2>2 DEF Inbox, Range
    <2> QED
      BY <2>1, <2>2
  <1>4. IF f \in Range(pending) THEN \E i : B = {<<"pending", i>>} ELSE B = {}
    <2>1. CASE f \in Range(pending)
      <3>1. PICK i \in DOMAIN pending : pending[i] = f
        BY <2>1 DEF Range
      <3>2. \A j \in DOMAIN pending : pending[j] = f => j = i
        BY <1>2, <3>1 DEF FrameInv, Distinct
      <3>3. B = {<<"pending", i>>}
        BY <3>1, <3>2
      <3> QED
        BY <2>1, <3>3
    <2>2. CASE f \notin Range(pending)
      BY <2>2 DEF Range
    <2> QED
      BY <2>1, <2>2
  <1>5. IF f \in dropped THEN C = {<<"dropped", 0>>} ELSE C = {}
    OBVIOUS
  <1>6. IF f \in Hand THEN D = {<<"pump", 0>>} ELSE D = {}
    BY DEF Hand
  <1> HIDE DEF A, B, C, D
  <1>7. f \in Inbox \cup Range(pending) \cup dropped \cup Hand
    BY DEF FrameInv
  <1>8. \E p : Places(f) = {p}
    BY <1>1, <1>3, <1>4, <1>5, <1>6, <1>7 DEF FrameInv
  <1> QED
    BY <1>8

\* No order of the locks of dispatch, registration, removal and mark_broken, with aborted
\* pumps and dropped registrations, loses or duplicates a frame, for any number of frames.
THEOREM FramesKept == Spec => []FrameInOnePlace
  <1>1. NInv => FrameInOnePlace
    BY OnePlace DEF NInv
  <1> QED
    BY <1>1, InitNotifications, NextNotifications, PTL DEF Spec

\* No frame enters the channel of a listener after remove_notification_listener took it
\* out of the table.
THEOREM SilentAfterRemoval == Spec => NothingAfterRemoval
  <1> DEFINE Silent == client = "purge" \/ client = "gone" =>
                         Range(inbox') \cap Frame = Range(inbox) \cap Frame
  <1>1. NInv /\ [Next]_vars => [Silent]_vars
    <2> SUFFICES ASSUME NInv, Next, client = "purge" \/ client = "gone"
                 PROVE  Range(inbox') \cap Frame = Range(inbox) \cap Frame
      OBVIOUS
    <2>1. ~listener /\ client # "flush"
      BY DEF NInv, RemovedInv
    <2>2. inbox' = inbox \/ inbox' = Append(inbox, Lost)
      BY <2>1 DEF Next, Pump, ReadNotification, DispatchLookup, DispatchPush, Register,
         RegisterCheck, RegisterInsert, RegisterFlush, CancelRegister, Leave, Unregister,
         RemoveListener, RemovePending, MarkBroken, BreakDown, TakeListeners, ClearPending,
         TellListener, AbortPump, AbortBreaker
    <2>3. CASE inbox' = Append(inbox, Lost)
      <3>1. inbox \in Seq(Entry) /\ Lost \in Entry /\ Lost \notin Frame
        BY Sequences DEF NInv, Entry
      <3>2. Range(inbox') = Range(inbox) \cup {Lost}
        BY <2>3, <3>1, Appended
      <3> QED
        BY <3>1, <3>2
    <2> QED
      BY <2>2, <2>3
  <1> QED
    BY <1>1, InitNotifications, NextNotifications, PTL DEF Spec, NothingAfterRemoval

------------------------------------------------------------------------------
(* The names of the registry.  HolderIsServed needs two facts more: a          *)
(* listener is told to close only by whoever took its name away, and takes the *)
(* name once; and a handle goes live together with its task.                   *)

LsShape ==
  /\ holder \in Listener \cup {Nobody}
  /\ caller \in [Listener -> {"new", "opening", "live", "closed", "gone"}]
  /\ told \in [Listener -> BOOLEAN]
  /\ task \in [Listener -> {"none", "loop", "closing", "finish", "done"}]

(* The listener that holds the name, and one that never did.                  *)
Holds(i) ==
  /\ holder = i => caller[i] # "new" /\ ~told[i] /\ task[i] # "done"
  /\ caller[i] = "new" => ~told[i]
  /\ caller[i] \in {"new", "opening"} => task[i] = "none"
  /\ caller[i] \in {"live", "closed"} => task[i] # "none"

LsInv == LsShape /\ \A i \in Listener : Holds(i)

LEMMA NobodyElse == Nobody \notin Listener
BY ListenersAssumption DEF Nobody, Listener

LEMMA LsInitial == LsInit => LsInv
BY NobodyElse DEF LsInit, LsInv, LsShape, Holds

LEMMA OpeningKeeps ==
  ASSUME LsInv, NEW i \in Listener,
         RegisterName(i) \/ OpenListener(i) \/ OpenFails(i) \/ OpenDropped(i)
  PROVE  LsInv'
<1>1. CASE RegisterName(i)
  BY <1>1, NobodyElse DEF RegisterName, LsInv, LsShape, Holds
<1>2. CASE OpenListener(i)
  BY <1>2 DEF OpenListener, LsInv, LsShape, Holds
<1>3. CASE OpenFails(i)
  BY <1>3, NobodyElse DEF OpenFails, LsInv, LsShape, Holds
<1>4. CASE OpenDropped(i)
  BY <1>4 DEF OpenDropped, LsInv, LsShape, Holds
<1> QED
  BY <1>1, <1>2, <1>3, <1>4

LEMMA ClosingKeeps ==
  ASSUME LsInv, TakeAndTell, UNCHANGED task,
         caller' = caller \/ \E i \in Listener : /\ caller[i] = "live"
                                              /\ caller' = [caller EXCEPT ![i] = "closed"]
  PROVE  LsInv'
<1>1. holder' = Nobody /\ told' \in [Listener -> BOOLEAN]
      /\ \A i \in Listener : told'[i] => told[i] \/ holder = i
  BY NobodyElse DEF TakeAndTell, LsInv, LsShape
<1>2. LsShape'
  BY <1>1 DEF LsInv, LsShape
<1>3. \A i \in Listener : Holds(i)'
  BY <1>1, NobodyElse DEF LsInv, LsShape, Holds
<1> QED
  BY <1>2, <1>3 DEF LsInv

LEMMA TaskKeeps ==
  ASSUME LsInv, NEW i \in Listener, ListenerTask(i) \/ TaskForward(i) \/ LoseConnection(i)
  PROVE  LsInv'
<1>1. CASE TaskTold(i)
  BY <1>1 DEF TaskTold, LsInv, LsShape, Holds
<1>2. CASE TaskFrames(i)
  BY <1>2 DEF TaskFrames, LsInv, LsShape, Holds
<1>3. CASE TaskCloses(i)
  BY <1>3 DEF TaskCloses, LsInv, LsShape, Holds
<1>4. CASE TaskFinish(i)
  BY <1>4, NobodyElse DEF TaskFinish, LsInv, LsShape, Holds
<1>5. CASE CursorDropped(i) \/ TaskForward(i) \/ LoseConnection(i)
  BY <1>5 DEF CursorDropped, TaskForward, LoseConnection, LsInv, LsShape, Holds
<1> QED
  BY <1>1, <1>2, <1>3, <1>4, <1>5 DEF ListenerTask

LEMMA LsStep == LsInv /\ [LsNext]_lsVars => LsInv'
<1> SUFFICES ASSUME LsInv, [LsNext]_lsVars PROVE LsInv'
  OBVIOUS
<1>1. CASE UNCHANGED lsVars
  BY <1>1 DEF lsVars, LsInv, LsShape, Holds
<1>2. ASSUME NEW i \in Listener, CloseHandle(i) PROVE LsInv'
  BY <1>2, ClosingKeeps DEF CloseHandle
<1>3. CASE DeregisterByName
  BY <1>3, ClosingKeeps DEF DeregisterByName
<1> QED
  BY <1>1, <1>2, <1>3, OpeningKeeps, TaskKeeps DEF LsNext

(* A name is never left registered for a listener that has ended or is about  *)
(* to be closed: register refuses it only while its holder's task still runs  *)
(* (CacheListenerRegistry, register_cache_entry_listener), for any number of  *)
(* registrations, closes, drops and lost connections.                         *)
THEOREM NameIsServed == LsSpec => []HolderIsServed
<1>1. LsInv => HolderIsServed
  BY DEF LsInv, LsShape, Holds, HolderIsServed
<1> QED
  BY <1>1, LsInitial, LsStep, PTL DEF LsSpec

------------------------------------------------------------------------------
(* The event bus *)

Event == Emitters \X Nat

\* How an event a and a later one, b, of a sequence are related when those of S
\* must not appear in it twice; a task's events keep their order.
Follows(S, a, b) == (a[1] = b[1] => a[2] <= b[2]) /\ (a = b => a \notin S)
InOrder(S, s) == \A i, j \in DOMAIN s : i < j => Follows(S, s[i], s[j])
Precedes(S, A, B) == \A a \in A, b \in B : Follows(S, a, b)

LEMMA AppendKeeps ==
    ASSUME NEW T, NEW S, NEW s \in Seq(T), NEW x \in T
    PROVE  /\ Append(s, x) \in Seq(T) /\ Len(Append(s, x)) = Len(s) + 1 /\ Len(s) \in Nat
           /\ Range(Append(s, x)) = Range(s) \cup {x}
           /\ InOrder(S, s) /\ Precedes(S, Range(s), {x}) => InOrder(S, Append(s, x))
  <1> DEFINE q == Append(s, x)
             n == Len(s)
  <1>1. /\ q \in Seq(T) /\ n \in Nat /\ DOMAIN s = 1..n /\ DOMAIN q = 1..(n + 1)
        /\ q[n + 1] = x /\ Len(q) = n + 1 /\ \A i \in 1..n : q[i] = s[i]
    OBVIOUS
  <1> HIDE DEF q, n
  <1>2. /\ DOMAIN q = DOMAIN s \cup {n + 1} /\ n + 1 \notin DOMAIN s
        /\ \A i, j \in DOMAIN q : i < j => i \in DOMAIN s
    BY <1>1
  <1>3. Range(q) = Range(s) \cup {x}
    BY <1>1, <1>2 DEF Range
  <1>4. ASSUME InOrder(S, s), Precedes(S, Range(s), {x}) PROVE InOrder(S, q)
    <2> SUFFICES ASSUME NEW i \in DOMAIN q, NEW j \in DOMAIN q, i < j
                 PROVE  Follows(S, q[i], q[j])
      BY DEF InOrder
    <2>1. i \in DOMAIN s /\ q[i] = s[i] /\ s[i] \in Range(s)
      BY <1>1, <1>2 DEF Range
    <2>2. CASE j \in DOMAIN s
      BY <1>1, <1>4, <2>1, <2>2 DEF InOrder
    <2>3. CASE j = n + 1
      BY <1>1, <1>4, <2>1, <2>3 DEF Precedes
    <2> QED
      BY <1>2, <2>2, <2>3
  <1> QED
    BY <1>1, <1>3, <1>4 DEF q, n

LEMMA TailKeeps ==
    ASSUME NEW T, NEW S, NEW s \in Seq(T), s # <<>>
    PROVE  /\ Head(s) \in T /\ Tail(s) \in Seq(T) /\ Len(Tail(s)) = Len(s) - 1 /\ Len(s) \in Nat
           /\ Range(s) = {Head(s)} \cup Range(Tail(s))
           /\ InOrder(S, s) => InOrder(S, Tail(s)) /\ Precedes(S, {Head(s)}, Range(Tail(s)))
  <1> DEFINE q == Tail(s)
             n == Len(s)
  <1>1. /\ q \in Seq(T) /\ n \in Nat /\ n > 0 /\ DOMAIN s = 1..n /\ DOMAIN q = 1..(n - 1)
        /\ Head(s) = s[1] /\ Head(s) \in T /\ Len(q) = n - 1
        /\ \A i \in 1..(n - 1) : q[i] = s[i + 1]
    OBVIOUS
  <1> HIDE DEF q, n
  <1>2. /\ \A i \in DOMAIN q : i + 1 \in DOMAIN s /\ 1 < i + 1 /\ q[i] = s[i + 1]
        /\ \A i \in DOMAIN s : i = 1 \/ (i - 1 \in DOMAIN q /\ q[i - 1] = s[i])
        /\ 1 \in DOMAIN s
    BY <1>1
  <1>3. Range(s) = {Head(s)} \cup Range(q)
    <2>1. Range(s) \subseteq {Head(s)} \cup Range(q)
      BY <1>1, <1>2 DEF Range
    <2>2. {Head(s)} \cup Range(q) \subseteq Range(s)
      BY <1>1, <1>2 DEF Range
    <2> QED
      BY <2>1, <2>2
  <1>4. ASSUME InOrder(S, s) PROVE InOrder(S, q)
    <2> SUFFICES ASSUME NEW i \in DOMAIN q, NEW j \in DOMAIN q, i < j
                 PROVE  Follows(S, q[i], q[j])
      BY DEF InOrder
    <2>1. i + 1 < j + 1
      BY <1>1
    <2> QED
      BY <1>2, <1>4, <2>1 DEF InOrder
  <1>5. ASSUME InOrder(S, s) PROVE Precedes(S, {Head(s)}, Range(q))
    BY <1>1, <1>2, <1>5 DEF InOrder, Precedes, Range
  <1> QED
    BY <1>1, <1>3, <1>4, <1>5 DEF q, n

\* A broadcast channel drops the oldest, and nothing while there is room.
LEMMA NewestKeeps ==
    ASSUME NEW T, NEW S, NEW s \in Seq(T)
    PROVE  /\ Newest(s) \in Seq(T) /\ Len(Newest(s)) <= Capacity
           /\ Range(Newest(s)) \subseteq Range(s)
           /\ InOrder(S, s) => InOrder(S, Newest(s))
           /\ Len(s) <= Capacity => Newest(s) = s
  <1>1. CASE Len(s) <= Capacity
    BY <1>1, EventsAssumption DEF Newest
  <1>2. CASE Len(s) > Capacity
    <2> DEFINE n == Len(s)
               k == n - Capacity
               q == SubSeq(s, n - Capacity + 1, n)
    <2>1. /\ n \in Nat /\ k \in Nat /\ DOMAIN s = 1..n /\ q \in Seq(T) /\ Len(q) = Capacity
          /\ DOMAIN q = 1..Capacity /\ \A i \in 1..Capacity : q[i] = s[i + k]
      BY <1>2, EventsAssumption
    <2>2. Newest(s) = q
      BY <1>2 DEF Newest
    <2> HIDE DEF n, q
    <2>3. n = k + Capacity
      BY <2>1, EventsAssumption
    <2> HIDE DEF k
    <2>4. \A i \in DOMAIN q : i + k \in DOMAIN s /\ q[i] = s[i + k]
      BY <2>1, <2>3, EventsAssumption
    <2>5. Range(q) \subseteq Range(s)
      BY <2>4 DEF Range
    <2>6. ASSUME InOrder(S, s) PROVE InOrder(S, q)
      <3> SUFFICES ASSUME NEW i \in DOMAIN q, NEW j \in DOMAIN q, i < j
                   PROVE  Follows(S, q[i], q[j])
        BY DEF InOrder
      <3>1. i + k < j + k
        BY <2>1, EventsAssumption
      <3> QED
        BY <2>4, <2>6, <3>1 DEF InOrder
    <2> QED
      BY <1>2, <2>1, <2>2, <2>5, <2>6, EventsAssumption
  <1> QED
    BY <1>1, <1>2, EventsAssumption

LEMMA ConcatKeeps ==
    ASSUME NEW T, NEW S, NEW s \in Seq(T), NEW u \in Seq(T),
           InOrder(S, s), InOrder(S, u), Precedes(S, Range(s), Range(u))
    PROVE  /\ s \o u \in Seq(T) /\ InOrder(S, s \o u)
           /\ Range(s \o u) = Range(s) \cup Range(u)
  <1> DEFINE q == s \o u
             n == Len(s)
             m == Len(u)
  <1>1. /\ q \in Seq(T) /\ n \in Nat /\ m \in Nat
        /\ DOMAIN s = 1..n /\ DOMAIN u = 1..m /\ DOMAIN q = 1..(n + m)
        /\ \A i \in 1..n : q[i] = s[i]
        /\ \A i \in 1..(n + m) : i > n => q[i] = u[i - n]
    OBVIOUS
  <1> HIDE DEF q, n, m
  <1>2. \A i \in DOMAIN q : IF i \in DOMAIN s THEN q[i] = s[i]
                            ELSE i - n \in DOMAIN u /\ q[i] = u[i - n]
    BY <1>1
  <1>3. /\ \A i \in DOMAIN s : i \in DOMAIN q
        /\ \A i \in DOMAIN u : n + i \in DOMAIN q /\ n + i \notin DOMAIN s /\ (n + i) - n = i
    BY <1>1
  <1>4. Range(q) = Range(s) \cup Range(u)
    <2>1. Range(q) \subseteq Range(s) \cup Range(u)
      BY <1>2 DEF Range
    <2>2. Range(s) \subseteq Range(q)
      BY <1>2, <1>3 DEF Range
    <2>3. ASSUME NEW i \in DOMAIN u PROVE q[n + i] = u[i]
      BY <1>2, <1>3
    <2>4. Range(u) \subseteq Range(q)
      BY <1>3, <2>3 DEF Range
    <2> QED
      BY <2>1, <2>2, <2>4
  <1>5. InOrder(S, q)
    <2> SUFFICES ASSUME NEW i \in DOMAIN q, NEW j \in DOMAIN q, i < j
                 PROVE  Follows(S, q[i], q[j])
      BY DEF InOrder
    <2>1. CASE j \in DOMAIN s
      <3>1. i \in DOMAIN s
        BY <1>1, <2>1
      <3> QED
        BY <1>2, <2>1, <3>1 DEF InOrder
    <2>2. CASE i \in DOMAIN s /\ j \notin DOMAIN s
      BY <1>2, <2>2 DEF Precedes, Range
    <2>3. CASE i \notin DOMAIN s /\ j \notin DOMAIN s
      <3>1. i - n < j - n
        BY <1>1
      <3> QED
        BY <1>2, <2>3, <3>1 DEF InOrder
    <2> QED
      BY <2>1, <2>2, <2>3
  <1> QED
    BY <1>1, <1>4, <1>5 DEF q

\* Fewer events that must not appear twice, or one more that does not appear.
LEMMA OrderWith ==
    ASSUME NEW S, NEW s, NEW A, NEW B
    PROVE  /\ \A R \in SUBSET S : InOrder(S, s) => InOrder(R, s)
           /\ \A x : x \notin Range(s) /\ InOrder(S, s) => InOrder(S \cup {x}, s)
           /\ \A x : x \notin A /\ Precedes(S, A, B) => Precedes(S \cup {x}, A, B)
  <1>1. \A R \in SUBSET S : InOrder(S, s) => InOrder(R, s)
    BY DEF InOrder, Follows
  <1>2. \A x : x \notin Range(s) /\ InOrder(S, s) => InOrder(S \cup {x}, s)
    BY DEF InOrder, Follows, Range
  <1>3. \A x : x \notin A /\ Precedes(S, A, B) => Precedes(S \cup {x}, A, B)
    BY DEF Precedes, Follows
  <1> QED
    BY <1>1, <1>2, <1>3

Joined == sub.at \in {"direct", "forwarded"}
Sure == before \cup after
Stream == Range(got) \cup Range(own) \cup Range(upstream)

EvTypeOK ==
  /\ history \in Seq(Event) /\ upstream \in Seq(Event) /\ own \in Seq(Event) /\ got \in Seq(Event)
  /\ sub \in [at : {"none", "copied", "direct", "forwarded", "left"}, copy : Seq(Event)]
  /\ count \in [Emitters -> Nat] /\ unsent \subseteq Event
  /\ before \subseteq Event /\ after \subseteq Event /\ lagged \in BOOLEAN

\* No event is ahead of its task, and an unsent one is the last of its task.
Born ==
  /\ \A x \in Range(history) \cup Range(sub.copy) \cup Stream \cup Sure : x[2] <= count[x[1]]
  /\ \A x \in unsent : x[2] = count[x[1]] /\ x \notin before

\* The copy of the history has everything that was emitted when it was taken,
\* and no event twice.
Subscribing ==
  /\ Len(history) <= Capacity /\ Len(sub.copy) <= Capacity
  /\ InOrder(Event, history) /\ InOrder(Event, sub.copy)
  /\ sub.at = "copied" => before \subseteq Range(sub.copy)
  /\ sub.at \in {"none", "copied"} => after = {} /\ got = <<>> /\ own = <<>> /\ upstream = <<>>

\* What the subscriber has got and will get, in the order in which it gets it.
Streaming ==
  /\ Len(upstream) <= Capacity /\ Len(own) <= Capacity
  /\ Joined =>
       /\ InOrder(Sure, got) /\ InOrder(Sure, own) /\ InOrder(Sure, upstream)
       /\ Precedes(Sure, Range(got), Range(own)) /\ Precedes(Sure, Range(got), Range(upstream))
       /\ Precedes(Sure, Range(own), Range(upstream))
       /\ unsent \cap after \cap Stream = {}
       /\ ~lagged => before \cup (after \ unsent) \subseteq Stream
       /\ sub.at = "direct" => own = <<>>

EvInv == EvTypeOK /\ Born /\ Subscribing /\ Streaming

LEMMA NothingIn ==
    ASSUME NEW T, NEW S
    PROVE  <<>> \in Seq(T) /\ Len(<<>>) = 0 /\ Range(<<>>) = {} /\ InOrder(S, <<>>)
  BY DEF Range, InOrder

LEMMA EvInitial == EvInit => EvInv
  <1> SUFFICES ASSUME EvInit PROVE EvInv
    OBVIOUS
  <1>1. EvTypeOK
    BY NothingIn DEF EvInit, EvTypeOK, Event
  <1>2. /\ sub.at = "none" /\ sub.copy = <<>> /\ ~Joined
        /\ history = <<>> /\ got = <<>> /\ own = <<>> /\ upstream = <<>>
        /\ unsent = {} /\ before = {} /\ after = {}
    BY DEF EvInit, Joined
  <1>3. Born
    BY <1>2, NothingIn DEF Born, Stream, Sure
  <1>4. Subscribing /\ Streaming
    BY <1>2, NothingIn, EventsAssumption DEF Subscribing, Streaming
  <1> QED
    BY <1>1, <1>3, <1>4 DEF EvInv

LEMMA RecordEventKeeps == ASSUME EvInv, NEW e \in Emitters, RecordEvent(e) PROVE EvInv'
  <1> DEFINE x == <<e, count[e] + 1>>
             h == IF Len(history) = Capacity THEN Tail(history) ELSE history
  <1>1. /\ count[e] \in Nat /\ x \in Event /\ x[1] = e /\ x[2] = count[e] + 1
        /\ \A y \in Event : y[1] \in Emitters /\ y[2] \in Nat /\ count[y[1]] \in Nat
        /\ count' \in [Emitters -> Nat] /\ count'[e] = count[e] + 1
        /\ \A f \in Emitters : f # e => count'[f] = count[f]
    BY DEF EvInv, EvTypeOK, RecordEvent, Event
  <1>2. /\ history' = Append(h, x) /\ unsent' = unsent \cup {x} /\ \A y \in unsent : y[1] # e
        /\ after' = (IF Joined THEN after \cup {x} ELSE after)
        /\ UNCHANGED <<sub, upstream, own, got, lagged, before>>
    BY DEF RecordEvent, Recorded, Joined
  <1>3. /\ h \in Seq(Event) /\ Range(h) \subseteq Range(history) /\ Len(h) < Capacity
        /\ Len(h) \in Nat /\ InOrder(Event, h)
    <2>1. history \in Seq(Event) /\ Len(history) <= Capacity /\ InOrder(Event, history)
      BY DEF EvInv, EvTypeOK, Subscribing
    <2>2. CASE Len(history) = Capacity
      <3>1. history # <<>>
        BY <2>2, EventsAssumption, NothingIn
      <3>2. /\ Tail(history) \in Seq(Event) /\ Len(Tail(history)) = Len(history) - 1
            /\ Range(Tail(history)) \subseteq Range(history) /\ InOrder(Event, Tail(history))
        BY <2>1, <3>1, TailKeeps
      <3>3. h = Tail(history)
        BY <2>2
      <3> HIDE DEF h
      <3> QED
        BY <2>2, <3>2, <3>3, EventsAssumption
    <2>3. CASE Len(history) # Capacity
      BY <2>1, <2>3, EventsAssumption
    <2> QED
      BY <2>2, <2>3
  <1> DEFINE All == Range(history) \cup Range(sub.copy) \cup Stream \cup Sure
  <1>4. All \subseteq Event /\ \A y \in All : y[2] <= count[y[1]]
    <2>1. \A s \in Seq(Event) : Range(s) \subseteq Event
      BY DEF Range
    <2> QED
      BY <2>1 DEF EvInv, EvTypeOK, Born, Stream, Sure
  <1> HIDE DEF x, h
  <1>5. x \notin All /\ \A y \in All : y[2] <= count'[y[1]]
    BY <1>1, <1>4
  <1>6. Precedes(Event, Range(h), {x})
    BY <1>1, <1>3, <1>4, <1>5 DEF Precedes, Follows
  <1>7. /\ history' \in Seq(Event) /\ Len(history') <= Capacity /\ InOrder(Event, history')
        /\ Range(history') = Range(h) \cup {x}
    BY <1>1, <1>2, <1>3, <1>6, AppendKeeps, EventsAssumption
  <1>8. EvTypeOK'
    BY <1>1, <1>2, <1>7 DEF EvInv, EvTypeOK
  <1>9. Born'
    <2>1. Range(history)' \cup Range(sub.copy)' \cup Stream' \cup Sure' \subseteq All \cup {x}
      BY <1>2, <1>3, <1>7 DEF Stream, Sure
    <2>2. \A y \in All \cup {x} : y[2] <= count'[y[1]]
      BY <1>1, <1>5
    <2>3. x[2] = count'[x[1]] /\ x \notin before
      BY <1>1, <1>5 DEF Sure
    <2>4. \A y \in unsent : y[2] = count'[y[1]] /\ y \notin before
      BY <1>1, <1>2 DEF EvInv, EvTypeOK, Born
    <2> QED
      BY <1>2, <2>1, <2>2, <2>3, <2>4 DEF Born
  <1>10. Subscribing'
    BY <1>2, <1>7 DEF EvInv, Subscribing, Joined
  <1>11. Streaming'
    <2>1. Len(upstream)' <= Capacity /\ Len(own)' <= Capacity
      BY <1>2 DEF EvInv, Streaming
    <2>2. ASSUME Joined
          PROVE  /\ Sure' = Sure \cup {x} /\ Stream' = Stream /\ x \notin Stream /\ lagged' = lagged
                 /\ x \notin Range(got) /\ x \notin Range(own) /\ x \notin Range(upstream)
      BY <1>2, <1>5, <2>2 DEF Sure, Stream
    <2>3. ASSUME Joined
          PROVE  /\ InOrder(Sure', got) /\ InOrder(Sure', own) /\ InOrder(Sure', upstream)
                 /\ Precedes(Sure', Range(got), Range(own))
                 /\ Precedes(Sure', Range(got), Range(upstream))
                 /\ Precedes(Sure', Range(own), Range(upstream))
      BY <2>2, <2>3, OrderWith DEF EvInv, Streaming
    <2>4. ASSUME Joined
          PROVE  /\ unsent' \cap after' \cap Stream' = {}
                 /\ ~lagged' => before \cup (after' \ unsent') \subseteq Stream'
      BY <1>2, <2>2, <2>4, <1>5 DEF EvInv, Streaming
    <2>5. Joined' = Joined /\ (Joined => (sub.at = "direct" => own = <<>>))
      BY <1>2 DEF EvInv, Streaming, Joined
    <2> QED
      BY <1>2, <2>1, <2>3, <2>4, <2>5 DEF Streaming
  <1> QED
    BY <1>8, <1>9, <1>10, <1>11 DEF EvInv

\* An event out of the channels' and the copy's sequences is an event.
LEMMA Members == ASSUME EvInv
                 PROVE  /\ Range(history) \subseteq Event /\ Range(sub.copy) \subseteq Event
                        /\ Range(got) \subseteq Event /\ Range(own) \subseteq Event
                        /\ Range(upstream) \subseteq Event
  <1>1. \A s \in Seq(Event) : Range(s) \subseteq Event
    BY DEF Range
  <1> QED
    BY <1>1 DEF EvInv, EvTypeOK

LEMMA EmitKeeps == ASSUME EvInv, NEW x \in unsent, Emit(x) PROVE EvInv'
  <1>1. unsent' = unsent \ {x} /\ UNCHANGED <<history, count, sub, own, got, before, after>>
    BY DEF Emit
  <1>2. CASE ~Joined
    <2>1. UNCHANGED <<upstream, lagged>>
      BY <1>2 DEF Emit, Joined
    <2>2. EvTypeOK'
      BY <1>1, <2>1 DEF EvInv, EvTypeOK
    <2>3. Born'
      BY <1>1, <2>1 DEF EvInv, Born, Stream, Sure
    <2>4. Subscribing' /\ Streaming'
      BY <1>1, <1>2, <2>1 DEF EvInv, Subscribing, Streaming, Joined
    <2> QED
      BY <2>2, <2>3, <2>4 DEF EvInv
  <1>3. CASE Joined
    <2> DEFINE a == Append(upstream, x)
    <2>1. upstream' = Newest(a) /\ lagged' = (lagged \/ Len(upstream) = Capacity)
      BY <1>3 DEF Emit, Joined
    <2>2. /\ x \in Event /\ x[2] = count[x[1]] /\ x \notin before /\ upstream \in Seq(Event)
          /\ lagged \in BOOLEAN /\ x \notin after \cap Stream
      BY <1>3 DEF EvInv, EvTypeOK, Born, Streaming
    <2>3. \A y \in Stream : Follows(Sure, y, x)
      BY <2>2 DEF EvInv, Born, Follows, Sure
    <2>4. /\ InOrder(Sure, got) /\ InOrder(Sure, own) /\ InOrder(Sure, upstream)
          /\ Precedes(Sure, Range(got), Range(own)) /\ Precedes(Sure, Range(got), Range(upstream))
          /\ Precedes(Sure, Range(own), Range(upstream))
      BY <1>3 DEF EvInv, Streaming
    <2>5. Precedes(Sure, Range(upstream), {x})
      BY <2>3 DEF Precedes, Stream
    <2>6. /\ a \in Seq(Event) /\ Len(a) = Len(upstream) + 1 /\ Len(upstream) \in Nat
          /\ Range(a) = Range(upstream) \cup {x} /\ InOrder(Sure, a)
      BY <2>2, <2>4, <2>5, AppendKeeps
    <2> HIDE DEF a
    <2>7. /\ upstream' \in Seq(Event) /\ Len(upstream') <= Capacity
          /\ Range(upstream') \subseteq Range(upstream) \cup {x} /\ InOrder(Sure, upstream')
          /\ Len(a) <= Capacity => Range(upstream') = Range(upstream) \cup {x}
      BY <2>1, <2>6, NewestKeeps
    <2>8. /\ Precedes(Sure, Range(got), Range(upstream'))
          /\ Precedes(Sure, Range(own), Range(upstream'))
      BY <2>3, <2>4, <2>7 DEF Precedes, Stream
    <2>9. EvTypeOK'
      BY <1>1, <2>1, <2>2, <2>7 DEF EvInv, EvTypeOK
    <2>10. Stream' \subseteq Stream \cup {x} /\ Sure' = Sure
      BY <1>1, <2>7 DEF Stream, Sure
    <2>11. Born'
      <3>1. x[2] <= count[x[1]]
        BY <2>2 DEF EvInv, EvTypeOK, Event
      <3> QED
        BY <1>1, <2>10, <3>1 DEF EvInv, Born
    <2>12. Subscribing'
      BY <1>1, <1>3 DEF EvInv, Subscribing, Joined
    <2>13. unsent' \cap after' \cap Stream' = {}
      BY <1>1, <1>3, <2>10 DEF EvInv, Streaming
    <2>14. ASSUME ~lagged' PROVE before' \cup (after' \ unsent') \subseteq Stream'
      <3>0. ~lagged /\ Len(upstream) # Capacity
        BY <2>1, <2>14, Zenon
      <3>1. Len(a) <= Capacity
        BY <2>6, <3>0, EventsAssumption DEF EvInv, Streaming
      <3>2. Stream' = Stream \cup {x}
        BY <1>1, <2>7, <3>1 DEF Stream
      <3> QED
        BY <1>1, <1>3, <3>0, <3>2 DEF EvInv, Streaming
    <2>15. Len(own) <= Capacity /\ (sub.at = "direct" => own = <<>>)
      BY <1>3 DEF EvInv, Streaming
    <2>16. Streaming'
      BY <1>1, <2>4, <2>7, <2>8, <2>10, <2>13, <2>14, <2>15 DEF Streaming
    <2> QED
      BY <2>9, <2>11, <2>12, <2>16 DEF EvInv
  <1> QED
    BY <1>2, <1>3

LEMMA SnapshotKeeps == ASSUME EvInv, Snapshot PROVE EvInv'
  <1>1. /\ sub.at = "none" /\ sub'.at = "copied" /\ sub'.copy = history
        /\ UNCHANGED <<history, count, unsent, upstream, own, got, lagged, after>>
    BY DEF Snapshot
  <1>2. before' = Range(history) \ unsent
    <2>1. DOMAIN history = 1 .. Len(history)
      BY DEF EvInv, EvTypeOK
    <2> QED
      BY <2>1 DEF Snapshot, Range
  <1>3. EvTypeOK'
    BY <1>1, <1>2, Members DEF EvInv, EvTypeOK, Snapshot
  <1>4. Born'
    <2>1. Sure' \subseteq Range(history) \cup Sure
      BY <1>1, <1>2 DEF Sure
    <2> QED
      BY <1>1, <1>2, <2>1 DEF EvInv, Born, Stream
  <1>5. Subscribing' /\ Streaming'
    BY <1>1, <1>2 DEF EvInv, Subscribing, Streaming, Joined
  <1> QED
    BY <1>3, <1>4, <1>5 DEF EvInv

LEMMA JoinBusKeeps == ASSUME EvInv, JoinBus PROVE EvInv'
  <1> DEFINE c == sub.copy
  <1>1. /\ sub.at = "copied" /\ sub'.copy = <<>> /\ Joined'
        /\ sub'.at = "direct" => c = <<>>
        /\ own' = Newest(c)
        /\ UNCHANGED <<history, count, unsent, upstream, got, lagged, before, after>>
    BY DEF JoinBus, Joined
  <1>2. /\ c \in Seq(Event) /\ Len(c) <= Capacity /\ InOrder(Event, c) /\ before \subseteq Range(c)
        /\ after = {} /\ got = <<>> /\ upstream = <<>> /\ Sure \in SUBSET Event
    BY <1>1 DEF EvInv, EvTypeOK, Subscribing, Sure
  <1>3. own' = c /\ InOrder(Sure, c)
    BY <1>1, <1>2, NewestKeeps, OrderWith, ZenonT(30)
  <1>4. sub' \in [at : {"none", "copied", "direct", "forwarded", "left"}, copy : Seq(Event)]
    BY NothingIn DEF JoinBus
  <1>5. EvTypeOK'
    BY <1>1, <1>2, <1>3, <1>4 DEF EvInv, EvTypeOK
  <1>6. Stream' = Range(c) /\ Sure' = Sure /\ Range(sub'.copy) = {}
    BY <1>1, <1>2, <1>3, NothingIn DEF Stream, Sure
  <1>7. Born'
    BY <1>1, <1>6 DEF EvInv, Born
  <1> HIDE DEF c
  <1>8. Subscribing'
    BY <1>1, NothingIn, EventsAssumption DEF EvInv, Subscribing, Joined
  <1>9. Streaming'
    BY <1>1, <1>2, <1>3, <1>6, NothingIn, EventsAssumption DEF Streaming, Precedes
  <1> QED
    BY <1>5, <1>7, <1>8, <1>9 DEF EvInv

LEMMA ForwardKeeps == ASSUME EvInv, Forward PROVE EvInv'
  <1> DEFINE h == Head(upstream)
             t == Tail(upstream)
             a == Append(own, h)
  <1>1. /\ sub.at = "forwarded" /\ Joined /\ upstream # <<>> /\ own' = Newest(a) /\ upstream' = t
        /\ lagged' = (lagged \/ Len(own) = Capacity)
        /\ UNCHANGED <<history, count, unsent, sub, got, before, after>>
    BY DEF Forward, Joined
  <1>2. /\ InOrder(Sure, got) /\ InOrder(Sure, own) /\ InOrder(Sure, upstream)
        /\ Precedes(Sure, Range(got), Range(own)) /\ Precedes(Sure, Range(got), Range(upstream))
        /\ Precedes(Sure, Range(own), Range(upstream))
        /\ Len(own) <= Capacity /\ Len(upstream) <= Capacity
        /\ own \in Seq(Event) /\ upstream \in Seq(Event) /\ got \in Seq(Event)
    BY <1>1 DEF EvInv, EvTypeOK, Streaming
  <1>3. /\ h \in Event /\ t \in Seq(Event) /\ Len(t) = Len(upstream) - 1 /\ Len(upstream) \in Nat
        /\ Range(upstream) = {h} \cup Range(t)
        /\ InOrder(Sure, t) /\ Precedes(Sure, {h}, Range(t))
    BY <1>1, <1>2, TailKeeps
  <1> HIDE DEF h, t
  <1>4. /\ Precedes(Sure, Range(own), {h}) /\ Precedes(Sure, Range(got), {h})
        /\ Precedes(Sure, Range(own), Range(t)) /\ Precedes(Sure, Range(got), Range(t))
    BY <1>2, <1>3 DEF Precedes
  <1>5. /\ a \in Seq(Event) /\ Len(a) = Len(own) + 1 /\ Len(own) \in Nat
        /\ Range(a) = Range(own) \cup {h} /\ InOrder(Sure, a)
    BY <1>2, <1>3, <1>4, AppendKeeps
  <1> HIDE DEF a
  <1>6. /\ own' \in Seq(Event) /\ Len(own') <= Capacity /\ InOrder(Sure, own')
        /\ Range(own') \subseteq Range(own) \cup {h}
        /\ Len(a) <= Capacity => Range(own') = Range(own) \cup {h}
    BY <1>1, <1>5, NewestKeeps
  <1>7. /\ Precedes(Sure, Range(got), Range(own')) /\ Precedes(Sure, Range(own'), Range(t))
    BY <1>2, <1>3, <1>4, <1>6 DEF Precedes
  <1>8. Stream' \subseteq Stream /\ Sure' = Sure
    BY <1>1, <1>3, <1>6 DEF Stream, Sure
  <1>9. EvTypeOK'
    BY <1>1, <1>3, <1>6 DEF EvInv, EvTypeOK
  <1>10. Born'
    BY <1>1, <1>8 DEF EvInv, Born
  <1>11. Subscribing'
    BY <1>1 DEF EvInv, Subscribing
  <1>12. ASSUME ~lagged' PROVE before' \cup (after' \ unsent') \subseteq Stream'
    <2>1. ~lagged /\ Len(own) # Capacity
      BY <1>1, <1>12, Zenon
    <2>2. Len(a) <= Capacity
      BY <1>2, <1>5, <2>1, EventsAssumption
    <2>3. Stream' = Stream
      BY <1>1, <1>3, <1>6, <2>2 DEF Stream
    <2> QED
      BY <1>1, <2>1, <2>3 DEF EvInv, Streaming
  <1>13. Len(t) <= Capacity
    BY <1>2, <1>3, EventsAssumption
  <1>14. unsent' \cap after' \cap Stream' = {}
    BY <1>1, <1>8 DEF EvInv, Streaming
  <1>15. Streaming'
    <2>1. /\ InOrder(Sure', got') /\ InOrder(Sure', own') /\ InOrder(Sure', upstream')
          /\ Precedes(Sure', Range(got'), Range(own'))
          /\ Precedes(Sure', Range(got'), Range(upstream'))
          /\ Precedes(Sure', Range(own'), Range(upstream'))
      BY <1>1, <1>2, <1>3, <1>4, <1>6, <1>7, <1>8
    <2>2. Len(upstream') <= Capacity /\ sub'.at # "direct"
      BY <1>1, <1>13
    <2> QED
      BY <1>6, <1>12, <1>14, <2>1, <2>2 DEF Streaming
  <1> QED
    BY <1>9, <1>10, <1>11, <1>15 DEF EvInv

LEMMA ReceiveKeeps == ASSUME EvInv, Receive PROVE EvInv'
  <1>1. Joined /\ UNCHANGED <<history, count, unsent, sub, lagged, before, after>>
    BY DEF Receive, Joined
  <1>2. /\ InOrder(Sure, got) /\ InOrder(Sure, own) /\ InOrder(Sure, upstream)
        /\ Precedes(Sure, Range(got), Range(own)) /\ Precedes(Sure, Range(got), Range(upstream))
        /\ Precedes(Sure, Range(own), Range(upstream))
        /\ Len(own) <= Capacity /\ Len(upstream) <= Capacity
        /\ own \in Seq(Event) /\ upstream \in Seq(Event) /\ got \in Seq(Event)
        /\ sub.at = "direct" => own = <<>>
    BY <1>1 DEF EvInv, EvTypeOK, Streaming
  \* The event that is received, and what the other channel still holds.
  <1>3. ASSUME NEW s \in Seq(Event), s # <<>>, InOrder(Sure, s), Len(s) <= Capacity,
               Precedes(Sure, Range(got), Range(s)), got' = Append(got, Head(s))
        PROVE  /\ got' \in Seq(Event) /\ Tail(s) \in Seq(Event) /\ Len(Tail(s)) <= Capacity
               /\ InOrder(Sure, got') /\ InOrder(Sure, Tail(s))
               /\ Precedes(Sure, Range(got'), Range(Tail(s)))
               /\ Range(got') = Range(got) \cup {Head(s)}
               /\ Range(s) = {Head(s)} \cup Range(Tail(s))
    <2> DEFINE h == Head(s)
               t == Tail(s)
    <2>1. /\ h \in Event /\ t \in Seq(Event) /\ Len(t) = Len(s) - 1 /\ Len(s) \in Nat
          /\ Range(s) = {h} \cup Range(t) /\ InOrder(Sure, t) /\ Precedes(Sure, {h}, Range(t))
      BY <1>3, TailKeeps
    <2>2. got' = Append(got, h)
      BY <1>3
    <2> HIDE DEF h, t
    <2>3. Precedes(Sure, Range(got), {h}) /\ Precedes(Sure, Range(got), Range(t))
      BY <1>3, <2>1 DEF Precedes
    <2>4. got' \in Seq(Event) /\ Range(got') = Range(got) \cup {h} /\ InOrder(Sure, got')
      <3>1. got \in Seq(Event) /\ h \in Event
        BY <1>2, <2>1
      <3>2. InOrder(Sure, got) /\ Precedes(Sure, Range(got), {h})
        BY <1>2, <2>3
      <3>3. /\ Append(got, h) \in Seq(Event) /\ Range(Append(got, h)) = Range(got) \cup {h}
            /\ InOrder(Sure, Append(got, h))
        BY <3>1, <3>2, AppendKeeps
      <3> QED BY <2>2, <3>3
    <2>5. Precedes(Sure, Range(got'), Range(t))
      BY <2>1, <2>3, <2>4 DEF Precedes
    <2>6. Len(t) <= Capacity
      BY <1>3, <2>1, EventsAssumption
    <2> QED
      BY <2>1, <2>4, <2>5, <2>6 DEF h, t
  <1>4. /\ EvTypeOK' /\ Stream' = Stream /\ Len(upstream)' <= Capacity /\ Len(own)' <= Capacity
        /\ InOrder(Sure, got') /\ InOrder(Sure, own') /\ InOrder(Sure, upstream')
        /\ Precedes(Sure, Range(got'), Range(own')) /\ Precedes(Sure, Range(got'), Range(upstream'))
        /\ Precedes(Sure, Range(own'), Range(upstream'))
        /\ sub.at = "direct" => own' = <<>>
    <2>1. CASE /\ sub.at = "direct" /\ upstream # <<>> /\ UNCHANGED own
               /\ got' = Append(got, Head(upstream)) /\ upstream' = Tail(upstream)
      <3>1. own = <<>> /\ own' = <<>>
        BY <1>2, <2>1
      <3>2. /\ got' \in Seq(Event) /\ upstream' \in Seq(Event) /\ Len(upstream') <= Capacity
            /\ InOrder(Sure, got') /\ InOrder(Sure, upstream')
            /\ Precedes(Sure, Range(got'), Range(upstream'))
            /\ Range(got') = Range(got) \cup {Head(upstream)}
            /\ Range(upstream) = {Head(upstream)} \cup Range(upstream')
        BY <1>2, <1>3, <2>1
      <3>3. Stream' = Stream
        BY <3>1, <3>2 DEF Stream
      <3>4. EvTypeOK'
        BY <1>1, <2>1, <3>2 DEF EvInv, EvTypeOK
      <3> QED
        BY <1>2, <3>1, <3>2, <3>3, <3>4, NothingIn DEF Precedes
    <2>2. CASE /\ sub.at = "forwarded" /\ own # <<>> /\ UNCHANGED upstream
               /\ got' = Append(got, Head(own)) /\ own' = Tail(own)
      <3>1. /\ got' \in Seq(Event) /\ own' \in Seq(Event) /\ Len(own') <= Capacity
            /\ InOrder(Sure, got') /\ InOrder(Sure, own')
            /\ Precedes(Sure, Range(got'), Range(own'))
            /\ Range(got') = Range(got) \cup {Head(own)}
            /\ Range(own) = {Head(own)} \cup Range(own')
        BY <1>2, <1>3, <2>2
      <3>2. Stream' = Stream
        BY <2>2, <3>1 DEF Stream
      <3>3. EvTypeOK'
        BY <1>1, <2>2, <3>1 DEF EvInv, EvTypeOK
      <3>4. /\ Precedes(Sure, Range(got'), Range(upstream'))
            /\ Precedes(Sure, Range(own'), Range(upstream'))
        BY <1>2, <2>2, <3>1 DEF Precedes
      <3> QED
        BY <1>2, <2>2, <3>1, <3>2, <3>3, <3>4
    <2> QED
      BY <2>1, <2>2 DEF Receive
  <1>5. Sure' = Sure
    BY <1>1 DEF Sure
  <1>6. Born'
    BY <1>1, <1>4, <1>5 DEF EvInv, Born
  <1>7. Subscribing'
    BY <1>1 DEF EvInv, Subscribing, Joined
  <1>8. Streaming'
    BY <1>1, <1>4, <1>5 DEF EvInv, Streaming
  <1> QED
    BY <1>4, <1>6, <1>7, <1>8 DEF EvInv

LEMMA UnsubscribeKeeps == ASSUME EvInv, Unsubscribe PROVE EvInv'
  <1>1. /\ sub'.at = "left" /\ sub'.copy = sub.copy /\ upstream' = <<>> /\ own' = <<>> /\ ~Joined'
        /\ sub' \in [at : {"none", "copied", "direct", "forwarded", "left"}, copy : Seq(Event)]
        /\ UNCHANGED <<history, count, unsent, got, lagged, before, after>>
    BY DEF EvInv, EvTypeOK, Unsubscribe, Joined
  <1>2. EvTypeOK'
    BY <1>1, NothingIn DEF EvInv, EvTypeOK
  <1>3. Stream' \subseteq Stream /\ Sure' = Sure
    BY <1>1, NothingIn DEF Stream, Sure
  <1>4. Born'
    BY <1>1, <1>3 DEF EvInv, Born
  <1>5. Subscribing'
    BY <1>1 DEF EvInv, Subscribing
  <1>6. Len(upstream') <= Capacity /\ Len(own') <= Capacity
    BY <1>1, NothingIn, EventsAssumption
  <1>7. Streaming'
    BY <1>1, <1>6 DEF Streaming
  <1> QED
    BY <1>2, <1>4, <1>5, <1>7 DEF EvInv

LEMMA EvStep == EvInv /\ [EvNext]_evVars => EvInv'
  <1> SUFFICES ASSUME EvInv, [EvNext]_evVars PROVE EvInv'
    OBVIOUS
  <1>1. CASE UNCHANGED evVars
    BY <1>1 DEF evVars, EvInv, EvTypeOK, Born, Subscribing, Streaming, Stream, Sure, Joined
  <1> QED
    BY <1>1, RecordEventKeeps, EmitKeeps, SnapshotKeeps, JoinBusKeeps, ForwardKeeps,
       ReceiveKeeps, UnsubscribeKeeps DEF EvNext

LEMMA StreamedOnce == EvInv => SeenOnce
  <1> SUFFICES ASSUME EvInv, Joined PROVE SeenOnce
    BY DEF SeenOnce, Joined
  <1> DEFINE go == got \o own
             stream == go \o upstream
             Where(x) == {i \in 1 .. Len(stream) : stream[i] = x}
  <1>1. /\ InOrder(Sure, got) /\ InOrder(Sure, own) /\ InOrder(Sure, upstream)
        /\ Precedes(Sure, Range(got), Range(own)) /\ Precedes(Sure, Range(got), Range(upstream))
        /\ Precedes(Sure, Range(own), Range(upstream))
        /\ own \in Seq(Event) /\ upstream \in Seq(Event) /\ got \in Seq(Event)
        /\ ~lagged => before \cup (after \ unsent) \subseteq Stream
    BY DEF EvInv, EvTypeOK, Streaming
  <1>2. go \in Seq(Event) /\ InOrder(Sure, go) /\ Range(go) = Range(got) \cup Range(own)
    <2>1. /\ got \in Seq(Event) /\ own \in Seq(Event)
          /\ InOrder(Sure, got) /\ InOrder(Sure, own) /\ Precedes(Sure, Range(got), Range(own))
      BY <1>1
    <2> QED
      BY <2>1, ConcatKeeps
  <1> HIDE DEF go
  <1>3. Precedes(Sure, Range(go), Range(upstream))
    BY <1>1, <1>2 DEF Precedes
  <1>4. stream \in Seq(Event) /\ InOrder(Sure, stream) /\ Range(stream) = Stream
    <2>1. /\ go \in Seq(Event) /\ upstream \in Seq(Event)
          /\ InOrder(Sure, go) /\ InOrder(Sure, upstream)
      BY <1>1, <1>2
    <2>2. /\ stream \in Seq(Event) /\ InOrder(Sure, stream)
          /\ Range(stream) = Range(go) \cup Range(upstream)
      BY <1>3, <2>1, ConcatKeeps
    <2> QED
      BY <1>2, <2>2 DEF Stream
  <1> HIDE DEF stream
  <1>5. DOMAIN stream = 1 .. Len(stream) /\ Len(stream) \in Nat
    BY <1>4
  <1>6. ASSUME NEW x \in before \cup (after \ unsent)
        PROVE  (\A i, j \in Where(x) : i = j) /\ (~lagged => Where(x) # {})
    <2>1. x \in Sure /\ (~lagged => x \in Range(stream))
      BY <1>1, <1>4 DEF Sure
    <2>2. ASSUME NEW i \in Where(x), NEW j \in Where(x), i < j PROVE FALSE
      BY <1>4, <1>5, <2>1, <2>2 DEF InOrder, Follows
    <2>3. \A i, j \in Where(x) : i = j
      BY <1>5, <2>2
    <2>4. x \in Range(stream) => Where(x) # {}
      BY <1>5 DEF Range
    <2> QED
      BY <2>1, <2>3, <2>4
  <1>7. \A i, j \in 1 .. Len(stream) :
          i < j /\ stream[i][1] = stream[j][1] => stream[i][2] <= stream[j][2]
    BY <1>4, <1>5 DEF InOrder, Follows
  <1> QED
    BY <1>6, <1>7 DEF SeenOnce, stream, go

(* Whatever the tasks, the size of the channels and the interleaving of emit  *)
(* and subscribe: an emission that does not overlap with subscribe() appears  *)
(* once in what its stream delivers, once at most when it lags, and the       *)
(* events of a task appear in its order.  EvInv splits the stream into what   *)
(* was read, the subscriber's own channel and the bus's, and says that each   *)
(* continues the one before it.                                               *)
THEOREM EventsSeenOnce == EvSpec => []SeenOnce
  BY EvInitial, EvStep, StreamedOnce, PTL DEF EvSpec

----------------------------------------------------------------------------
(* Induction over the natural numbers, in terms of sets.                      *)

\* A set of natural numbers that is not empty has a least element.
LEMMA Least ==
    ASSUME NEW T, T \subseteq Nat, T # {}
    PROVE  \E x \in T : \A y \in T : x <= y
<1> DEFINE R == {p \in Nat \X Nat : p[1] < p[2]}
<1>1. R = OpToRel(<, Nat)
  BY DEF OpToRel
<1>2. IsWellFoundedOn(R, Nat)
  BY <1>1, NatLessThanWellFounded
<1>3. \E x \in T : \A y \in T : ~ (<<y, x>> \in R)
  <2> HIDE DEF R
  <2> QED BY <1>2, WFMin
<1>4. PICK x \in T : \A y \in T : ~ (<<y, x>> \in R)
  BY <1>3
<1>5. ASSUME NEW y \in T PROVE x <= y
  <2>1. ~ (y < x)
    BY <1>4, <1>5
  <2> QED BY <2>1
<1> QED BY <1>5

\* A set with 0 and with the successor of each of its numbers has all of them.
LEMMA Induct ==
    ASSUME NEW S, 0 \in S, \A n \in Nat : n \in S => n + 1 \in S
    PROVE  Nat \subseteq S
<1> SUFFICES ASSUME Nat \ S # {} PROVE FALSE
  OBVIOUS
<1>1. PICK x \in Nat \ S : \A y \in Nat \ S : x <= y
  BY Least
<1>2. x # 0 /\ x - 1 \in Nat /\ x - 1 \in S
  BY <1>1
<1> QED BY <1>1, <1>2

\* The functions that start with x and go on as F says.
Recursions(S, x, F, n) ==
  {g \in [0..n -> S] : g[0] = x /\ \A k \in 1..n : g[k] = F[<<g[k - 1], k>>]}

\* There is such a function.
LEMMA RecursionExists ==
    ASSUME NEW S, NEW x \in S, NEW F \in [S \X Nat -> S], NEW n \in Nat
    PROVE  Recursions(S, x, F, n) # {}
<1> DEFINE D(m, g) == g[0] = x /\ \A k \in 1..m : g[k] = F[<<g[k - 1], k>>]
           T == {m \in Nat : \E g \in [0..m -> S] : D(m, g)}
<1>1. 0 \in T
  <2> DEFINE g == [k \in 0..0 |-> x]
  <2>1. g \in [0..0 -> S] /\ D(0, g)
    OBVIOUS
  <2> QED BY <2>1
<1>2. ASSUME NEW m \in Nat, m \in T PROVE m + 1 \in T
  <2>1. PICK g \in [0..m -> S] : D(m, g)
    BY <1>2
  <2> DEFINE y == F[<<g[m], m + 1>>]
             h == [k \in 0..(m + 1) |-> IF k = m + 1 THEN y ELSE g[k]]
  <2>2. y \in S
    <3>1. g[m] \in S /\ m + 1 \in Nat
      BY <2>1
    <3> QED BY <3>1
  <2> HIDE DEF y
  <2>3. h \in [0..(m + 1) -> S] /\ h[0] = x
    BY <2>1, <2>2
  <2>4. ASSUME NEW k \in 1..(m + 1) PROVE h[k] = F[<<h[k - 1], k>>]
    <3>1. CASE k = m + 1
      <4>1. h[k] = y /\ h[k - 1] = g[m]
        BY <3>1
      <4> QED BY <3>1, <4>1 DEF y
    <3>2. CASE k \in 1..m
      <4>1. h[k] = g[k] /\ h[k - 1] = g[k - 1]
        BY <3>2
      <4> QED BY <2>1, <3>2, <4>1
    <3> QED BY <3>1, <3>2
  <2> HIDE DEF h
  <2>5. D(m + 1, h)
    BY <2>3, <2>4
  <2> QED BY <2>3, <2>5
<1> HIDE DEF T
<1>3. Nat \subseteq T
  BY <1>1, <1>2, Induct
<1> QED BY <1>3 DEF T, Recursions

----------------------------------------------------------------------------
(* The registry of binary types.                                              *)

\* A list of fields that have names, and the ids of their names.
Field == [name : Nat \ {0}, code : Int, id : Int]
WellNamed(meta) ==
  meta.fields \in Seq(Field) /\ \A i \in 1..Len(meta.fields) : meta.fields[i].id = FieldId[meta.fields[i].name]

\* The lists that AddMissing goes through, one field of new at a time.
Merging(u, old, new) ==
  /\ u[0] = old
  /\ \A i \in 1..Len(new) :
       u[i] = IF \E k \in 1..Len(u[i - 1]) : u[i - 1][k].name = new[i].name
              THEN u[i - 1] ELSE Append(u[i - 1], new[i])

LEMMA AddMissingEquations ==
    ASSUME NEW old \in Seq(Field), NEW new \in Seq(Field)
    PROVE  \E u : AddMissing(old, new, {"name"}) = u[Len(new)] /\ Merging(u, old, new)
<1> DEFINE N == Len(new)
           G(p, i) == IF \E k \in 1..Len(p) : \A c \in {"name"} : p[k][c] = new[i][c]
                      THEN p ELSE Append(p, new[i])
           D(g) == g = [i \in 0..N |-> IF i = 0 THEN old ELSE G(g[i - 1], i)]
           u == CHOOSE g : D(g)
           S == Seq(Field)
           F == [q \in S \X Nat |-> IF q[2] \in 1..N THEN G(q[1], q[2]) ELSE q[1]]
<1>0. N \in Nat /\ \A i \in 1..N : new[i] \in Field
  OBVIOUS
<1>1. AddMissing(old, new, {"name"}) = u[N]
  BY DEF AddMissing
<1>2. F \in [S \X Nat -> S]
  <2>1. ASSUME NEW q \in S \X Nat PROVE F[q] \in S
    <3>1. CASE q[2] \in 1..N
      <4> DEFINE p == q[1]
                 i == q[2]
      <4>1. p \in S /\ new[i] \in Field
        BY <1>0, <3>1
      <4>2. Append(p, new[i]) \in S
        BY <4>1
      <4>3. F[q] = G(p, i)
        BY <3>1
      <4> HIDE DEF p, i, S, F
      <4> QED BY <4>1, <4>2, <4>3
    <3>2. CASE q[2] \notin 1..N
      BY <3>2
    <3> QED BY <3>1, <3>2
  <2> HIDE DEF G
  <2> QED BY <2>1
<1>3. \E g : D(g)
  <2>1. PICK g \in [0..N -> S] : g[0] = old /\ \A k \in 1..N : g[k] = F[<<g[k - 1], k>>]
    <3>1. Recursions(S, old, F, N) # {}
      <4> HIDE DEF F, G
      <4>1. old \in S
        OBVIOUS
      <4> HIDE DEF S
      <4> QED BY <1>0, <1>2, <4>1, RecursionExists
    <3> HIDE DEF F, S
    <3> QED BY <3>1 DEF Recursions
  <2>2. ASSUME NEW k \in 1..N PROVE g[k] = G(g[k - 1], k)
    <3> DEFINE y == g[k - 1]
    <3>1. y \in S /\ k \in Nat
      <4>1. k - 1 \in 0..N /\ k \in Nat
        BY <1>0
      <4> HIDE DEF F, S
      <4> QED BY <4>1
    <3> HIDE DEF y
    <3>2. F[<<y, k>>] = G(y, k)
      <4> HIDE DEF G, S
      <4> QED BY <3>1
    <3> HIDE DEF F, G, S
    <3>3. g[k] = F[<<g[k - 1], k>>]
      BY <2>1
    <3> QED BY <3>2, <3>3 DEF y
  <2> HIDE DEF G, S, F
  <2>3. D(g)
    <3>1. g = [k \in 0..N |-> g[k]]
      OBVIOUS
    <3>2. ASSUME NEW k \in 0..N PROVE g[k] = IF k = 0 THEN old ELSE G(g[k - 1], k)
      <4>1. CASE k = 0
        BY <2>1, <4>1
      <4>2. CASE k # 0
        <5>1. k \in 1..N
          BY <1>0, <4>2
        <5> QED BY <2>2, <4>2, <5>1
      <4> QED BY <4>1, <4>2
    <3> QED BY <3>1, <3>2
  <2> QED BY <2>3
<1>4. D(u)
  <2> HIDE DEF G
  <2> QED BY <1>3
<1> HIDE DEF u
<1>5. u[0] = old /\ \A k \in 1..N : u[k] = G(u[k - 1], k)
  <2> HIDE DEF G
  <2>1. 0 \in 0..N /\ \A k \in 1..N : k \in 0..N /\ k # 0
    BY <1>0
  <2> QED BY <1>4, <2>1
<1>6. ASSUME NEW p, NEW i
      PROVE  G(p, i) = IF \E k \in 1..Len(p) : p[k].name = new[i].name THEN p ELSE Append(p, new[i])
  OBVIOUS
<1> HIDE DEF G
<1>7. Merging(u, old, new)
  BY <1>5, <1>6 DEF Merging
<1> QED BY <1>1, <1>7

\* Every field stays where it is, and a field is added for every name that was
\* not there.
Kept(all, old, new) ==
  /\ all \in Seq(Field) /\ Len(old) <= Len(all)
  /\ \A k \in 1..Len(old) : all[k] = old[k]
  /\ \A i \in 1..Len(new) : \E k \in 1..Len(all) : all[k].name = new[i].name
  /\ \A k \in 1..Len(all) : k \in 1..Len(old) \/ \E i \in 1..Len(new) : all[k] = new[i]

LEMMA AddMissingKeeps ==
    ASSUME NEW old \in Seq(Field), NEW new \in Seq(Field), NEW all,
           all = AddMissing(old, new, {"name"})
    PROVE  Kept(all, old, new)
<1> DEFINE N == Len(new)
           M == Len(old)
           Has(p, x) == \E k \in 1..Len(p) : p[k].name = x
<1>0. N \in Nat /\ M \in Nat /\ \A i \in 1..N : new[i] \in Field
  OBVIOUS
<1>1. PICK u : /\ all = u[N] /\ u[0] = old
               /\ \A i \in 1..N : u[i] = IF Has(u[i - 1], new[i].name) THEN u[i - 1]
                                         ELSE Append(u[i - 1], new[i])
  <2>1. PICK u : AddMissing(old, new, {"name"}) = u[N] /\ Merging(u, old, new)
    BY AddMissingEquations
  <2> QED BY <2>1 DEF Merging
<1> DEFINE Good(n) ==
             /\ u[n] \in Seq(Field) /\ M <= Len(u[n])
             /\ \A k \in 1..M : u[n][k] = old[k]
             /\ \A i \in 1..n : Has(u[n], new[i].name)
             /\ \A k \in 1..Len(u[n]) : k \in 1..M \/ \E i \in 1..N : u[n][k] = new[i]
           T == {n \in Nat : n <= N => Good(n)}
<1>2. 0 \in T
  BY <1>0, <1>1
<1>3. ASSUME NEW n \in Nat, n \in T PROVE n + 1 \in T
  <2>1. SUFFICES ASSUME n + 1 <= N PROVE Good(n + 1)
    OBVIOUS
  <2> DEFINE i == n + 1
             p == u[n]
             q == u[i]
  <2>2. Good(n) /\ i \in 1..N /\ i - 1 = n
    BY <1>0, <1>3, <2>1
  <2>3. new[i] \in Field
    BY <1>0, <2>2
  <2>4. q = IF Has(p, new[i].name) THEN p ELSE Append(p, new[i])
    <3> HIDE DEF i, Has
    <3> QED BY <1>1, <2>2
  <2>5. CASE Has(p, new[i].name)
    <3>1. q = p
      BY <2>4, <2>5
    <3>2. \A j \in 1..i : j = i \/ j \in 1..n
      BY <2>2
    <3>3. \A j \in 1..i : Has(q, new[j].name)
      <4> HIDE DEF Has, i, p, q
      <4> QED BY <2>2, <2>5, <3>1, <3>2 DEF p
    <3> HIDE DEF Has, i, p, q
    <3> QED BY <2>2, <3>1, <3>3 DEF p, q, i
  <2>6. CASE ~ Has(p, new[i].name)
    <3> DEFINE x == new[i]
    <3>1. q = Append(p, x)
      BY <2>4, <2>6
    <3>2. p \in Seq(Field) /\ x \in Field
      BY <2>2, <2>3
    <3> HIDE DEF p, q, x, i
    <3>3. /\ q \in Seq(Field) /\ Len(q) = Len(p) + 1 /\ Len(p) \in Nat
          /\ \A k \in 1..Len(p) : q[k] = p[k]
          /\ q[Len(p) + 1] = x
      BY <3>1, <3>2
    <3>4. M <= Len(q) /\ \A k \in 1..M : q[k] = old[k]
      BY <1>0, <2>2, <3>3 DEF p
    <3>5. \A k \in 1..Len(q) : k \in 1..M \/ \E j \in 1..N : q[k] = new[j]
      <4>1. \A k \in 1..Len(q) : k \in 1..Len(p) \/ k = Len(p) + 1
        BY <3>3
      <4> QED BY <2>2, <3>3, <4>1 DEF p, x
    <3>6. ASSUME NEW j \in 1..i PROVE Has(q, new[j].name)
      <4>1. CASE j = i
        <5>1. Len(p) + 1 \in 1..Len(q)
          BY <3>3
        <5> QED BY <3>3, <4>1, <5>1 DEF x
      <4>2. CASE j # i
        <5>1. j \in 1..n
          BY <2>2, <4>2 DEF i
        <5>2. PICK k \in 1..Len(p) : p[k].name = new[j].name
          BY <2>2, <5>1 DEF p
        <5>3. k \in 1..Len(q) /\ q[k] = p[k]
          BY <3>3
        <5> QED BY <5>2, <5>3
      <4> QED BY <4>1, <4>2
    <3> HIDE DEF Has
    <3> QED BY <3>3, <3>4, <3>5, <3>6 DEF q, i
  <2> QED BY <2>5, <2>6
<1> HIDE DEF T
<1>4. Nat \subseteq T
  BY <1>2, <1>3, Induct
<1>5. Good(N)
  BY <1>0, <1>4 DEF T
<1>6. /\ all \in Seq(Field) /\ M <= Len(all)
      /\ \A k \in 1..M : all[k] = old[k]
      /\ \A i \in 1..N : Has(all, new[i].name)
      /\ \A k \in 1..Len(all) : k \in 1..M \/ \E i \in 1..N : all[k] = new[i]
  <2> HIDE DEF Has, N, M
  <2> QED BY <1>1, <1>5
<1> QED BY <1>6 DEF Kept

\* A set of numbers up to n that is not empty has a greatest element.
LEMMA Greatest ==
    ASSUME NEW n \in Nat, NEW T, T \subseteq 1..n, T # {}
    PROVE  \E x \in T : \A y \in T : y <= x
<1> DEFINE R == {k \in Nat : \E x \in T : k = n - x}
<1>1. R \subseteq Nat /\ R # {}
  <2>1. PICK x \in T : TRUE
    OBVIOUS
  <2>2. n - x \in Nat
    BY <2>1
  <2>3. n - x \in R
    BY <2>1, <2>2
  <2> QED BY <2>3
<1> HIDE DEF R
<1>2. PICK k \in R : \A j \in R : k <= j
  BY <1>1, Least
<1>3. PICK x \in T : k = n - x
  BY <1>2 DEF R
<1>4. ASSUME NEW y \in T PROVE y <= x
  <2>1. n - y \in Nat
    OBVIOUS
  <2>2. n - y \in R
    BY <2>1 DEF R
  <2>3. n - x <= n - y
    BY <1>2, <1>3, <2>2
  <2>4. x \in Int /\ y \in Int
    OBVIOUS
  <2> QED BY <2>3, <2>4
<1> QED BY <1>4

\* An id that some field has is given the name of such a field.
LEMMA NameOfKnown ==
    ASSUME NEW meta, WellNamed(meta), NEW id,
           NEW k \in 1..Len(meta.fields), meta.fields[k].id = id
    PROVE  NameOf(meta, id) \in Nat \ {0} /\ FieldId[NameOf(meta, id)] = id
<1> DEFINE fields == meta.fields
           at == {i \in 1..Len(fields) : fields[i].id = id}
           m == CHOOSE i \in at : \A j \in at : j <= i
<1>1. fields \in Seq(Field) /\ Len(fields) \in Nat
  BY DEF WellNamed
<1>2. at \subseteq 1..Len(fields) /\ at # {}
  OBVIOUS
<1>3. m \in at
  <2>1. \E i \in at : \A j \in at : j <= i
    <3> HIDE DEF at
    <3> QED BY <1>1, <1>2, Greatest, ZenonT(30)
  <2> HIDE DEF at
  <2> QED BY <2>1
<1>4. NameOf(meta, id) = fields[m].name
  BY <1>2 DEF NameOf
<1> HIDE DEF m
<1>5. m \in 1..Len(fields) /\ fields[m].id = id
  BY <1>3
<1>6. fields[m] \in Field /\ fields[m].id = FieldId[fields[m].name]
  BY <1>1, <1>5 DEF WellNamed
<1> QED BY <1>4, <1>5, <1>6 DEF Field

\* The fields of a description have all of these ids.
Carries(meta, ids) ==
  \A i \in 1..Len(ids) : \E k \in 1..Len(meta.fields) : meta.fields[k].id = ids[i]

\* Then every id is given a name with this id, in order.
LEMMA NamedInOrder ==
    ASSUME NEW meta, WellNamed(meta), NEW ids \in Seq(Int), Carries(meta, ids)
    PROVE  Ids(Named(meta, ids)) = ids /\ (ids # <<>> => Named(meta, ids) # <<>>)
<1> DEFINE N == Len(ids)
           Name(i) == NameOf(meta, ids[i])
           D(g) == g = [n \in 0..N |-> IF n = 0 THEN <<>>
                                       ELSE IF Name(n) = 0 THEN g[n - 1]
                                       ELSE Append(g[n - 1], Name(n))]
           u == CHOOSE g : D(g)
           G(n) == [i \in 1..n |-> Name(i)]
<1>0. N \in Nat /\ DOMAIN ids = 1..N
  OBVIOUS
<1>1. ASSUME NEW i \in 1..N PROVE Name(i) \in Nat \ {0} /\ FieldId[Name(i)] = ids[i]
  <2>1. PICK k \in 1..Len(meta.fields) : meta.fields[k].id = ids[i]
    BY DEF Carries
  <2> QED BY <2>1, NameOfKnown
<1>2. Named(meta, ids) = u[N]
  BY DEF Named
<1> HIDE DEF Name
<1>3. G(0) = <<>>
  OBVIOUS
<1>4. ASSUME NEW n \in 1..N PROVE G(n) = Append(G(n - 1), Name(n))
  <2> DEFINE p == G(n - 1)
             x == Name(n)
  <2>1. n - 1 \in Nat /\ \A i \in 1..(n - 1) : i \in 1..N
    BY <1>0
  <2>2. p \in Seq(Nat) /\ Len(p) = n - 1 /\ \A i \in 1..(n - 1) : p[i] = Name(i)
    <3>1. p \in [1..(n - 1) -> Nat]
      BY <1>1, <2>1
    <3> QED BY <2>1, <3>1
  <2>3. x \in Nat
    BY <1>1
  <2> HIDE DEF p, x
  <2> DEFINE q == Append(p, x)
  <2>4. q = [i \in 1..n |-> q[i]] /\ q[n] = x /\ \A i \in 1..(n - 1) : q[i] = p[i]
    <3>1. q \in Seq(Nat) /\ Len(q) = Len(p) + 1 /\ q[Len(p) + 1] = x /\ \A i \in 1..Len(p) : q[i] = p[i]
      BY <2>2, <2>3
    <3>2. Len(p) = n - 1 /\ Len(p) + 1 = n
      BY <2>1, <2>2
    <3> HIDE DEF q
    <3> QED BY <3>1, <3>2
  <2>5. ASSUME NEW i \in 1..n PROVE q[i] = Name(i)
    <3>1. i \in 1..(n - 1) \/ i = n
      OBVIOUS
    <3> HIDE DEF q
    <3> QED BY <2>2, <2>4, <3>1 DEF x
  <2> HIDE DEF q
  <2>6. q = G(n)
    BY <2>4, <2>5
  <2> QED BY <2>6 DEF q, p, x
<1> HIDE DEF G
<1>5. D([n \in 0..N |-> G(n)])
  <2> DEFINE g == [n \in 0..N |-> G(n)]
  <2>1. ASSUME NEW n \in 0..N
        PROVE  G(n) = IF n = 0 THEN <<>> ELSE IF Name(n) = 0 THEN g[n - 1] ELSE Append(g[n - 1], Name(n))
    <3>1. CASE n = 0
      BY <1>3, <3>1
    <3>2. CASE n # 0
      <4>1. n \in 1..N /\ n - 1 \in 0..N
        BY <1>0, <3>2
      <4>2. g[n - 1] = G(n - 1) /\ Name(n) # 0
        BY <1>1, <4>1
      <4> HIDE DEF g
      <4> QED BY <1>4, <3>2, <4>1, <4>2
    <3> QED BY <3>1, <3>2, ZenonT(30)
  <2> QED BY <2>1
<1>6. D(u)
  <2> DEFINE g == [n \in 0..N |-> G(n)]
  <2>1. D(g)
    BY <1>5
  <2> HIDE DEF g
  <2> QED BY <2>1
<1> HIDE DEF u
<1> DEFINE T == {n \in Nat : n <= N => u[n] = G(n)}
<1>7. 0 \in T
  <2>1. 0 \in 0..N
    BY <1>0
  <2>2. u[0] = <<>>
    BY <1>6, <2>1
  <2> QED BY <1>3, <2>2
<1>8. ASSUME NEW n \in Nat, n \in T PROVE n + 1 \in T
  <2>1. SUFFICES ASSUME n + 1 <= N PROVE u[n + 1] = G(n + 1)
    OBVIOUS
  <2> DEFINE i == n + 1
  <2>2. i \in 1..N /\ i \in 0..N /\ i # 0 /\ i - 1 = n /\ n <= N
    BY <1>0, <2>1
  <2> HIDE DEF i
  <2>3. u[i] = Append(u[i - 1], Name(i))
    BY <1>1, <1>6, <2>2
  <2>4. u[i - 1] = G(i - 1)
    BY <1>8, <2>2
  <2>5. u[i] = G(i)
    BY <1>4, <2>2, <2>3, <2>4
  <2> QED BY <2>5 DEF i
<1> HIDE DEF T
<1>9. Nat \subseteq T
  BY <1>7, <1>8, Induct
<1>10. Named(meta, ids) = [i \in 1..N |-> Name(i)]
  <2>1. N \in T
    BY <1>0, <1>9
  <2>2. u[N] = G(N)
    BY <1>0, <2>1 DEF T
  <2> QED BY <1>2, <2>2 DEF G
<1> DEFINE names == [i \in 1..N |-> Name(i)]
<1>11. Len(names) = N
  <2>1. names \in [1..N -> Nat]
    BY <1>1
  <2>2. names \in Seq(Nat)
    BY <1>0, <2>1
  <2> HIDE DEF names
  <2> QED BY <1>0, <2>1, <2>2
<1>12. Ids(names) = ids
  <2>1. ids = [i \in 1..N |-> ids[i]]
    OBVIOUS
  <2>2. \A i \in 1..N : FieldId[names[i]] = ids[i]
    BY <1>1
  <2> HIDE DEF names
  <2> QED BY <1>11, <2>1, <2>2 DEF Ids
<1>13. ids # <<>> => names # <<>>
  <2>1. ids # <<>> => N # 0
    OBVIOUS
  <2> HIDE DEF names, N
  <2> QED BY <1>11, <2>1
<1> HIDE DEF names
<1> QED BY <1>10, <1>12, <1>13 DEF names

\* Merging two descriptions gives fields that have names and their ids, and
\* every id that either description has.
LEMMA MergeKeeps ==
    ASSUME NEW old, NEW new, WellNamed(old), WellNamed(new), NEW ids,
           Carries(old, ids) \/ Carries(new, ids)
    PROVE  WellNamed(Merge(old, new)) /\ Carries(Merge(old, new), ids)
<1> DEFINE o == old.fields
           w == new.fields
           all == Merge(old, new).fields
<1>1. all = AddMissing(o, w, {"name"})
  BY DEF Merge
<1>2. o \in Seq(Field) /\ w \in Seq(Field)
  BY DEF WellNamed
<1>3. /\ \A i \in 1..Len(o) : o[i].id = FieldId[o[i].name]
      /\ \A i \in 1..Len(w) : w[i].id = FieldId[w[i].name]
  BY DEF WellNamed
<1>4. \/ \A i \in 1..Len(ids) : \E k \in 1..Len(o) : o[k].id = ids[i]
      \/ \A i \in 1..Len(ids) : \E k \in 1..Len(w) : w[k].id = ids[i]
  BY DEF Carries
<1>5. Merge(old, new).fields = all
  OBVIOUS
<1> HIDE DEF o, w, all
<1>6. /\ all \in Seq(Field) /\ Len(o) <= Len(all)
      /\ \A k \in 1..Len(o) : all[k] = o[k]
      /\ \A i \in 1..Len(w) : \E k \in 1..Len(all) : all[k].name = w[i].name
      /\ \A k \in 1..Len(all) : k \in 1..Len(o) \/ \E i \in 1..Len(w) : all[k] = w[i]
  <2>1. Kept(all, o, w)
    BY <1>1, <1>2, AddMissingKeeps
  <2> QED BY <2>1 DEF Kept
<1>7. \A k \in 1..Len(all) : all[k].id = FieldId[all[k].name]
  BY <1>3, <1>6
<1>8. \A k \in 1..Len(o) : k \in 1..Len(all)
  BY <1>2, <1>6
<1>9. \A i \in 1..Len(ids) : \E k \in 1..Len(all) : all[k].id = ids[i]
  <2> SUFFICES ASSUME NEW i \in 1..Len(ids) PROVE \E k \in 1..Len(all) : all[k].id = ids[i]
    OBVIOUS
  <2>1. CASE \E k \in 1..Len(o) : o[k].id = ids[i]
    BY <1>6, <1>8, <2>1
  <2>2. CASE \E k \in 1..Len(w) : w[k].id = ids[i]
    <3>1. PICK j \in 1..Len(w) : w[j].id = ids[i]
      BY <2>2
    <3>2. PICK k \in 1..Len(all) : all[k].name = w[j].name
      BY <1>6
    <3> QED BY <1>3, <1>7, <3>1, <3>2
  <2> QED BY <1>4, <2>1, <2>2
<1> QED BY <1>5, <1>6, <1>7, <1>9 DEF WellNamed, Carries

\* A registry all of whose entries are such lists, and one that knows these
\* ids for the type.
Sound(known) == \A t \in DOMAIN known : WellNamed(known[t])
Knows(known, type, ids) == type \in DOMAIN known /\ Carries(known[type], ids)

\* register_type forgets no id, and knows those it is given.
LEMMA RegisterKeeps ==
    ASSUME NEW known, Sound(known), NEW id, NEW meta, WellNamed(meta), NEW new,
           new = RegisterType(known, id, meta)
    PROVE  /\ Sound(new)
           /\ \A type, ids : Knows(known, type, ids) => Knows(new, type, ids)
           /\ \A ids : Carries(meta, ids) => Knows(new, id, ids)
<1>1. DOMAIN new = DOMAIN known \cup {id}
  BY DEF RegisterType
<1>2. \A t \in DOMAIN known : t # id => new[t] = known[t]
  BY DEF RegisterType
<1>3. new[id] = IF id \in DOMAIN known THEN Merge(known[id], meta) ELSE meta
  BY DEF RegisterType
<1>4. Carries(meta, <<>>)
  BY DEF Carries
<1>5. id \in DOMAIN known => WellNamed(Merge(known[id], meta))
  BY <1>4, MergeKeeps DEF Sound
<1>6. Sound(new)
  BY <1>1, <1>2, <1>3, <1>5 DEF Sound
<1>7. ASSUME NEW type, NEW ids, Knows(known, type, ids) PROVE Knows(new, type, ids)
  <2>1. CASE type = id
    <3>1. WellNamed(known[id]) /\ Carries(known[id], ids) /\ id \in DOMAIN known
      BY <1>7, <2>1 DEF Knows, Sound
    <3>2. Carries(Merge(known[id], meta), ids)
      BY <3>1, MergeKeeps
    <3> QED BY <1>1, <1>3, <2>1, <3>1, <3>2 DEF Knows
  <2>2. CASE type # id
    BY <1>1, <1>2, <1>7, <2>2 DEF Knows
  <2> QED BY <2>1, <2>2
<1>8. ASSUME NEW ids, Carries(meta, ids) PROVE Knows(new, id, ids)
  <2>1. id \in DOMAIN known => Carries(Merge(known[id], meta), ids)
    BY <1>8, MergeKeeps DEF Sound
  <2> QED BY <1>1, <1>3, <1>8, <2>1 DEF Knows
<1> QED BY <1>6, <1>7, <1>8

\* A registry that knows the ids of a footer names its fields in its order.
LEMMA KnownIsNamed ==
    ASSUME NEW known, Sound(known), NEW type, NEW schema,
           NEW ids \in Seq(Int), ids # <<>>, Knows(known, type, ids)
    PROVE  /\ SchemaOf(known, type, schema, ids).ok
           /\ Ids(SchemaOf(known, type, schema, ids).fs) = ids
<1> DEFINE fs == Named(known[type], ids)
<1>1. Ids(fs) = ids /\ fs # <<>>
  BY NamedInOrder DEF Sound, Knows
<1> HIDE DEF fs
<1>2. SchemaForOrdered(known, type, ids) = Found(known[type].name, fs)
  BY <1>1 DEF SchemaForOrdered, Knows, fs
<1>3. Found(known[type].name, fs).ok /\ Found(known[type].name, fs).fs = fs
  BY DEF Found
<1>4. SchemaOf(known, type, schema, ids) = Found(known[type].name, fs)
  <2> HIDE DEF Found
  <2> QED BY <1>2, <1>3 DEF SchemaOf
<1> QED BY <1>1, <1>3, <1>4

\* The description of a schema has the ids of its fields.
LEMMA SchemaCarries ==
    ASSUME NEW ty, NEW fs \in Seq(DOMAIN FieldId \ {0}), NEW cs \in Seq(Int), Len(cs) = Len(fs),
           NEW meta, meta = RegisteredTypeFromSchema(ty, fs, cs)
    PROVE  WellNamed(meta) /\ Carries(meta, Ids(fs)) /\ Ids(fs) \in Seq(Int) /\ Len(Ids(fs)) = Len(fs)
<1> DEFINE N == Len(fs)
           fields == [i \in 1..N |-> [name |-> fs[i], code |-> cs[i], id |-> FieldId[fs[i]]]]
           ids == Ids(fs)
<1>1. N \in Nat /\ \A i \in 1..N : fs[i] \in Nat \ {0} /\ FieldId[fs[i]] \in Int /\ cs[i] \in Int
  BY NamesAssumption
<1>2. meta.fields = fields
  BY DEF RegisteredTypeFromSchema, NameOnly
<1>3. ids = [i \in 1..N |-> FieldId[fs[i]]]
  BY DEF Ids
<1>4. ids \in Seq(Int) /\ Len(ids) = N /\ \A i \in 1..N : ids[i] = FieldId[fs[i]]
  <2> HIDE DEF N, ids
  <2>1. ids \in [1..N -> Int]
    BY <1>1, <1>3
  <2> QED BY <1>1, <1>3, <2>1
<1>5. \A i \in 1..N : /\ fields[i] \in Field /\ fields[i].name = fs[i] /\ fields[i].id = FieldId[fs[i]]
  BY <1>1 DEF Field
<1>6. fields \in Seq(Field) /\ Len(fields) = N
  <2> DEFINE g == fields
  <2>1. g = [i \in 1..N |-> g[i]] /\ \A i \in 1..N : g[i] \in Field
    BY <1>5
  <2> HIDE DEF g, N
  <2>2. g \in [1..N -> Field]
    BY <2>1
  <2>3. g \in Seq(Field) /\ Len(g) = N
    BY <1>1, <2>2
  <2> QED BY <2>3 DEF g
<1> HIDE DEF fields, N, ids
<1>7. WellNamed(meta)
  BY <1>2, <1>5, <1>6 DEF WellNamed
<1>8. Carries(meta, ids)
  <2>1. \A i \in 1..Len(ids) : i \in 1..Len(fields) /\ fields[i].id = ids[i]
    BY <1>4, <1>5, <1>6
  <2>2. \A i \in 1..Len(ids) : \E k \in 1..Len(fields) : fields[k].id = ids[i]
    BY <2>1
  <2> QED BY <1>2, <2>2 DEF Carries
<1>9. ids \in Seq(Int) /\ Len(ids) = Len(fs)
  BY <1>4 DEF N
<1> QED BY <1>7, <1>8, <1>9 DEF ids

\* The registry h along any sequence of calls of register_type, what[n] being
\* the n-th, and steps that leave it alone, where every description gives each
\* field the id of its name.
History(h, what) ==
  /\ Sound(h[0])
  /\ \A n \in Nat : \/ h[n + 1] = h[n]
                    \/ /\ WellNamed(what[n].meta)
                       /\ h[n + 1] = RegisterType(h[n], what[n].id, what[n].meta)

\* Along any history of the registry, from the call with which a task registers
\* the schema of an object on, read_unwrapped finds a schema for this object
\* that names one field for each of its values, in their order and with their
\* ids: whatever is registered for the type later, before or in between, and
\* whatever schema id the object came with.
THEOREM OwnFieldsStayNamed ==
    ASSUME NEW h, NEW what, History(h, what),
           NEW ty, NEW fs \in Seq(DOMAIN FieldId \ {0}), fs # <<>>,
           NEW cs \in Seq(Int), Len(cs) = Len(fs),
           NEW m \in Nat, NEW type,
           h[m + 1] = RegisterType(h[m], type, RegisteredTypeFromSchema(ty, fs, cs)),
           NEW n \in Nat, m < n, NEW schema
    PROVE  /\ SchemaOf(h[n], type, schema, Ids(fs)).ok
           /\ Ids(SchemaOf(h[n], type, schema, Ids(fs)).fs) = Ids(fs)
<1> DEFINE ids == Ids(fs)
           meta == RegisteredTypeFromSchema(ty, fs, cs)
           S == {k \in Nat : Sound(h[k])}
           K == {k \in Nat : Knows(h[m + 1 + k], type, ids)}
<1>1. WellNamed(meta) /\ Carries(meta, ids) /\ ids \in Seq(Int) /\ Len(ids) = Len(fs)
  BY SchemaCarries
<1>2. ids # <<>>
  <2>1. Len(fs) # 0 /\ Len(<<>>) = 0
    OBVIOUS
  <2> QED BY <1>1, <2>1
<1> HIDE DEF meta, ids
<1>3. ASSUME NEW k \in Nat, Sound(h[k])
      PROVE  Sound(h[k + 1]) /\ (Knows(h[k], type, ids) => Knows(h[k + 1], type, ids))
  <2>1. CASE h[k + 1] = h[k]
    BY <1>3, <2>1
  <2>2. CASE WellNamed(what[k].meta) /\ h[k + 1] = RegisterType(h[k], what[k].id, what[k].meta)
    BY <1>3, <2>2, RegisterKeeps
  <2> QED BY <2>1, <2>2 DEF History
<1>4. Nat \subseteq S
  <2>1. 0 \in S /\ \A k \in Nat : k \in S => k + 1 \in S
    BY <1>3 DEF History
  <2> HIDE DEF S
  <2> QED BY <2>1, Induct, ZenonT(30)
<1>5. Knows(h[m + 1], type, ids)
  <2>1. Sound(h[m])
    BY <1>4
  <2> QED BY <1>1, <2>1, RegisterKeeps DEF meta
<1>6. Nat \subseteq K
  <2>1. 0 \in K
    <3>1. m + 1 + 0 = m + 1
      OBVIOUS
    <3> QED BY <1>5, <3>1
  <2>2. ASSUME NEW k \in Nat, k \in K PROVE k + 1 \in K
    <3> DEFINE j == m + 1 + k
    <3>1. j \in Nat /\ m + 1 + (k + 1) = j + 1 /\ k + 1 \in Nat
      OBVIOUS
    <3>2. Knows(h[j], type, ids)
      BY <2>2
    <3> HIDE DEF j
    <3>3. Sound(h[j])
      BY <1>4, <3>1
    <3>4. Knows(h[j + 1], type, ids)
      BY <1>3, <3>1, <3>2, <3>3
    <3> QED BY <3>1, <3>4, ZenonT(30)
  <2> HIDE DEF K
  <2> QED BY <2>1, <2>2, Induct
<1>7. Sound(h[n]) /\ Knows(h[n], type, ids)
  <2>1. n - m - 1 \in Nat /\ m + 1 + (n - m - 1) = n
    OBVIOUS
  <2>2. n - m - 1 \in K
    BY <1>6, <2>1
  <2> QED BY <1>4, <2>1, <2>2
<1>8. ids \in Seq(Int)
  BY <1>1
<1>9. SchemaOf(h[n], type, schema, ids).ok /\ Ids(SchemaOf(h[n], type, schema, ids).fs) = ids
  BY <1>2, <1>7, <1>8, KnownIsNamed
<1> QED BY <1>9 DEF ids
============================================================================
