--------------------------- MODULE ChannelProofs ---------------------------
(***************************************************************************)
(* Proofs about Channel, for any sets of calls, correlation ids and        *)
(* closers and any number of shards: what its invariants rest on, and that *)
(* it implements Call.  And what an operation of a transactional handle    *)
(* sends, for any nodes and placement of the keys.                         *)
(***************************************************************************)
EXTENDS Channel, Operations, TLAPS

\* A call that has not filed its slot yet: the slot is empty and nobody holds it.
Unfiled(r) ==
    /\ slot[r] = "empty"
    /\ r \notin InTable
    /\ \A a \in Actors : r \notin held[a]

\* Frames anywhere on their way out belong to calls that were made.
Outbound == Elems(queue) \cup Elems(batch) \cup written

CallsKeyed    == \A r \in Req : pc[r] # "idle" => corr[r] \in Corr
UnfiledEmpty  == \A r \in Req : pc[r] \in {"idle", "insert"} => Unfiled(r)
TableKeyed    == \A c \in Corr : table[c] # None => corr[table[c]] = c
OutboundMade  == \A r \in Outbound : pc[r] # "idle"

Ownership == FilledExactlyOnce /\ UnfiledEmpty /\ TableKeyed

\* The inductive strengthening of FilledExactlyOnce: a slot is filed once, under its
\* own id, so that taking it out of the table leaves no second way to reach it.
IInv == TypeOK /\ Ownership /\ CallsKeyed /\ OutboundMade

LEMMA ElemsAppend ==
    ASSUME NEW S, NEW s \in Seq(S), NEW e \in S
    PROVE  Elems(Append(s, e)) = Elems(s) \cup {e}
  BY DEF Elems

LEMMA ElemsPrefix ==
    ASSUME NEW S, NEW s \in Seq(S), NEW n \in 0..Len(s)
    PROVE  /\ SubSeq(s, 1, n) \in Seq(S)
           /\ Elems(SubSeq(s, 1, n)) \subseteq Elems(s)
  BY DEF Elems

LEMMA ElemsType ==
    ASSUME NEW S, NEW s \in Seq(S)
    PROVE  Elems(s) \subseteq S
  BY DEF Elems

LEMMA ElemsEmpty == Elems(<<>>) = {}
  BY DEF Elems

LEMMA EmptySeq == ASSUME NEW S PROVE <<>> \in Seq(S)
  OBVIOUS

LEMMA InitIInv == Init => IInv
  <1> SUFFICES ASSUME Init PROVE IInv
    OBVIOUS
  <1>1. TypeOK
    <2>1. /\ queue \in Seq(Req) /\ batch \in Seq(Req)
          /\ shard \in [Actors -> 0..ShardCount]
      BY ChannelAssumption DEF Init
    <2>2. /\ parked \in [Req -> BOOLEAN] /\ first \in [Actors -> BOOLEAN]
          /\ closed \in BOOLEAN /\ drained \in BOOLEAN
      BY DEF Init
    <2> QED
      BY <2>1, <2>2 DEF Init, TypeOK, Active, Marking
  <1>2. InTable = {} /\ \A a \in Actors : held[a] = {}
    BY ChannelAssumption DEF Init, InTable
  <1>3. Outbound = {}
    BY ElemsEmpty DEF Init, Outbound
  <1> QED
    BY <1>1, <1>2, <1>3 DEF Init, IInv, Ownership, FilledExactlyOnce, Unfiled, UnfiledEmpty,
        CallsKeyed, TableKeyed, OutboundMade
LEMMA NextType == IInv /\ [Next]_vars => TypeOK'
  <1> SUFFICES ASSUME IInv, [Next]_vars PROVE TypeOK'
    OBVIOUS
  <1>0. TypeOK
    BY DEF IInv
  <1>s. queue \in Seq(Req) /\ batch \in Seq(Req) /\ <<>> \in Seq(Req)
    BY <1>0, EmptySeq DEF TypeOK
  <1> USE <1>0 DEF callVars, wireVars, markVars
  <1>1. ASSUME NEW r \in Req, NEW c \in Corr, Request(r, c) PROVE TypeOK'
    BY <1>1 DEF TypeOK, Active, Marking, Request, MayUse
  <1>2. ASSUME NEW r \in Req, Insert(r) PROVE TypeOK'
    BY <1>2 DEF TypeOK, Active, Marking, Insert
  <1>3. ASSUME NEW r \in Req, Send(r) PROVE TypeOK'
    <2>1. queue \in Seq(Req)
      BY DEF TypeOK
    <2>2. queue' \in Seq(Req)
      BY <1>3, <2>1 DEF Send
    <2> QED
      BY <1>3, <2>2 DEF Send, TypeOK, Active
  <1>4. ASSUME NEW r \in Req, Poll(r) PROVE TypeOK'
    <2>1. parked' \in [Req -> BOOLEAN]
      BY <1>4, Zenon DEF Poll, TakeResult, TypeOK
    <2>2. CASE TakeResult(r)
      BY <1>4, <2>1, <2>2 DEF Poll, TakeResult, TypeOK, Active
    <2>3. CASE ~TakeResult(r)
      BY <1>4, <2>1, <2>3 DEF Poll, TypeOK, Active
    <2> QED
      BY <2>2, <2>3
  <1>5. ASSUME NEW r \in Req, TimerFires(r) PROVE TypeOK'
    <2>1. parked' \in [Req -> BOOLEAN]
      BY <1>5, Zenon DEF TimerFires, TakeResult, TypeOK
    <2>2. CASE TakeResult(r)
      BY <1>5, <2>1, <2>2 DEF TimerFires, TakeResult, TypeOK, Active
    <2>3. CASE ~TakeResult(r)
      BY <1>5, <2>1, <2>3 DEF TimerFires, TypeOK, Active
    <2> QED
      BY <2>2, <2>3
  <1>6. ASSUME NEW r \in Req, Cleanup(r) PROVE TypeOK'
    BY <1>6 DEF TypeOK, Active, Marking, Cleanup, Remove
  <1>7. ASSUME NEW r \in Req, Cancel(r) PROVE TypeOK'
    BY <1>7 DEF TypeOK, Active, Marking, Cancel
  <1>8. ASSUME WriterRecv PROVE TypeOK'
    <2>1. queue' \in Seq(Req) /\ batch' \in Seq(Req)
      BY <1>8, <1>s DEF WriterRecv
    <2> QED
      BY <1>8, <2>1 DEF WriterRecv, TypeOK
  <1>9. ASSUME WriteOk PROVE TypeOK'
    <2>1. Elems(batch) \subseteq Req
      BY <1>s, ElemsType
    <2>2. batch' \in Seq(Req)
      BY <1>9, <1>s DEF WriteOk
    <2> QED
      BY <1>9, <2>1, <2>2 DEF WriteOk, TypeOK
  <1>10. ASSUME NEW n \in 0..Len(batch), WriteFails(n) PROVE TypeOK'
    <2>1. Elems(SubSeq(batch, 1, n)) \subseteq Req
      BY <1>s, ElemsType, ElemsPrefix
    <2>2. batch' \in Seq(Req)
      BY <1>10, <1>s DEF WriteFails
    <2> QED
      BY <1>10, <2>1, <2>2 DEF WriteFails, MarkBroken, TypeOK, Marking
  <1>11. ASSUME NEW q \in Req, ReadResponse(q) PROVE TypeOK'
    <2>1. corr[q] \in Corr
      BY <1>11 DEF ReadResponse, IInv, CallsKeyed, OutboundMade, Outbound, TypeOK
    <2>2. CASE table[corr[q]] = None
      BY <1>11, <2>2 DEF ReadResponse, TypeOK
    <2>3. CASE table[corr[q]] # None
      <3>1. table[corr[q]] \in Req
        BY <2>1, <2>3 DEF TypeOK
      <3>2. held' \in [Actors -> SUBSET Req]
        <4>1. held' = [held EXCEPT !["reader"] = {table[corr[q]]}]
          BY <1>11, <2>3 DEF ReadResponse
        <4> QED
          BY <4>1, <3>1 DEF TypeOK
      <3>3. table' \in [Corr -> Req \cup {None}]
        BY <1>11, <2>3 DEF ReadResponse, Remove, TypeOK
      <3> QED
        BY <1>11, <2>3, <3>2, <3>3 DEF ReadResponse, TypeOK
    <2> QED
      BY <2>2, <2>3
  <1>12. ASSUME FillResponse PROVE TypeOK'
    <2>1. PICK r \in held["reader"] : Fill(r, "ok") /\ answer' = [answer EXCEPT ![r] = frame]
      BY <1>12 DEF FillResponse
    <2>2. parked' \in [Req -> BOOLEAN] /\ slot' \in [Req -> {"empty", "ok", "lost", "taken"}]
      BY <2>1 DEF Fill, TypeOK
    <2>3. answer' \in [Req -> Req \cup {None}]
      BY <2>1 DEF TypeOK
    <2> QED
      BY <1>12, <2>2, <2>3 DEF FillResponse, TypeOK
  <1>13. ASSUME ReadFails PROVE TypeOK'
    BY <1>13 DEF TypeOK, Active, Marking, ReadFails, MarkBroken
  <1>14. ASSUME NEW a \in Actors, Close(a) PROVE TypeOK'
    BY <1>14 DEF TypeOK, Active, Marking, Close, MarkBroken
  <1>15. ASSUME NEW a \in Actors, MarkRecord(a) PROVE TypeOK'
    <2>1. queue' \in Seq(Req)
      BY <1>15, <1>s DEF MarkRecord, Finish
    <2>2. aborted' \subseteq Actors
      BY <1>15 DEF MarkRecord, Finish, AbortedBy, TypeOK, Actors
    <2>3. task' \in [Actors -> {"idle", "recv", "write", "read", "fill", "dead"} \cup Marking]
      BY <1>15 DEF MarkRecord, Finish, TypeOK, Marking
    <2>4. UNCHANGED <<callVars, table, batch, written, answered, frame, closed, first,
                      shard, held, drained>>
      BY <1>15 DEF MarkRecord
    <2> QED
      BY <2>1, <2>2, <2>3, <2>4 DEF TypeOK
  <1>16. ASSUME NEW a \in Actors, TakeShard(a) PROVE TypeOK'
    <2>1. shard' \in [Actors -> 0..ShardCount]
      BY <1>16, ChannelAssumption DEF TakeShard, TypeOK
    <2>2. held' \in [Actors -> SUBSET Req] /\ table' \in [Corr -> Req \cup {None}]
      BY <1>16 DEF TakeShard, TypeOK
    <2> QED
      BY <1>16, <2>1, <2>2 DEF TakeShard, TypeOK
  <1>17. ASSUME NEW a \in Actors, NEW r \in Req, FillLost(a, r) PROVE TypeOK'
    BY <1>17 DEF TypeOK, Active, Marking, FillLost, Fill
  <1>18. ASSUME NEW a \in Actors, DrainEnd(a) PROVE TypeOK'
    BY <1>18 DEF TypeOK, Active, Marking, DrainEnd
  <1>19. ASSUME NEW a \in Actors, MarkNotify(a) PROVE TypeOK'
    <2>1. queue' \in Seq(Req)
      BY <1>19, <1>s DEF MarkNotify, Finish
    <2>2. aborted' \subseteq Actors
      BY <1>19 DEF MarkNotify, Finish, AbortedBy, TypeOK, Actors
    <2>3. task' \in [Actors -> {"idle", "recv", "write", "read", "fill", "dead"} \cup Marking]
      BY <1>19 DEF MarkNotify, Finish, TypeOK, Marking
    <2> QED
      BY <1>19, <2>1, <2>2, <2>3 DEF MarkNotify, TypeOK
  <1>20. ASSUME NEW a \in Actors, NEW n \in 0..Len(batch), Stop(a, n) PROVE TypeOK'
    <2>1. Elems(SubSeq(batch, 1, n)) \subseteq Req
      BY <1>s, ElemsType, ElemsPrefix
    <2>2. queue' \in Seq(Req) /\ batch' \in Seq(Req)
      BY <1>20, <1>s DEF Stop
    <2>3. written' \subseteq Req
      BY <1>20, <2>1 DEF Stop, TypeOK
    <2> QED
      BY <1>20, <2>2, <2>3 DEF Stop, TypeOK
  <1>21. CASE UNCHANGED vars
    BY <1>21 DEF TypeOK, Active, Marking, vars
  <1> QED
    BY <1>1, <1>2, <1>3, <1>4, <1>5, <1>6, <1>7, <1>8, <1>9, <1>10, <1>11, <1>12, <1>13, <1>14, <1>15, <1>16, <1>17, <1>18, <1>19, <1>20, <1>21 DEF Next, CallStep, WriterStep, MarkStep

\* A step that leaves the slots, the table and what the tasks hold alone, and takes
\* no call back before its Insert, preserves Ownership.
LEMMA OwnershipFrame ==
    ASSUME Ownership, UNCHANGED <<slot, table, held, corr>>,
           \A r \in Req : pc'[r] \in {"idle", "insert"} => pc[r] \in {"idle", "insert"}
    PROVE  Ownership'
  BY DEF Ownership, FilledExactlyOnce, UnfiledEmpty, Unfiled, TableKeyed, InTable

\* Filling a slot that one task holds, and giving it up.
LEMMA OwnershipFill ==
    ASSUME TypeOK, Ownership, NEW a \in Actors, NEW r \in held[a], NEW v, NEW H,
           H \subseteq held[a], r \notin H,
           slot' = [slot EXCEPT ![r] = v], held' = [held EXCEPT ![a] = H],
           UNCHANGED <<pc, corr, table>>
    PROVE  Ownership'
  <1>1. r \in Req /\ r \notin InTable /\ \A b \in Actors \ {a} : r \notin held[b]
    BY DEF TypeOK, Ownership, FilledExactlyOnce
  <1>2. InTable' = InTable
    BY DEF InTable
  <1>3. \A q \in Req : q # r => slot'[q] = slot[q]
    BY DEF TypeOK
  <1>4. held'[a] = H /\ \A b \in Actors \ {a} : held'[b] = held[b]
    BY DEF TypeOK
  <1>5. FilledExactlyOnce'
    BY <1>1, <1>2, <1>3, <1>4 DEF Ownership, FilledExactlyOnce
  <1>6. UnfiledEmpty'
    BY <1>1, <1>2, <1>3, <1>4 DEF Ownership, UnfiledEmpty, Unfiled
  <1>7. TableKeyed'
    BY DEF Ownership, TableKeyed
  <1> QED
    BY <1>5, <1>6, <1>7 DEF Ownership

\* Taking the slots filed under some ids out of the table.
LEMMA OwnershipTake ==
    ASSUME TypeOK, Ownership, NEW a \in Actors, NEW C \in SUBSET Corr,
           held' = [held EXCEPT ![a] = {r \in Req : \E c \in C : table[c] = r}],
           table' = [c \in Corr |-> IF c \in C THEN None ELSE table[c]],
           UNCHANGED <<pc, corr, slot>>
    PROVE  Ownership'
  <1> DEFINE H == {r \in Req : \E c \in C : table[c] = r}
  <1>1. H \subseteq InTable /\ InTable' \subseteq InTable
    BY ChannelAssumption DEF InTable
  <1>2. H \cap InTable' = {}
    BY ChannelAssumption DEF InTable, Ownership, TableKeyed
  <1>3. held'[a] = H /\ \A b \in Actors \ {a} : held'[b] = held[b]
    BY DEF TypeOK
  <1>4. \A b \in Actors : held[b] \cap InTable = {}
    BY DEF Ownership, FilledExactlyOnce
  <1>5. FilledExactlyOnce'
    BY <1>1, <1>2, <1>3, <1>4 DEF Ownership, FilledExactlyOnce
  <1>6. UnfiledEmpty'
    BY <1>1, <1>3 DEF Ownership, UnfiledEmpty, Unfiled
  <1>7. TableKeyed'
    BY DEF Ownership, TableKeyed
  <1> QED
    BY <1>5, <1>6, <1>7 DEF Ownership

\* Taking a slot out of the table and dropping it, or finding none to take.
LEMMA OwnershipDrop ==
    ASSUME TypeOK, Ownership, NEW c \in Corr, Remove(c),
           \A r \in Req : pc'[r] \in {"idle", "insert"} => pc[r] \in {"idle", "insert"},
           UNCHANGED <<corr, slot, held>>
    PROVE  Ownership'
  <1>1. InTable' \subseteq InTable
    BY ChannelAssumption DEF InTable, Remove, TypeOK
  <1>2. FilledExactlyOnce'
    BY <1>1 DEF Ownership, FilledExactlyOnce
  <1>3. UnfiledEmpty'
    BY <1>1 DEF Ownership, UnfiledEmpty, Unfiled
  <1>4. TableKeyed'
    BY DEF Ownership, TableKeyed, Remove, TypeOK
  <1> QED
    BY <1>2, <1>3, <1>4 DEF Ownership

\* Polling takes the result out of a slot that nobody can fill any more.
LEMMA OwnershipPoll ==
    ASSUME TypeOK, Ownership, NEW r \in Req, pc[r] = "wait", TakeResult(r),
           UNCHANGED <<corr, table, held>>
    PROVE  Ownership'
  <1>1. r \notin InTable /\ \A a \in Actors : r \notin held[a]
    BY DEF TakeResult, Ownership, FilledExactlyOnce
  <1>2. \A q \in Req : q # r => slot'[q] = slot[q] /\ pc'[q] = pc[q]
    BY DEF TakeResult, TypeOK
  <1>3. pc'[r] \notin {"idle", "insert"}
    BY DEF TakeResult, TypeOK
  <1> QED
    BY <1>1, <1>2, <1>3 DEF Ownership, FilledExactlyOnce, UnfiledEmpty, Unfiled, TableKeyed,
        InTable

LEMMA NextOwnership == IInv /\ [Next]_vars => Ownership'
  <1> SUFFICES ASSUME IInv, [Next]_vars PROVE Ownership'
    OBVIOUS
  <1>0. TypeOK /\ Ownership /\ CallsKeyed
    BY DEF IInv
  <1> USE <1>0 DEF callVars, wireVars, markVars
  <1>1. ASSUME NEW r \in Req, NEW c \in Corr, Request(r, c) PROVE Ownership'
    BY <1>1 DEF Request, TypeOK, Ownership, FilledExactlyOnce, UnfiledEmpty, Unfiled,
        TableKeyed, InTable
  <1>2. ASSUME NEW r \in Req, Insert(r) PROVE Ownership'
    <2>1. corr[r] \in Corr /\ Unfiled(r)
      BY <1>2 DEF Insert, CallsKeyed, Ownership, UnfiledEmpty
    <2>2. /\ table'[corr[r]] = r
          /\ \A c \in Corr : c # corr[r] => table'[c] = table[c]
      BY <1>2, <2>1 DEF Insert, TypeOK
    <2>3. InTable' \subseteq InTable \cup {r}
      BY <2>2 DEF InTable
    <2>4. FilledExactlyOnce'
      BY <1>2, <2>1, <2>3 DEF Insert, Ownership, FilledExactlyOnce, Unfiled
    <2>5. UnfiledEmpty'
      BY <1>2, <2>3 DEF Insert, TypeOK, Ownership, UnfiledEmpty, Unfiled
    <2>6. TableKeyed'
      BY <1>2, <2>2 DEF Insert, Ownership, TableKeyed
    <2> QED
      BY <2>4, <2>5, <2>6 DEF Ownership
  <1>3. ASSUME NEW r \in Req, Poll(r) PROVE Ownership'
    <2>1. CASE TakeResult(r)
      BY <1>3, <2>1, OwnershipPoll DEF Poll
    <2>2. CASE ~TakeResult(r)
      <3>1. \A q \in Req : pc'[q] \in {"idle", "insert"} => pc[q] \in {"idle", "insert"}
        BY <1>3, <2>2 DEF Poll, TypeOK
      <3>2. UNCHANGED <<slot, table, held, corr>>
        BY <1>3, <2>2 DEF Poll
      <3> QED
        BY <3>1, <3>2, OwnershipFrame
    <2> QED
      BY <2>1, <2>2
  <1>4. ASSUME NEW r \in Req, TimerFires(r) PROVE Ownership'
    <2>1. CASE TakeResult(r)
      BY <1>4, <2>1, OwnershipPoll DEF TimerFires
    <2>2. CASE ~TakeResult(r)
      <3>1. \A q \in Req : pc'[q] \in {"idle", "insert"} => pc[q] \in {"idle", "insert"}
        BY <1>4, <2>2 DEF TimerFires, TypeOK
      <3>2. UNCHANGED <<slot, table, held, corr>>
        BY <1>4, <2>2 DEF TimerFires
      <3> QED
        BY <3>1, <3>2, OwnershipFrame
    <2> QED
      BY <2>1, <2>2
  <1>5. ASSUME NEW r \in Req, Cleanup(r) PROVE Ownership'
    <2>1. corr[r] \in Corr
      BY <1>5 DEF Cleanup, CallsKeyed
    <2>2. \A q \in Req : pc'[q] \in {"idle", "insert"} => pc[q] \in {"idle", "insert"}
      BY <1>5 DEF Cleanup, TypeOK
    <2> QED
      BY <1>5, <2>1, <2>2, OwnershipDrop DEF Cleanup
  <1>6. ASSUME NEW q \in Req, ReadResponse(q) PROVE Ownership'
    <2>1. corr[q] \in Corr
      BY <1>6 DEF ReadResponse, IInv, CallsKeyed, OutboundMade, Outbound, TypeOK
    <2>2. CASE table[corr[q]] = None
      <3>1. UNCHANGED <<slot, table, held, corr, pc>>
        BY <1>6, <2>2 DEF ReadResponse
      <3> QED
        BY <3>1, OwnershipFrame
    <2>3. CASE table[corr[q]] # None
      <3>1. {table[corr[q]]} = {r \in Req : \E c \in {corr[q]} : table[c] = r}
        BY <2>1, <2>3 DEF TypeOK
      <3>2. table' = [c \in Corr |-> IF c \in {corr[q]} THEN None ELSE table[c]]
        BY <1>6, <2>1, <2>3 DEF ReadResponse, Remove, TypeOK
      <3>3. held' = [held EXCEPT !["reader"] = {table[corr[q]]}]
        BY <1>6, <2>3 DEF ReadResponse
      <3>4. {corr[q]} \in SUBSET Corr /\ "reader" \in Actors /\ UNCHANGED <<pc, corr, slot>>
        BY <1>6, <2>1 DEF ReadResponse, Actors
      <3> QED
        BY <3>1, <3>2, <3>3, <3>4, OwnershipTake, ZenonT(30)
    <2> QED
      BY <2>2, <2>3
  <1>7. ASSUME FillResponse PROVE Ownership'
    <2>1. PICK a \in Actors : a = "reader"
      BY DEF Actors
    <2>2. PICK r \in held[a] : Fill(r, "ok")
      BY <1>7, <2>1 DEF FillResponse
    <2>3. PICK v : slot' = [slot EXCEPT ![r] = v]
      BY <2>2 DEF Fill
    <2>4. PICK H : H = held[a] \ held[a]
      OBVIOUS
    <2>5. held' = [held EXCEPT ![a] = H] /\ UNCHANGED <<pc, corr, table>>
      BY <1>7, <2>1, <2>4 DEF FillResponse
    <2>6. r \in held[a] /\ H \subseteq held[a] /\ r \notin H
      BY <2>2, <2>4
    <2> QED
      BY <2>3, <2>5, <2>6, OwnershipFill
  <1>8. ASSUME NEW a \in Actors, NEW r \in Req, FillLost(a, r) PROVE Ownership'
    <2>1. PICK v : slot' = [slot EXCEPT ![r] = v]
      BY <1>8 DEF FillLost, Fill
    <2>2. /\ held' = [held EXCEPT ![a] = held[a] \ {r}] /\ r \in held[a]
          /\ UNCHANGED <<pc, corr, table>>
      BY <1>8 DEF FillLost
    <2>3. held[a] \ {r} \subseteq held[a] /\ r \notin held[a] \ {r}
      OBVIOUS
    <2> QED
      BY <2>1, <2>2, <2>3, OwnershipFill
  <1>9. ASSUME NEW a \in Actors, TakeShard(a) PROVE Ownership'
    <2> DEFINE C == {c \in Corr : InShard(c, shard[a])}
    <2>1. {r \in Req : \E c \in Corr : InShard(c, shard[a]) /\ table[c] = r}
            = {r \in Req : \E c \in C : table[c] = r}
      OBVIOUS
    <2>2. [c \in Corr |-> IF InShard(c, shard[a]) THEN None ELSE table[c]]
            = [c \in Corr |-> IF c \in C THEN None ELSE table[c]]
      OBVIOUS
    <2>3. C \in SUBSET Corr /\ UNCHANGED <<pc, corr, slot>>
      BY <1>9 DEF TakeShard
    <2>4. /\ held' = [held EXCEPT ![a] = {r \in Req : \E c \in C : table[c] = r}]
          /\ table' = [c \in Corr |-> IF c \in C THEN None ELSE table[c]]
      BY <1>9, <2>1, <2>2 DEF TakeShard
    <2> HIDE DEF C
    <2> QED
      BY <2>3, <2>4, OwnershipTake
  <1>10. ASSUME NEW r \in Req, Send(r) PROVE Ownership'
    <2>1. \A q \in Req : pc'[q] \in {"idle", "insert"} => pc[q] \in {"idle", "insert"}
      BY <1>10 DEF Send, TypeOK
    <2>2. UNCHANGED <<slot, table, held, corr>>
      BY <1>10 DEF Send
    <2> QED
      BY <2>1, <2>2, OwnershipFrame
  <1>11. ASSUME NEW r \in Req, Cancel(r) PROVE Ownership'
    <2>1. \A q \in Req : pc'[q] \in {"idle", "insert"} => pc[q] \in {"idle", "insert"}
      BY <1>11 DEF Cancel, TypeOK
    <2>2. UNCHANGED <<slot, table, held, corr>>
      BY <1>11 DEF Cancel
    <2> QED
      BY <2>1, <2>2, OwnershipFrame
  <1>12. ASSUME WriterRecv PROVE Ownership'
    <2>1. \A q \in Req : pc'[q] \in {"idle", "insert"} => pc[q] \in {"idle", "insert"}
      BY <1>12 DEF WriterRecv, TypeOK
    <2>2. UNCHANGED <<slot, table, held, corr>>
      BY <1>12 DEF WriterRecv
    <2> QED
      BY <2>1, <2>2, OwnershipFrame
  <1>13. ASSUME WriteOk PROVE Ownership'
    <2>1. \A q \in Req : pc'[q] \in {"idle", "insert"} => pc[q] \in {"idle", "insert"}
      BY <1>13 DEF WriteOk, TypeOK
    <2>2. UNCHANGED <<slot, table, held, corr>>
      BY <1>13 DEF WriteOk
    <2> QED
      BY <2>1, <2>2, OwnershipFrame
  <1>14. ASSUME NEW n \in 0..Len(batch), WriteFails(n) PROVE Ownership'
    <2>1. \A q \in Req : pc'[q] \in {"idle", "insert"} => pc[q] \in {"idle", "insert"}
      BY <1>14 DEF WriteFails, MarkBroken, TypeOK
    <2>2. UNCHANGED <<slot, table, held, corr>>
      BY <1>14 DEF WriteFails, MarkBroken
    <2> QED
      BY <2>1, <2>2, OwnershipFrame
  <1>15. ASSUME ReadFails PROVE Ownership'
    <2>1. \A q \in Req : pc'[q] \in {"idle", "insert"} => pc[q] \in {"idle", "insert"}
      BY <1>15 DEF ReadFails, MarkBroken, TypeOK
    <2>2. UNCHANGED <<slot, table, held, corr>>
      BY <1>15 DEF ReadFails, MarkBroken
    <2> QED
      BY <2>1, <2>2, OwnershipFrame
  <1>16. ASSUME NEW a \in Actors, Close(a) PROVE Ownership'
    <2>1. \A q \in Req : pc'[q] \in {"idle", "insert"} => pc[q] \in {"idle", "insert"}
      BY <1>16 DEF Close, MarkBroken, TypeOK
    <2>2. UNCHANGED <<slot, table, held, corr>>
      BY <1>16 DEF Close, MarkBroken
    <2> QED
      BY <2>1, <2>2, OwnershipFrame
  <1>17. ASSUME NEW a \in Actors, MarkRecord(a) PROVE Ownership'
    <2>1. \A q \in Req : pc'[q] \in {"idle", "insert"} => pc[q] \in {"idle", "insert"}
      BY <1>17 DEF MarkRecord, TypeOK
    <2>2. UNCHANGED <<slot, table, held, corr>>
      BY <1>17 DEF MarkRecord
    <2> QED
      BY <2>1, <2>2, OwnershipFrame
  <1>18. ASSUME NEW a \in Actors, DrainEnd(a) PROVE Ownership'
    <2>1. \A q \in Req : pc'[q] \in {"idle", "insert"} => pc[q] \in {"idle", "insert"}
      BY <1>18 DEF DrainEnd, TypeOK
    <2>2. UNCHANGED <<slot, table, held, corr>>
      BY <1>18 DEF DrainEnd
    <2> QED
      BY <2>1, <2>2, OwnershipFrame
  <1>19. ASSUME NEW a \in Actors, MarkNotify(a) PROVE Ownership'
    <2>1. \A q \in Req : pc'[q] \in {"idle", "insert"} => pc[q] \in {"idle", "insert"}
      BY <1>19 DEF MarkNotify, TypeOK
    <2>2. UNCHANGED <<slot, table, held, corr>>
      BY <1>19 DEF MarkNotify
    <2> QED
      BY <2>1, <2>2, OwnershipFrame
  <1>20. ASSUME NEW a \in Actors, NEW n \in 0..Len(batch), Stop(a, n) PROVE Ownership'
    <2>1. \A q \in Req : pc'[q] \in {"idle", "insert"} => pc[q] \in {"idle", "insert"}
      BY <1>20 DEF Stop, TypeOK
    <2>2. UNCHANGED <<slot, table, held, corr>>
      BY <1>20 DEF Stop
    <2> QED
      BY <2>1, <2>2, OwnershipFrame
  <1>21. CASE UNCHANGED vars
    BY <1>21, OwnershipFrame DEF vars
  <1> QED
    BY <1>1, <1>2, <1>3, <1>4, <1>5, <1>6, <1>7, <1>8, <1>9, <1>10, <1>11, <1>12, <1>13, <1>14, <1>15, <1>16, <1>17, <1>18, <1>19, <1>20, <1>21
       DEF Next, CallStep, WriterStep, MarkStep

\* No step takes a call back to idle or changes the id of a call that was made.
LEMMA NextCalls ==
    IInv /\ [Next]_vars =>
        /\ CallsKeyed'
        /\ \A r \in Req : pc[r] # "idle" => pc'[r] # "idle"
  <1> SUFFICES ASSUME IInv, [Next]_vars
               PROVE  /\ CallsKeyed'
                      /\ \A r \in Req : pc[r] # "idle" => pc'[r] # "idle"
    OBVIOUS
  <1> USE DEF IInv, callVars, CallsKeyed, TypeOK
  <1>1. ASSUME NEW r \in Req, NEW c \in Corr, Request(r, c)
        PROVE  CallsKeyed' /\ \A q \in Req : pc[q] # "idle" => pc'[q] # "idle"
    BY <1>1 DEF Request
  <1>2. ASSUME NEW r \in Req, CallStep(r) \/ Cancel(r)
        PROVE  CallsKeyed' /\ \A q \in Req : pc[q] # "idle" => pc'[q] # "idle"
    <2>1. corr' = corr /\ pc[r] # "idle" /\ pc'[r] # "idle"
            /\ \A q \in Req : q # r => pc'[q] = pc[q]
      BY <1>2 DEF CallStep, Insert, Send, Poll, TimerFires, TakeResult, Cleanup, Cancel
    <2> QED
      BY <2>1
  <1>3. CASE UNCHANGED <<pc, corr>>
    BY <1>3
  <1>4. ASSUME Next,
               ~(\E r \in Req, c \in Corr : Request(r, c)),
               ~(\E r \in Req : CallStep(r) \/ Cancel(r))
        PROVE  UNCHANGED <<pc, corr>>
    BY <1>4 DEF Next, WriterStep, WriterRecv, WriteOk, WriteFails, ReadResponse, FillResponse,
        ReadFails, Close, MarkStep, MarkRecord, TakeShard, FillLost, DrainEnd, MarkNotify, Stop
  <1> QED
    BY <1>1, <1>2, <1>3, <1>4 DEF vars

\* Only Send puts a frame on its way out.
LEMMA OutboundSteps ==
    IInv /\ [Next]_vars =>
        \/ Outbound' \subseteq Outbound
        \/ \E r \in Req : Send(r) /\ pc'[r] = "wait" /\ Outbound' \subseteq Outbound \cup {r}
  <1> SUFFICES ASSUME IInv, [Next]_vars,
                      ~\E r \in Req : /\ Send(r) /\ pc'[r] = "wait"
                                     /\ Outbound' \subseteq Outbound \cup {r}
               PROVE  Outbound' \subseteq Outbound
    OBVIOUS
  <1>0. queue \in Seq(Req) /\ batch \in Seq(Req) /\ TypeOK
    BY DEF IInv, TypeOK
  <1> USE DEF callVars, wireVars, markVars
  <1>2. ASSUME NEW r \in Req, Send(r) PROVE Outbound' \subseteq Outbound
    <2>1. CASE queue' = Append(queue, r) /\ pc' = [pc EXCEPT ![r] = "wait"]
      <3>1. Outbound' \subseteq Outbound \cup {r}
        BY <1>0, <1>2, <2>1, ElemsAppend DEF Send, Outbound
      <3>2. pc'[r] = "wait"
        BY <2>1, <1>0 DEF TypeOK
      <3> QED
        BY <1>2, <3>1, <3>2
    <2>2. CASE queue' = queue
      BY <1>2, <2>2 DEF Send, Outbound
    <2> QED
      BY <1>2, <2>1, <2>2 DEF Send
  <1>3. ASSUME NEW n \in 0..Len(batch), WriteFails(n) PROVE Outbound' \subseteq Outbound
    <2>1. Elems(SubSeq(batch, 1, n)) \subseteq Elems(batch)
      BY <1>0, ElemsPrefix
    <2> QED
      BY <1>3, <2>1, ElemsEmpty DEF WriteFails, Outbound
  <1>4. ASSUME NEW a \in Actors, NEW n \in 0..Len(batch), Stop(a, n)
        PROVE  Outbound' \subseteq Outbound
    <2>1. Elems(SubSeq(batch, 1, n)) \subseteq Elems(batch)
      BY <1>0, ElemsPrefix
    <2> QED
      BY <1>4, <2>1, ElemsEmpty DEF Stop, Outbound
  <1>5. ASSUME NEW a \in Actors, MarkStep(a) PROVE Outbound' \subseteq Outbound
    BY <1>5, ElemsEmpty DEF MarkStep, MarkRecord, TakeShard, FillLost, DrainEnd, MarkNotify,
        Finish, Outbound
  <1>6. CASE WriterRecv \/ WriteOk
    BY <1>6, ElemsEmpty DEF WriterRecv, WriteOk, Outbound
  <1>7. CASE UNCHANGED <<queue, batch, written>>
    BY <1>7 DEF Outbound
  <1>8. ASSUME NEW r \in Req, NEW c \in Corr, Request(r, c) PROVE Outbound' \subseteq Outbound
    BY <1>7, <1>8 DEF Request
  <1>9. ASSUME NEW r \in Req, CallStep(r) \/ Cancel(r) PROVE Outbound' \subseteq Outbound
    BY <1>2, <1>7, <1>9 DEF CallStep, Insert, Poll, TimerFires, Cleanup, Cancel
  <1>10. ASSUME NEW q \in Req, ReadResponse(q) PROVE Outbound' \subseteq Outbound
    BY <1>7, <1>10 DEF ReadResponse
  <1>11. CASE FillResponse \/ ReadFails \/ \E a \in Actors : Close(a)
    BY <1>7, <1>11 DEF FillResponse, ReadFails, Close
  <1>12. CASE UNCHANGED vars
    BY <1>7, <1>12 DEF vars
  <1> QED
    BY <1>3, <1>4, <1>5, <1>6, <1>8, <1>9, <1>10, <1>11, <1>12 DEF Next, WriterStep

LEMMA NextOutbound == IInv /\ [Next]_vars => OutboundMade'
  <1> SUFFICES ASSUME IInv, [Next]_vars PROVE OutboundMade'
    OBVIOUS
  <1>1. Outbound \subseteq Req /\ OutboundMade /\ \A r \in Req : pc[r] # "idle" => pc'[r] # "idle"
    BY NextCalls, ElemsType DEF IInv, TypeOK, Outbound
  <1>2. CASE Outbound' \subseteq Outbound
    BY <1>1, <1>2 DEF OutboundMade
  <1>3. ASSUME NEW r \in Req, Send(r), Outbound' \subseteq Outbound \cup {r} PROVE OutboundMade'
    <2>1. pc[r] # "idle"
      BY <1>3 DEF Send
    <2> QED
      BY <1>1, <1>3, <2>1 DEF OutboundMade
  <1> QED
    BY <1>2, <1>3, OutboundSteps

LEMMA NextIInv == IInv /\ [Next]_vars => IInv'
  BY NextType, NextOwnership, NextCalls, NextOutbound DEF IInv

\* The types of the variables, in every reachable state.
THEOREM TypeCorrect == Spec => []TypeOK
  <1>1. IInv => TypeOK
    BY DEF IInv
  <1> QED
    BY <1>1, InitIInv, NextIInv, PTL DEF Spec

\* Whatever the interleaving of responses, timeouts, dropped futures, closers and
\* the drains of mark_broken, each slot has at most one task that can fill it, and
\* InFlightSlot::fill finds it empty: a slot is filled at most once.
THEOREM FillIsExclusive == Spec => []FilledExactlyOnce
  <1>1. IInv => FilledExactlyOnce
    BY DEF IInv, Ownership
  <1> QED
    BY <1>1, InitIInv, NextIInv, PTL DEF Spec

----------------------------------------------------------------------------
(* Channel implements Call; and, from the same invariant, no caller misses *)
(* its wakeup and the table keeps no slot of a call that is over.          *)

\* A call whose frame was not handed to the writer pump.
Unposted == {"idle", "insert", "send", "unsent", "refused"}

UnpostedInside == \A r \in Req : pc[r] \in Unposted => r \notin Outbound

\* A frame is in one place on its way out, so that none is written twice.
OnePlace ==
    /\ Elems(queue) \cap written = {} /\ Elems(batch) \cap written = {}
    /\ Elems(queue) \cap Elems(batch) = {}
    /\ task["writer"] # "write" => batch = <<>>

\* What fills a slot as a reply is a frame the server answered.
Replied ==
    /\ answered \subseteq written
    /\ task["reader"] = "fill" => frame \in answered
    /\ \A r \in Req : slot[r] = "ok" => answer[r] \in answered

Sleepers == \A r \in Req : parked[r] => slot[r] = "empty"

RInv == IInv /\ UnpostedInside /\ OnePlace /\ Replied /\ Sleepers /\ NoOrphanSlot

LEMMA InitRInv == Init => RInv
  <1> SUFFICES ASSUME Init PROVE RInv
    OBVIOUS
  <1>1. IInv /\ Outbound = {} /\ Elems(queue) = {} /\ Elems(batch) = {}
    BY InitIInv, ElemsEmpty DEF Init, Outbound
  <1>2. OnePlace /\ Replied
    BY <1>1 DEF Init, OnePlace, Replied, Actors
  <1>3. Sleepers
    BY DEF Init, Sleepers
  <1>4. NoOrphanSlot
    BY DEF Init, NoOrphanSlot
  <1> QED
    BY <1>1, <1>2, <1>3, <1>4 DEF RInv, UnpostedInside

\* A call that was posted stays so.
LEMMA PostedStays ==
    IInv /\ [Next]_vars => \A r \in Req : pc'[r] \in Unposted => pc[r] \in Unposted
  <1> SUFFICES ASSUME IInv, [Next]_vars
               PROVE  \A r \in Req : pc'[r] \in Unposted => pc[r] \in Unposted
    OBVIOUS
  <1> USE DEF IInv, callVars, TypeOK, Unposted
  <1>1. ASSUME NEW r \in Req, NEW c \in Corr, Request(r, c)
        PROVE  \A q \in Req : pc'[q] \in Unposted => pc[q] \in Unposted
    BY <1>1 DEF Request
  <1>2. ASSUME NEW r \in Req, CallStep(r) \/ Cancel(r)
        PROVE  \A q \in Req : pc'[q] \in Unposted => pc[q] \in Unposted
    <2>1. pc'[r] \in Unposted => pc[r] \in Unposted
      BY <1>2 DEF CallStep, Insert, Send, Poll, TimerFires, TakeResult, Cleanup, Cancel
    <2>2. \A q \in Req : q # r => pc'[q] = pc[q]
      BY <1>2 DEF CallStep, Insert, Send, Poll, TimerFires, TakeResult, Cleanup, Cancel
    <2> QED
      BY <2>1, <2>2
  <1>3. CASE UNCHANGED pc
    BY <1>3
  <1>4. ASSUME Next,
               ~(\E r \in Req, c \in Corr : Request(r, c)),
               ~(\E r \in Req : CallStep(r) \/ Cancel(r))
        PROVE  UNCHANGED pc
    BY <1>4 DEF Next, WriterStep, WriterRecv, WriteOk, WriteFails, ReadResponse, FillResponse,
        ReadFails, Close, MarkStep, MarkRecord, TakeShard, FillLost, DrainEnd, MarkNotify, Stop
  <1> QED
    BY <1>1, <1>2, <1>3, <1>4 DEF vars

LEMMA NextUnposted == RInv /\ [Next]_vars => UnpostedInside'
  <1> SUFFICES ASSUME RInv, [Next]_vars PROVE UnpostedInside'
    OBVIOUS
  <1>1. UnpostedInside /\ \A r \in Req : pc'[r] \in Unposted => pc[r] \in Unposted
    BY PostedStays DEF RInv
  <1>2. CASE Outbound' \subseteq Outbound
    BY <1>1, <1>2 DEF UnpostedInside
  <1>3. ASSUME NEW r \in Req, pc'[r] = "wait", Outbound' \subseteq Outbound \cup {r}
        PROVE  UnpostedInside'
    BY <1>1, <1>3 DEF UnpostedInside, Unposted
  <1> QED
    BY <1>2, <1>3, OutboundSteps DEF RInv

LEMMA NextOnePlace == RInv /\ [Next]_vars => OnePlace'
  <1> SUFFICES ASSUME RInv, [Next]_vars PROVE OnePlace'
    OBVIOUS
  <1>0. /\ queue \in Seq(Req) /\ batch \in Seq(Req) /\ OnePlace /\ UnpostedInside
        /\ task \in [Actors -> {"idle", "recv", "write", "read", "fill", "dead"} \cup Marking]
        /\ "writer" \in Actors /\ "reader" \in Actors
    BY DEF RInv, IInv, TypeOK, Actors
  <1> USE DEF callVars, wireVars, markVars
  <1>1. ASSUME NEW r \in Req, Send(r) PROVE OnePlace'
    <2>1. r \notin Outbound
      BY <1>0, <1>1 DEF Send, UnpostedInside, Unposted
    <2>2. Elems(queue') \subseteq Elems(queue) \cup {r}
      <3>1. queue' = Append(queue, r) \/ queue' = queue
        BY <1>1 DEF Send
      <3>2. Elems(Append(queue, r)) = Elems(queue) \cup {r}
        BY <1>0, ElemsAppend
      <3> QED
        BY <3>1, <3>2
    <2>3. UNCHANGED <<batch, written, task>>
      BY <1>1 DEF Send
    <2> QED
      BY <1>0, <2>1, <2>2, <2>3 DEF OnePlace, Outbound
  <1>2. ASSUME WriterRecv PROVE OnePlace'
    <2>1. batch' = queue /\ queue' = <<>> /\ written' = written /\ task'["writer"] = "write"
      BY <1>0, <1>2 DEF WriterRecv
    <2> QED
      BY <1>0, <2>1, ElemsEmpty DEF OnePlace
  <1>3. ASSUME NEW S, written' = written \cup S, S \subseteq Elems(batch), batch' = <<>>,
               queue' = queue \/ queue' = <<>>
        PROVE  OnePlace'
    BY <1>0, <1>3, ElemsEmpty DEF OnePlace
  <1>4. CASE WriteOk
    BY <1>3, <1>4 DEF WriteOk
  <1>5. ASSUME NEW n \in 0..Len(batch), WriteFails(n) PROVE OnePlace'
    BY <1>0, <1>3, <1>5, ElemsPrefix DEF WriteFails
  <1>6. ASSUME NEW a \in Actors, NEW n \in 0..Len(batch), Stop(a, n) PROVE OnePlace'
    <2>1. CASE a = "writer"
      BY <1>0, <1>3, <1>6, <2>1, ElemsPrefix DEF Stop
    <2>2. CASE a # "writer"
      BY <1>0, <1>6, <2>2 DEF Stop, OnePlace
    <2> QED
      BY <2>1, <2>2
  <1>7. ASSUME UNCHANGED <<batch, written>>, queue' = queue \/ queue' = <<>>,
               task'["writer"] = "write" => task["writer"] = "write",
               task["writer"] = "write" => task'["writer"] = "write"
        PROVE  OnePlace'
    BY <1>0, <1>7, ElemsEmpty DEF OnePlace
  <1>8. ASSUME NEW a \in Actors, MarkStep(a) \/ Close(a) PROVE OnePlace'
    BY <1>0, <1>7, <1>8 DEF MarkStep, MarkRecord, TakeShard, FillLost, DrainEnd, MarkNotify,
        Finish, Close, MarkBroken, Actors
  <1>9. CASE FillResponse \/ ReadFails \/ \E q \in Req : ReadResponse(q)
    BY <1>0, <1>7, <1>9 DEF FillResponse, ReadFails, ReadResponse, MarkBroken
  <1>10. ASSUME NEW r \in Req, (\E c \in Corr : Request(r, c)) \/ Insert(r) \/ Poll(r)
                               \/ TimerFires(r) \/ Cleanup(r) \/ Cancel(r)
         PROVE  OnePlace'
    BY <1>7, <1>10 DEF Request, Insert, Poll, TimerFires, Cleanup, Cancel
  <1>11. CASE UNCHANGED vars
    BY <1>7, <1>11 DEF vars
  <1> QED
    BY <1>1, <1>2, <1>4, <1>5, <1>6, <1>8, <1>9, <1>10, <1>11 DEF Next, CallStep, WriterStep

LEMMA NextReplied == RInv /\ [Next]_vars => Replied'
  <1> SUFFICES ASSUME RInv, [Next]_vars PROVE Replied'
    OBVIOUS
  <1>0. TypeOK /\ Replied /\ "reader" \in Actors /\ "writer" \in Actors
    BY DEF RInv, IInv, Actors
  <1> USE DEF callVars, wireVars, markVars
  <1>1. ASSUME answered' = answered, written \subseteq written', frame' = frame,
               answer' = answer,
               task'["reader"] = "fill" => task["reader"] = "fill",
               \A r \in Req : slot'[r] = "ok" => slot[r] = "ok"
        PROVE  Replied'
    BY <1>0, <1>1 DEF Replied
  <1>2. ASSUME NEW q \in Req, ReadResponse(q) PROVE Replied'
    <2>1. /\ answered' = answered \cup {q} /\ q \in written /\ UNCHANGED <<written, slot, answer>>
          /\ \/ frame' = q
             \/ frame' = frame /\ task' = task
      BY <1>2 DEF ReadResponse
    <2> QED
      BY <1>0, <2>1 DEF Replied
  <1>3. ASSUME FillResponse PROVE Replied'
    <2>1. PICK r \in held["reader"] : Fill(r, "ok") /\ answer' = [answer EXCEPT ![r] = frame]
      BY <1>3, ZenonT(30) DEF FillResponse
    <2>2. UNCHANGED <<answered, written>> /\ task'["reader"] = "read" /\ frame \in answered
      BY <1>0, <1>3 DEF FillResponse, Replied, TypeOK
    <2>3. \A q \in Req : slot'[q] = "ok" => answer'[q] \in answered
      BY <1>0, <2>1, <2>2 DEF Fill, TypeOK, Replied
    <2> QED
      BY <1>0, <2>2, <2>3 DEF Replied
  <1>4. ASSUME NEW a \in Actors, NEW r \in Req, FillLost(a, r) PROVE Replied'
    <2>1. \A q \in Req : slot'[q] = "ok" => slot[q] = "ok"
      BY <1>0, <1>4 DEF FillLost, Fill, TypeOK
    <2> QED
      BY <1>1, <1>4, <2>1 DEF FillLost
  <1>5. ASSUME NEW r \in Req, Poll(r) \/ TimerFires(r) PROVE Replied'
    <2>1. \A q \in Req : slot'[q] = "ok" => slot[q] = "ok"
      BY <1>0, <1>5 DEF Poll, TimerFires, TakeResult, TypeOK
    <2> QED
      BY <1>1, <1>5, <2>1 DEF Poll, TimerFires
  <1>6. ASSUME NEW r \in Req, (\E c \in Corr : Request(r, c)) \/ Insert(r) \/ Send(r)
                              \/ Cleanup(r) \/ Cancel(r)
        PROVE  Replied'
    BY <1>1, <1>6 DEF Request, Insert, Send, Cleanup, Cancel
  <1>7. CASE WriterStep
    BY <1>0, <1>1, <1>7 DEF WriterStep, WriterRecv, WriteOk, WriteFails, MarkBroken, TypeOK
  <1>8. CASE ReadFails
    BY <1>0, <1>1, <1>8 DEF ReadFails, MarkBroken, TypeOK
  <1>9. ASSUME NEW a \in Actors, MarkRecord(a) \/ TakeShard(a) \/ DrainEnd(a) \/ MarkNotify(a)
                                 \/ Close(a) \/ \E n \in 0..Len(batch) : Stop(a, n)
        PROVE  Replied'
    <2>1. task'["reader"] = "fill" => task["reader"] = "fill"
      BY <1>0, <1>9 DEF MarkRecord, TakeShard, DrainEnd, MarkNotify, Finish, Close, MarkBroken,
          Stop, TypeOK
    <2>2. written \subseteq written' /\ UNCHANGED <<answered, frame, answer, slot>>
      BY <1>9 DEF MarkRecord, TakeShard, DrainEnd, MarkNotify, Close, Stop
    <2> QED
      BY <1>1, <2>1, <2>2
  <1>10. CASE UNCHANGED vars
    BY <1>1, <1>10 DEF vars
  <1> QED
    BY <1>2, <1>3, <1>4, <1>5, <1>6, <1>7, <1>8, <1>9, <1>10 DEF Next, CallStep, MarkStep

LEMMA NextSleepers == RInv /\ [Next]_vars => Sleepers'
  <1> SUFFICES ASSUME RInv, [Next]_vars PROVE Sleepers'
    OBVIOUS
  <1>0. TypeOK /\ Sleepers
    BY DEF RInv, IInv
  <1> USE DEF callVars
  <1>1. ASSUME NEW r \in Req, NEW v, Fill(r, v) PROVE Sleepers'
    BY <1>0, <1>1 DEF Fill, TypeOK, Sleepers
  <1>2. CASE FillResponse
    BY <1>0, <1>1, <1>2 DEF FillResponse, TypeOK, Actors
  <1>3. ASSUME NEW a \in Actors, NEW r \in Req, FillLost(a, r) PROVE Sleepers'
    BY <1>1, <1>3 DEF FillLost
  <1>4. ASSUME NEW r \in Req, TakeResult(r) PROVE Sleepers'
    BY <1>0, <1>4 DEF TakeResult, TypeOK, Sleepers
  <1>5. ASSUME NEW r \in Req, Poll(r) \/ TimerFires(r) PROVE Sleepers'
    <2>1. CASE TakeResult(r)
      BY <1>4, <2>1
    <2>2. CASE ~TakeResult(r)
      <3>1. \A q \in Req : slot'[q] = slot[q] /\ (parked'[q] => parked[q] \/ slot[q] = "empty")
        BY <1>0, <1>5, <2>2, ZenonT(30) DEF Poll, TimerFires, TypeOK
      <3> QED
        BY <1>0, <3>1 DEF Sleepers
    <2> QED
      BY <2>1, <2>2
  <1>6. CASE UNCHANGED <<slot, parked>>
    BY <1>0, <1>6 DEF Sleepers
  <1>7. ASSUME NEW r \in Req, (\E c \in Corr : Request(r, c)) \/ Insert(r) \/ Send(r)
                              \/ Cleanup(r) \/ Cancel(r)
        PROVE  Sleepers'
    BY <1>6, <1>7 DEF Request, Insert, Send, Cleanup, Cancel
  <1>8. CASE WriterStep \/ ReadFails \/ \E q \in Req : ReadResponse(q)
    BY <1>6, <1>8 DEF WriterStep, WriterRecv, WriteOk, WriteFails, ReadFails, ReadResponse
  <1>9. ASSUME NEW a \in Actors, MarkRecord(a) \/ TakeShard(a) \/ DrainEnd(a) \/ MarkNotify(a)
                                 \/ Close(a) \/ \E n \in 0..Len(batch) : Stop(a, n)
        PROVE  Sleepers'
    BY <1>6, <1>9 DEF MarkRecord, TakeShard, DrainEnd, MarkNotify, Close, Stop
  <1>10. CASE UNCHANGED vars
    BY <1>6, <1>10 DEF vars
  <1> QED
    BY <1>2, <1>3, <1>5, <1>7, <1>8, <1>9, <1>10 DEF Next, CallStep, MarkStep

LEMMA NextOrphans == RInv /\ [Next]_vars => NoOrphanSlot'
  <1> DEFINE Filed == {"send", "wait", "unsent", "cleanup", "cancelled"}
  <1> SUFFICES ASSUME RInv, [Next]_vars PROVE NoOrphanSlot'
    OBVIOUS
  <1>0. TypeOK /\ Ownership /\ CallsKeyed /\ NoOrphanSlot /\ TableKeyed'
    BY NextOwnership DEF RInv, IInv, Ownership
  <1>t. \A c \in Corr : table[c] # None => table[c] \in Req /\ table[c] \in InTable
    BY <1>0 DEF TypeOK, InTable
  <1> USE DEF callVars, wireVars, markVars
  \* No slot is filed, and whoever stays filed goes on waiting.
  <1>1. ASSUME \A c \in Corr : table'[c] = table[c] \/ table'[c] = None,
               \A c \in Corr : table'[c] # None => pc'[table[c]] \in Filed \/ pc' = pc
        PROVE  NoOrphanSlot'
    BY <1>0, <1>1 DEF NoOrphanSlot, TableKeyed
  <1>2. ASSUME NEW r \in Req, Insert(r) PROVE NoOrphanSlot'
    <2>1. corr[r] \in Corr /\ pc'[r] = "send" /\ \A q \in Req : q # r => pc'[q] = pc[q]
      BY <1>0, <1>2 DEF Insert, CallsKeyed, TypeOK
    <2>2. \A c \in Corr : table'[c] = table[c] \/ table'[c] = r
      BY <1>0, <1>2, <2>1 DEF Insert, TypeOK
    <2> QED
      BY <1>0, <1>t, <2>1, <2>2 DEF NoOrphanSlot, TableKeyed
  <1>3. ASSUME NEW r \in Req, NEW c \in Corr, Request(r, c) PROVE NoOrphanSlot'
    <2>1. r \notin InTable
      BY <1>0, <1>3 DEF Request, Ownership, UnfiledEmpty, Unfiled
    <2>2. table' = table /\ \A q \in Req : q # r => pc'[q] = pc[q]
      BY <1>0, <1>3 DEF Request, TypeOK
    <2> QED
      BY <1>0, <1>t, <2>1, <2>2 DEF NoOrphanSlot, TableKeyed
  <1>4. ASSUME NEW r \in Req, pc[r] = "wait", TakeResult(r), table' = table PROVE NoOrphanSlot'
    <2>1. r \notin InTable
      BY <1>0, <1>4 DEF TakeResult, Ownership, FilledExactlyOnce
    <2>2. \A q \in Req : q # r => pc'[q] = pc[q]
      BY <1>0, <1>4 DEF TakeResult, TypeOK
    <2> QED
      BY <1>0, <1>t, <1>4, <2>1, <2>2 DEF NoOrphanSlot, TableKeyed
  <1>5. ASSUME NEW r \in Req, Cleanup(r) PROVE NoOrphanSlot'
    <2>1. corr[r] \in Corr
      BY <1>0, <1>5 DEF Cleanup, CallsKeyed
    <2>2. \A q \in Req : q # r => pc'[q] = pc[q]
      BY <1>0, <1>5 DEF Cleanup, TypeOK
    <2>3. \A c \in Corr : table'[c] # None => table'[c] = table[c] /\ table[c] # r
      BY <1>0, <1>5, <2>1 DEF Cleanup, Remove, TypeOK, Ownership, TableKeyed
    <2> QED
      BY <1>0, <1>t, <2>2, <2>3 DEF NoOrphanSlot, TableKeyed
  <1>6. ASSUME NEW r \in Req, table' = table, pc'[r] \in Filed,
               \A q \in Req : q # r => pc'[q] = pc[q]
        PROVE  NoOrphanSlot'
    BY <1>0, <1>t, <1>6 DEF NoOrphanSlot, TableKeyed
  <1>7. ASSUME NEW r \in Req, Send(r) \/ Cancel(r) PROVE NoOrphanSlot'
    BY <1>0, <1>6, <1>7 DEF Send, Cancel, TypeOK
  <1>8. ASSUME NEW r \in Req, Poll(r) \/ TimerFires(r) PROVE NoOrphanSlot'
    <2>1. CASE TakeResult(r)
      BY <1>4, <1>8, <2>1 DEF Poll, TimerFires
    <2>2. CASE ~TakeResult(r)
      BY <1>0, <1>6, <1>8, <2>2 DEF Poll, TimerFires, TypeOK
    <2> QED
      BY <2>1, <2>2
  <1>9. ASSUME NEW q \in Req, ReadResponse(q) PROVE NoOrphanSlot'
    BY <1>0, <1>1, <1>9 DEF ReadResponse, Remove, TypeOK
  <1>10. ASSUME NEW a \in Actors, TakeShard(a) PROVE NoOrphanSlot'
    BY <1>1, <1>10 DEF TakeShard
  <1>11. CASE UNCHANGED <<pc, table>>
    BY <1>1, <1>11
  <1>12. CASE WriterStep \/ ReadFails \/ FillResponse
    BY <1>11, <1>12 DEF WriterStep, WriterRecv, WriteOk, WriteFails, ReadFails, FillResponse
  <1>13. ASSUME NEW a \in Actors, MarkRecord(a) \/ (\E r \in Req : FillLost(a, r)) \/ DrainEnd(a)
                 \/ MarkNotify(a) \/ Close(a) \/ \E n \in 0..Len(batch) : Stop(a, n)
         PROVE  NoOrphanSlot'
    BY <1>11, <1>13 DEF MarkRecord, FillLost, DrainEnd, MarkNotify, Close, Stop
  <1>14. CASE UNCHANGED vars
    BY <1>11, <1>14 DEF vars
  <1> QED
    BY <1>2, <1>3, <1>5, <1>7, <1>8, <1>9, <1>10, <1>12, <1>13, <1>14
       DEF Next, CallStep, MarkStep

LEMMA NextRInv == RInv /\ [Next]_vars => RInv'
  BY NextIInv, NextUnposted, NextOnePlace, NextReplied, NextSleepers, NextOrphans DEF RInv

LEMMA AlwaysRInv == Spec => []RInv
  BY InitRInv, NextRInv, PTL DEF Spec

----------------------------------------------------------------------------
(* The refinement *)

\* What the caller of one call sees changes with its pc alone.
LEMMA StatusMoves ==
    ASSUME TypeOK, NEW r \in Req, NEW p, pc' = [pc EXCEPT ![r] = p]
    PROVE  /\ pc'[r] = p
           /\ CallStatus' = [CallStatus EXCEPT ![r] = CallStatus'[r]]
  <1>1. pc'[r] = p /\ \A q \in Req : q # r => pc'[q] = pc[q]
    BY DEF TypeOK
  <1>2. \A q \in Req : q # r => CallStatus'[q] = CallStatus[q]
    BY <1>1 DEF CallStatus
  <1>3. DOMAIN CallStatus = Req /\ DOMAIN CallStatus' = Req
    BY DEF CallStatus
  <1>4. CallStatus' = [q \in Req |-> CallStatus'[q]]
    BY DEF CallStatus
  <1> QED
    BY <1>1, <1>2, <1>3, <1>4

LEMMA StatusOfCall ==
    ASSUME NEW r \in Req
    PROVE  /\ pc[r] = "idle" => CallStatus[r] = "idle"
           /\ pc[r] = "ok" => CallStatus[r] = "ok"
           /\ pc[r] = "err" => CallStatus[r] = "failed"
           /\ pc[r] = "refused" => CallStatus[r] = "refused"
           /\ pc[r] = "cancelled" => CallStatus[r] = "abandoned"
           /\ pc[r] \in Active => CallStatus[r] = "open"
           /\ CallStatus[r] \in {"idle", "refused"} => pc[r] \in Unposted
  BY DEF CallStatus, Active, Unposted

LEMMA StatusOfCallNext ==
    ASSUME NEW r \in Req
    PROVE  /\ pc'[r] = "ok" => CallStatus'[r] = "ok"
           /\ pc'[r] = "err" => CallStatus'[r] = "failed"
           /\ pc'[r] = "refused" => CallStatus'[r] = "refused"
           /\ pc'[r] = "cancelled" => CallStatus'[r] = "abandoned"
           /\ pc'[r] \in Active => CallStatus'[r] = "open"
  BY DEF CallStatus, Active

LEMMA RefinesInit == Init => Abstract!Init
  BY DEF Init, Abstract!Init, CallStatus

\* A write hands the server frames it has not seen, of calls that were posted.
LEMMA RefinesWrite ==
    ASSUME RInv, NEW S, S \subseteq Elems(batch), written' = written \cup S,
           UNCHANGED <<pc, corr>>
    PROVE  Abstract!Next
  <1>1. S \subseteq Req /\ S \cap written = {} /\ S \subseteq Outbound
    BY ElemsType DEF RInv, IInv, TypeOK, OnePlace, Outbound
  <1>2. \A r \in S : CallStatus[r] \notin {"idle", "refused"}
    BY <1>1, StatusOfCall DEF RInv, UnpostedInside
  <1>3. CallStatus' = CallStatus
    BY DEF CallStatus
  <1>4. Abstract!Transmit(S)
    BY <1>1, <1>2, <1>3 DEF Abstract!Transmit
  <1> QED
    BY <1>1, <1>4 DEF Abstract!Next

\* A result ends the call, or leaves it open for the cleanup.
LEMMA RefinesResult ==
    ASSUME RInv, NEW r \in Req, pc[r] = "wait", TakeResult(r), UNCHANGED <<corr, written>>
    PROVE  Abstract!Next \/ UNCHANGED Abstract!vars
  <1>0. TypeOK /\ CallStatus[r] = "open"
    BY StatusOfCall DEF RInv, IInv, Active
  <1>1. CASE pc' = [pc EXCEPT ![r] = "cleanup"]
    <2>1. CallStatus' = [CallStatus EXCEPT ![r] = "open"]
      BY <1>0, <1>1, StatusMoves, StatusOfCallNext, ZenonT(30) DEF Active
    <2>2. CallStatus' = CallStatus
      BY <1>0, <2>1 DEF CallStatus
    <2> QED
      BY <2>2 DEF Abstract!vars
  <1>2. CASE pc' = [pc EXCEPT ![r] = "err"]
    <2>1. CallStatus' = [CallStatus EXCEPT ![r] = "failed"]
      BY <1>0, <1>2, StatusMoves, StatusOfCallNext, ZenonT(30)
    <2> QED
      BY <1>0, <2>1 DEF Abstract!Next, Abstract!Fail
  <1>3. CASE pc' = [pc EXCEPT ![r] = "ok"] /\ slot[r] = "ok" /\ corr[answer[r]] = corr[r]
    <2>1. CallStatus' = [CallStatus EXCEPT ![r] = "ok"]
      BY <1>0, <1>3, StatusMoves, StatusOfCallNext, ZenonT(30)
    <2>2. answer[r] \in written
      BY <1>3 DEF RInv, Replied
    <2>3. Abstract!Reply(r)
      BY <1>0, <1>3, <2>1, <2>2 DEF Abstract!Reply
    <2> QED
      BY <2>3 DEF Abstract!Next
  <1>4. CASE slot[r] = "lost"
    <2>1. pc' = [pc EXCEPT ![r] = "cleanup"]
      BY <1>4 DEF TakeResult
    <2> QED
      BY <1>1, <2>1
  <1>5. CASE slot[r] = "ok" /\ corr[answer[r]] = corr[r]
    <2>1. pc' = [pc EXCEPT ![r] = "ok"]
      BY <1>5 DEF TakeResult
    <2> QED
      BY <1>3, <1>5, <2>1
  <1>6. CASE slot[r] = "ok" /\ corr[answer[r]] # corr[r]
    <2>1. pc' = [pc EXCEPT ![r] = "err"]
      BY <1>6 DEF TakeResult
    <2> QED
      BY <1>2, <2>1
  <1> QED
    BY <1>4, <1>5, <1>6 DEF TakeResult

LEMMA RefinesRequest ==
    ASSUME RInv, NEW r \in Req, NEW c \in Corr, Request(r, c)
    PROVE  Abstract!Next
  <1>0. TypeOK /\ CallStatus[r] = "idle" /\ written' = written
    BY StatusOfCall DEF RInv, IInv, Request, wireVars
  <1>1. \A q \in Req : corr[q] = c => CallStatus[q] \in {"failed", "refused"}
    BY StatusOfCall DEF Request, MayUse
  <1>2. \E s \in {"open", "refused"} : CallStatus' = [CallStatus EXCEPT ![r] = s]
    <2>1. CASE closed
      <3>1. pc' = [pc EXCEPT ![r] = "refused"]
        BY <2>1 DEF Request
      <3> QED
        BY <1>0, <3>1, StatusMoves, StatusOfCallNext
    <2>2. CASE ~closed
      <3>1. pc' = [pc EXCEPT ![r] = "insert"]
        BY <2>2 DEF Request
      <3> QED
        BY <1>0, <3>1, StatusMoves, StatusOfCallNext, ZenonT(30) DEF Active
    <2> QED
      BY <2>1, <2>2
  <1>3. Abstract!Begin(r, c)
    BY <1>0, <1>1, <1>2 DEF Abstract!Begin, Request
  <1> QED
    BY <1>3 DEF Abstract!Next

\* A step of a call that is still under way shows its caller nothing.
LEMMA RefinesInside ==
    ASSUME RInv, NEW r \in Req, pc[r] \in Active, NEW p \in Active,
           pc' = [pc EXCEPT ![r] = p], UNCHANGED <<corr, written>>
    PROVE  UNCHANGED Abstract!vars
  <1>1. CallStatus' = [CallStatus EXCEPT ![r] = "open"]
    BY StatusMoves, StatusOfCallNext, ZenonT(30) DEF RInv, IInv
  <1>2. CallStatus' = CallStatus
    BY <1>1, StatusOfCall DEF CallStatus
  <1> QED
    BY <1>2 DEF Abstract!vars

LEMMA RefinesCleanup ==
    ASSUME RInv, NEW r \in Req, Cleanup(r)
    PROVE  Abstract!Next
  <1>0. TypeOK /\ CallStatus[r] = "open" /\ UNCHANGED <<corr, written>>
    BY StatusOfCall DEF RInv, IInv, Cleanup, Active, wireVars
  <1>1. CASE pc[r] = "unsent"
    <2>1. pc' = [pc EXCEPT ![r] = "refused"]
      BY <1>0, <1>1 DEF Cleanup, TypeOK
    <2>2. CallStatus' = [CallStatus EXCEPT ![r] = "refused"]
      BY <1>0, <2>1, StatusMoves, StatusOfCallNext
    <2>3. r \notin written
      BY <1>1 DEF RInv, UnpostedInside, Unposted, Outbound
    <2> QED
      BY <1>0, <2>2, <2>3 DEF Abstract!Next, Abstract!Refuse
  <1>2. CASE pc[r] = "cleanup"
    <2>1. pc' = [pc EXCEPT ![r] = "err"]
      BY <1>0, <1>2 DEF Cleanup, TypeOK
    <2>2. CallStatus' = [CallStatus EXCEPT ![r] = "failed"]
      BY <1>0, <2>1, StatusMoves, StatusOfCallNext
    <2> QED
      BY <1>0, <2>2 DEF Abstract!Next, Abstract!Fail
  <1> QED
    BY <1>1, <1>2 DEF Cleanup

LEMMA RefinesCall ==
    ASSUME RInv, NEW r \in Req, CallStep(r) \/ Cancel(r)
    PROVE  Abstract!Next \/ UNCHANGED Abstract!vars
  <1>1. CASE Insert(r)
    BY <1>1, RefinesInside, ZenonT(30) DEF Insert, Active, wireVars
  <1>2. CASE Send(r)
    BY <1>2, RefinesInside DEF Send, Active
  <1>3. CASE Poll(r)
    <2>1. CASE TakeResult(r)
      BY <1>3, <2>1, RefinesResult DEF Poll, wireVars
    <2>2. CASE pc' = pc
      BY <1>3, <2>2 DEF Poll, CallStatus, wireVars, Abstract!vars
    <2> QED
      BY <1>3, <2>1, <2>2 DEF Poll
  <1>4. CASE TimerFires(r)
    <2>1. CASE TakeResult(r)
      BY <1>4, <2>1, RefinesResult DEF TimerFires, wireVars
    <2>2. CASE pc' = [pc EXCEPT ![r] = "cleanup"]
      BY <1>4, <2>2, RefinesInside DEF TimerFires, Active, wireVars
    <2> QED
      BY <1>4, <2>1, <2>2 DEF TimerFires
  <1>5. CASE Cleanup(r)
    BY <1>5, RefinesCleanup
  <1>6. CASE Cancel(r)
    <2>1. CallStatus[r] = "open" /\ UNCHANGED <<corr, written>>
      BY <1>6, StatusOfCall DEF Cancel, Active, wireVars
    <2>2. CallStatus' = [CallStatus EXCEPT ![r] = "abandoned"]
      BY <1>6, StatusMoves, StatusOfCallNext DEF Cancel, RInv, IInv
    <2> QED
      BY <2>1, <2>2, ZenonT(30) DEF Abstract!Next, Abstract!Abandon
  <1> QED
    BY <1>1, <1>2, <1>3, <1>4, <1>5, <1>6 DEF CallStep

LEMMA RefinesNext ==
    ASSUME RInv, [Next]_vars
    PROVE  [Abstract!Next]_(Abstract!vars)
  <1> USE DEF callVars, wireVars, markVars
  <1>q. ASSUME UNCHANGED <<pc, corr, written>> PROVE UNCHANGED Abstract!vars
    BY <1>q DEF CallStatus, Abstract!vars
  <1>b. batch \in Seq(Req)
    BY DEF RInv, IInv, TypeOK
  <1>1. ASSUME NEW r \in Req, NEW c \in Corr, Request(r, c) PROVE Abstract!Next
    BY <1>1, RefinesRequest
  <1>2. ASSUME NEW r \in Req, CallStep(r) \/ Cancel(r)
        PROVE  Abstract!Next \/ UNCHANGED Abstract!vars
    BY <1>2, RefinesCall
  <1>3. ASSUME WriterStep PROVE Abstract!Next \/ UNCHANGED Abstract!vars
    <2>1. CASE WriterRecv
      BY <2>1, <1>q DEF WriterRecv
    <2>2. CASE WriteOk
      BY <2>2, RefinesWrite DEF WriteOk
    <2>3. ASSUME NEW n \in 0..Len(batch), WriteFails(n) PROVE Abstract!Next
      BY <2>3, <1>b, ElemsPrefix, RefinesWrite DEF WriteFails
    <2> QED
      BY <1>3, <2>1, <2>2, <2>3 DEF WriterStep
  <1>4. ASSUME NEW q \in Req, ReadResponse(q) PROVE UNCHANGED Abstract!vars
    BY <1>4, <1>q DEF ReadResponse
  <1>5. ASSUME FillResponse PROVE UNCHANGED Abstract!vars
    BY <1>5, <1>q DEF FillResponse
  <1>6. ASSUME ReadFails PROVE UNCHANGED Abstract!vars
    BY <1>6, <1>q DEF ReadFails
  <1>7. ASSUME NEW a \in Actors, Close(a) \/ MarkStep(a) PROVE UNCHANGED Abstract!vars
    BY <1>7, <1>q DEF Close, MarkStep, MarkRecord, TakeShard, FillLost, DrainEnd,
       MarkNotify
  <1>8. ASSUME NEW a \in Actors, NEW n \in 0..Len(batch), Stop(a, n)
        PROVE  Abstract!Next \/ UNCHANGED Abstract!vars
    <2>1. CASE a = "writer"
      BY <1>8, <2>1, <1>b, ElemsPrefix, RefinesWrite DEF Stop
    <2>2. CASE a # "writer"
      BY <1>8, <2>2, <1>q DEF Stop
    <2> QED
      BY <2>1, <2>2
  <1>9. ASSUME UNCHANGED vars PROVE UNCHANGED Abstract!vars
    BY <1>9, <1>q DEF vars
  <1> QED
    BY <1>1, <1>2, <1>3, <1>4, <1>5, <1>6, <1>7, <1>8, <1>9 DEF Next

----------------------------------------------------------------------------
(* The theorems *)

\* The channel does what Call promises: one frame per call reaches the server, a
\* reply answers an id the server did receive, and the frame of a call that was
\* refused is never written.
THEOREM ChannelImplementsCall == Spec => ImplementsCall
  <1>1. RInv /\ [Next]_vars => [Abstract!Next]_(Abstract!vars)
    BY RefinesNext
  <1> QED
    BY <1>1, RefinesInit, AlwaysRInv, PTL DEF Spec, ImplementsCall, Abstract!Spec

\* A caller asleep on its slot sleeps only while the slot is empty: the filler's
\* notification is never lost between the check and the wait of WaitFuture::poll.
THEOREM NoCallerSleepsThroughItsReply == Spec => []NoLostWakeup
  <1>1. RInv => NoLostWakeup
    BY DEF RInv, Sleepers, NoLostWakeup
  <1> QED
    BY <1>1, AlwaysRInv, PTL

\* The in-flight table keeps no slot of a call that has returned: only a dropped
\* future leaves one behind.
THEOREM TableKeepsNoOrphan == Spec => []NoOrphanSlot
  <1>1. RInv => NoOrphanSlot
    BY DEF RInv
  <1> QED
    BY <1>1, AlwaysRInv, PTL

----------------------------------------------------------------------------
(* Operations, for any nodes and any placement of the keys. *)

Ahead == {"check", "gate", "route"}

\* The request goes out only on the route that OpRoute chose, clear is stopped by
\* the first check, and only map_tx_err leads to an error.
OpInv ==
  /\ op \in Operation
  /\ at \in {"idle", "refused"} \cup Ahead => target = {}
  /\ at = "send" => target = {}
  /\ inTx /\ op.check = "clear" => at \in {"check", "refused"}
  /\ inTx /\ at \in {"send", "sent", "broken"}
       => route.kind = "pinned" /\ route.to = TxNode
  /\ \A s \in target : inTx => s.to = TxNode /\ (op.info => s.tx)
  /\ inTx /\ at = "error" => tx # "active"

\* How an operation of the cache is described: the ones that clear are the only
\* ones whose errors do not pass through map_tx_err, and every other one asks the
\* transaction for its route.
Described(o) ==
  /\ o.check # "clear" => o.by # "none" /\ o.mapped
  /\ ReadOnlyOp(o.code) => ~Modifies(o.code)
  /\ Modifies(o.code) /\ o.by = "key" => o.primary

LEMMA PlainOp ==
    ASSUME NEW c, NEW b, NEW p \in BOOLEAN, b # "none",
           ReadOnlyOp(c) => ~Modifies(c), Modifies(c) /\ b = "key" => p
    PROVE  Described(Op(c, b, p))
  BY DEF Described, Op

LEMMA GatedOp ==
    ASSUME NEW c, NEW b, NEW p \in BOOLEAN, NEW f, Described(Op(c, b, p))
    PROVE  Described(Gated(Op(c, b, p), f))
  BY DEF Described, Gated, Op

LEMMA ClearingOp ==
    ASSUME NEW c, NEW b, NEW p \in BOOLEAN, ~ReadOnlyOp(c), b = "key" => p
    PROVE  Described(Clearing(Op(c, b, p)))
  BY DEF Described, Clearing, Op

LEMMA OperationKinds == ASSUME NEW o \in Operation PROVE Described(o)
  <1> USE DEF ReadOnlyOp, Modifies
  <1>1. CASE o \in {Get, GetAll, Put, PutAll, ContainsKey, ContainsKeys, GetAndPut}
    BY <1>1, PlainOp DEF Get, GetAll, Put, PutAll, ContainsKey, ContainsKeys, GetAndPut
  <1>2. CASE o \in {GetAndReplace, GetAndRemove, PutIfAbsent, GetAndPutIfAbsent, Replace,
                    ReplaceIfEquals}
    BY <1>2, PlainOp DEF GetAndReplace, GetAndRemove, PutIfAbsent, GetAndPutIfAbsent,
       Replace, ReplaceIfEquals
  <1>3. CASE o \in {RemoveKey, RemoveIfEquals, RemoveKeys, RemoveAll}
    BY <1>3, PlainOp DEF RemoveKey, RemoveIfEquals, RemoveKeys, RemoveAll
  <1>4. CASE o \in {GetSize, GetSizePeekMode, GetSizePeekModes, ScanQuery, ContinuousQuery,
                    SqlQuery, SqlFields}
    BY <1>4, PlainOp DEF GetSize, GetSizePeekMode, GetSizePeekModes, ScanQuery,
       ContinuousQuery, SqlQuery, SqlFields
  <1>5. CASE o \in {IndexQuery, PutAllConflict, RemoveAllConflict, InvokeBinary,
                    InvokeAllBinary}
    BY <1>5, PlainOp, GatedOp DEF IndexQuery, PutAllConflict, RemoveAllConflict,
       InvokeBinary, InvokeAllBinary
  <1>6. CASE o \in {Clear, ClearKey, ClearKeys}
    BY <1>6, ClearingOp DEF Clear, ClearKey, ClearKeys
  <1>7. CASE o = QueryClose
    BY <1>7 DEF QueryClose, Op, Described
  <1> QED
    BY <1>1, <1>2, <1>3, <1>4, <1>5, <1>6, <1>7 DEF Operation

LEMMA OpInitial == OpInit => OpInv
  BY DEF OpInit, OpInv, Operation, Ahead

LEMMA OpStep == OpInv /\ [OpNext]_opVars => OpInv'
  <1> SUFFICES ASSUME OpInv, [OpNext]_opVars PROVE OpInv'
    OBVIOUS
  <1>k. op.check # "clear" => op.by # "none" /\ op.mapped
    BY OperationKinds DEF OpInv, Described
  <1>1. ASSUME NEW o \in Operation, NEW t \in BOOLEAN, OpStart(o, t) PROVE OpInv'
    BY <1>1 DEF OpStart, OpInv, Ahead
  <1>2. CASE OpCheck
    BY <1>2 DEF OpCheck, OpInv, Ahead
  <1>3. CASE OpGate
    BY <1>3 DEF OpGate, OpInv, Ahead
  <1>4. CASE OpRoute
    <2>1. at = "route" /\ UNCHANGED <<op, inTx, target, tx, primary, active, features>>
      BY <1>4 DEF OpRoute
    <2>2. at' = "send" \/ at' = "refused"
      BY <1>4 DEF OpRoute
    <2>3. inTx => op.by # "none" /\ op.check # "clear"
      BY <1>k, <2>1 DEF OpInv
    <2>4. inTx => route'.kind = "pinned" /\ route'.to = TxNode
      <3>1. inTx => route' = [to |-> TxNode, kind |-> "pinned"]
        BY <1>4, <2>3 DEF OpRoute
      <3> QED BY <3>1
    <2> QED BY <2>1, <2>2, <2>3, <2>4 DEF OpInv, Ahead
  <1>5. CASE OpSend
    <2>1. ASSUME NEW n, inTx => n = TxNode, at' = "sent",
                 target' = target \cup {[to |-> n, tx |-> inTx /\ op.info]}
          PROVE  OpInv'
      <3>1. ASSUME NEW s \in target', inTx PROVE s.to = TxNode /\ (op.info => s.tx)
        <4>1. CASE s \in target
          BY <3>1, <4>1 DEF OpInv
        <4>2. CASE s = [to |-> n, tx |-> inTx /\ op.info]
          <5>1. s.to = n /\ (inTx /\ op.info => s.tx)
            BY <4>2, Zenon
          <5> QED
            BY <2>1, <3>1, <5>1
        <4> QED
          BY <2>1, <4>1, <4>2
      <3> QED
        BY <1>5, <2>1, <3>1 DEF OpSend, OpInv, Ahead
    <2>2. CASE at' = "broken" /\ UNCHANGED target
      BY <1>5, <2>2 DEF OpSend, OpInv, Ahead
    <2>3. inTx => route.kind = "pinned" /\ route.to = TxNode
      BY <1>5 DEF OpSend, OpInv
    <2> QED
      BY <1>5, <2>1, <2>2, <2>3 DEF OpSend
  <1>6. CASE OpAnswer
    BY <1>6 DEF OpAnswer, OpInv, Ahead
  <1>7. CASE OpMapError
    BY <1>7, <1>k DEF OpMapError, OpInv, Ahead
  <1>8. CASE OpEnvironment
    BY <1>8 DEF OpEnvironment, OpInv, Ahead
  <1>9. CASE UNCHANGED opVars
    BY <1>9 DEF opVars, OpInv, Ahead
  <1> QED
    BY <1>1, <1>2, <1>3, <1>4, <1>5, <1>6, <1>7, <1>8, <1>9 DEF OpNext

\* Every request of a transactional cache handle carries the transaction id to the
\* node of the transaction, clear is never sent, and a caller that sees a connection
\* error finds the transaction no longer active, whatever the other tasks and the
\* cluster did between the awaits of the operation.
THEOREM OperationsStayInTheirTransaction == OpSpec => []OperationsStayInside
  <1>1. OpInv => OperationsStayInside
    BY OperationKinds DEF OpInv, OperationsStayInside, Ahead, Described
  <1> QED
    BY <1>1, OpInitial, OpStep, PTL DEF OpSpec
============================================================================
