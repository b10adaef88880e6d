-------------------------- MODULE DiscoveryProofs ---------------------------
(***************************************************************************)
(* For any tasks, nodes, seeds and caches, with cancellation at every      *)
(* await: the guards are taken in an order that cannot deadlock, the       *)
(* candidates are connections of the pool, and, when every node has the    *)
(* NODE_ENDPOINTS feature, the client knows the nodes of its version.      *)
(***************************************************************************)
EXTENDS Discovery, TLAPS

----------------------------------------------------------------------------
\* The nodes of a version of a history h of the cluster.
NodesOf(h, v) == IF v = Unknown THEN {} ELSE h[v]

\* A topology answer is the difference between the version asked from and the latest.
LEMMA Difference ==
    ASSUME NEW v
    PROVE  /\ NodeEndpoints(v).version = Len(hist)
           /\ DOMAIN NodeEndpoints(v).added = Cluster \ NodesOf(hist, v)
           /\ NodeEndpoints(v).removed = NodesOf(hist, v) \ Cluster
  BY DEF NodeEndpoints, NodesOf

(* What a task has left to do while it holds a guard *)

\* discovery_refresh_guard is held while one of these is left to do, ...
Closing == {"asked", "update", "release"}

\* ... and before it only these, none of which waits for a guard.
Inner == {"pruneNodes", "byNode", "prunePool", "close", "candLoad", "candStore"}

\* Steps that are never below another one.
HeadOnly == {"idle", "reconnect", "dial", "asked", "update"}

\* Everything else that a task may have left to do.
Plain == Inner \cup {"invalidate", "change", "route", "fetch", "apply", "flag", "snapshot",
                     "resolve", "refresh", "primeList", "prime", "identity", "index",
                     "connected", "one", "anyList", "any", "adopt", "pruneSeeds"}

Step == Plain \cup HeadOnly \cup Closing \cup {"done"}

Shut(s) == \A i \in 1..Len(s) : s[i] \notin Closing

Open(s) ==
    \E n \in 1..Len(s) : /\ s[n] \in Closing
                         /\ \A i \in 1..(n - 1) : s[i] \in Inner
                         /\ \A i \in (n + 1)..Len(s) : s[i] \notin Closing

Below(s) == \A i \in 2..Len(s) : s[i] \notin HeadOnly

\* What each guard says about the stack of its holder.
StackInv ==
    /\ DOMAIN stk = Task
    /\ \A t \in Task : stk[t] \in Seq(Step) /\ Below(stk[t])
    /\ \A t \in Task : IF dguard = t THEN Open(stk[t]) ELSE Shut(stk[t])
    /\ \A t \in Task : cguard = t <=> At(t, "dial")
    /\ \A t \in Task : At(t, "dial") => Len(stk[t]) > 1
    /\ \A t \in Task : rguard = t => ~At(t, "idle") /\ ~At(t, "reconnect")

Clean(s) == \A i \in 1..Len(s) : s[i] \notin HeadOnly

LEMMA Joined ==
    ASSUME NEW r \in Seq(Step), NEW u \in Seq(Step)
    PROVE  /\ r \o u \in Seq(Step)
           /\ Len(r \o u) = Len(r) + Len(u) /\ Len(r) \in Nat /\ Len(u) \in Nat
           /\ \A i \in 1..Len(r) : (r \o u)[i] = r[i]
           /\ \A i \in 1..Len(u) : (r \o u)[Len(r) + i] = u[i]
           /\ \A j \in 1..Len(r \o u) :
                 j \in 1..Len(r) \/ \E i \in 1..Len(u) : j = Len(r) + i
  <1>1. /\ r \o u \in Seq(Step) /\ Len(r) \in Nat /\ Len(u) \in Nat
        /\ Len(r \o u) = Len(r) + Len(u)
    OBVIOUS
  <1>2. \A i \in 1..Len(r) : (r \o u)[i] = r[i]
    BY <1>1
  <1>3. ASSUME NEW i \in 1..Len(u) PROVE (r \o u)[Len(r) + i] = u[i]
    BY <1>1
  <1>4. ASSUME NEW j \in 1..Len(r \o u), j \notin 1..Len(r)
        PROVE  \E i \in 1..Len(u) : j = Len(r) + i
    <2>1. j - Len(r) \in 1..Len(u) /\ j = Len(r) + (j - Len(r))
      BY <1>1, <1>4
    <2> QED
      BY <2>1
  <1> QED
    BY <1>1, <1>2, <1>3, <1>4

LEMMA Rest ==
    ASSUME NEW s \in Seq(Step), s # <<>>
    PROVE  /\ Tail(s) \in Seq(Step) /\ Len(Tail(s)) = Len(s) - 1 /\ Len(s) \in Nat \ {0}
           /\ \A i \in 1..Len(Tail(s)) : Tail(s)[i] = s[i + 1]
           /\ Head(s) = s[1]
  OBVIOUS

LEMMA LongRest ==
    ASSUME NEW s \in Seq(Step), s # <<>>, Len(s) > 1
    PROVE  Tail(s) # <<>>
  <1>1. Len(Tail(s)) = Len(s) - 1 /\ Len(s) \in Nat
    BY Rest
  <1>2. Len(Tail(s)) # 0
    BY <1>1
  <1>3. Len(<<>>) = 0
    OBVIOUS
  <1> QED
    BY <1>2, <1>3

LEMMA ShutJoined ==
    ASSUME NEW r \in Seq(Step), NEW u \in Seq(Step), Shut(r), Shut(u)
    PROVE  Shut(r \o u)
  <1> SUFFICES ASSUME NEW j \in 1..Len(r \o u) PROVE (r \o u)[j] \notin Closing
    BY DEF Shut
  <1>1. CASE j \in 1..Len(r)
    BY <1>1, Joined DEF Shut
  <1>2. ASSUME NEW i \in 1..Len(u), j = Len(r) + i PROVE (r \o u)[j] \notin Closing
    BY <1>2, Joined DEF Shut
  <1> QED
    BY <1>1, <1>2, Joined

LEMMA CleanJoined ==
    ASSUME NEW r \in Seq(Step), NEW u \in Seq(Step), Clean(u)
    PROVE  /\ Clean(r) => Clean(r \o u)
           /\ Below(r) => Below(r \o u)
  <1>1. ASSUME NEW i \in 1..Len(u) PROVE (r \o u)[Len(r) + i] \notin HeadOnly
    BY Joined DEF Clean
  <1>2. ASSUME Clean(r) PROVE Clean(r \o u)
    <2> SUFFICES ASSUME NEW j \in 1..Len(r \o u) PROVE (r \o u)[j] \notin HeadOnly
      BY DEF Clean
    <2>1. CASE j \in 1..Len(r)
      BY <1>2, <2>1, Joined DEF Clean
    <2> QED
      BY <1>1, <2>1, Joined
  <1>3. ASSUME Below(r) PROVE Below(r \o u)
    <2> SUFFICES ASSUME NEW j \in 2..Len(r \o u) PROVE (r \o u)[j] \notin HeadOnly
      BY DEF Below
    <2>0. j \in 1..Len(r \o u)
      BY Joined
    <2>1. CASE j \in 1..Len(r)
      <3>1. j \in 2..Len(r)
        BY <2>1, Joined
      <3> QED
        BY <1>3, <2>1, <3>1, Joined DEF Below
    <2> QED
      BY <1>1, <2>0, <2>1, Joined
  <1> QED
    BY <1>2, <1>3

LEMMA OpenFirst ==
    ASSUME NEW r \in Seq(Step), NEW u \in Seq(Step), Open(r), Shut(u)
    PROVE  Open(r \o u)
  <1>1. PICK n \in 1..Len(r) : /\ r[n] \in Closing
                               /\ \A i \in 1..(n - 1) : r[i] \in Inner
                               /\ \A i \in (n + 1)..Len(r) : r[i] \notin Closing
    BY DEF Open
  <1>2. n \in 1..Len(r \o u) /\ (r \o u)[n] \in Closing
    BY <1>1, Joined
  <1>3. \A i \in 1..(n - 1) : (r \o u)[i] \in Inner
    <2> TAKE i \in 1..(n - 1)
    <2>1. i \in 1..Len(r)
      BY Joined
    <2> QED
      BY <1>1, <2>1, Joined
  <1>4. ASSUME NEW j \in (n + 1)..Len(r \o u) PROVE (r \o u)[j] \notin Closing
    <2>0. j \in 1..Len(r \o u)
      BY Joined
    <2>1. CASE j \in 1..Len(r)
      <3>1. j \in (n + 1)..Len(r)
        BY <2>1, Joined
      <3> QED
        BY <1>1, <2>1, <3>1, Joined
    <2>2. ASSUME NEW i \in 1..Len(u), j = Len(r) + i PROVE (r \o u)[j] \notin Closing
      BY <2>2, Joined DEF Shut
    <2> QED
      BY <2>0, <2>1, <2>2, Joined
  <1> QED
    BY <1>2, <1>3, <1>4 DEF Open

LEMMA OpenLater ==
    ASSUME NEW r \in Seq(Step), NEW u \in Seq(Step), Open(u),
           \A i \in 1..Len(r) : r[i] \in Inner
    PROVE  Open(r \o u)
  <1>1. PICK n \in 1..Len(u) : /\ u[n] \in Closing
                               /\ \A i \in 1..(n - 1) : u[i] \in Inner
                               /\ \A i \in (n + 1)..Len(u) : u[i] \notin Closing
    BY DEF Open
  <1> DEFINE m == Len(r) + n
  <1>2. m \in 1..Len(r \o u) /\ (r \o u)[m] \in Closing
    BY <1>1, Joined
  <1>3. ASSUME NEW j \in 1..(m - 1) PROVE (r \o u)[j] \in Inner
    <2>0. j \in 1..Len(r \o u)
      BY Joined
    <2>1. CASE j \in 1..Len(r)
      BY <2>1, Joined
    <2>2. ASSUME NEW i \in 1..Len(u), j = Len(r) + i PROVE (r \o u)[j] \in Inner
      <3>1. i \in 1..(n - 1)
        BY <2>2, Joined
      <3> QED
        BY <1>1, <2>2, <3>1, Joined
    <2> QED
      BY <2>0, <2>1, <2>2, Joined
  <1>4. ASSUME NEW j \in (m + 1)..Len(r \o u) PROVE (r \o u)[j] \notin Closing
    <2>0. j \in 1..Len(r \o u) /\ j \notin 1..Len(r)
      BY Joined
    <2>2. ASSUME NEW i \in 1..Len(u), j = Len(r) + i PROVE (r \o u)[j] \notin Closing
      <3>1. i \in (n + 1)..Len(u)
        BY <2>2, Joined
      <3> QED
        BY <1>1, <2>2, <3>1, Joined
    <2> QED
      BY <2>0, <2>2, Joined
  <1> QED
    BY <1>2, <1>3, <1>4 DEF Open

LEMMA RestOf ==
    ASSUME NEW s \in Seq(Step), s # <<>>
    PROVE  /\ Shut(s) => Shut(Tail(s))
           /\ Open(s) /\ s[1] \in Closing => Shut(Tail(s))
           /\ Open(s) => s[1] \in Closing \cup Inner
           /\ Open(s) /\ s[1] \in Inner => Open(Tail(s))
           /\ Below(s) => Clean(Tail(s))
  <1>0. \A x \in Inner : x \notin Closing
    BY DEF Inner, Closing
  <1>1. ASSUME Shut(s) PROVE Shut(Tail(s))
    BY <1>1, Rest DEF Shut
  <1>2. ASSUME Below(s) PROVE Clean(Tail(s))
    BY <1>2, Rest DEF Below, Clean
  <1>3. ASSUME Open(s)
        PROVE  /\ s[1] \in Closing => Shut(Tail(s))
               /\ s[1] \in Closing \cup Inner
               /\ s[1] \in Inner => Open(Tail(s))
    <2>1. PICK n \in 1..Len(s) : /\ s[n] \in Closing
                                 /\ \A i \in 1..(n - 1) : s[i] \in Inner
                                 /\ \A i \in (n + 1)..Len(s) : s[i] \notin Closing
      BY <1>3 DEF Open
    <2>2. CASE n = 1
      <3>1. Shut(Tail(s))
        BY <2>1, <2>2, Rest DEF Shut
      <3> QED
        BY <1>0, <2>1, <2>2, <3>1
    <2>3. CASE n > 1
      <3>1. s[1] \in Inner
        BY <2>1, <2>3
      <3> DEFINE m == n - 1
      <3>2. m \in 1..Len(Tail(s)) /\ Tail(s)[m] \in Closing
        BY <2>1, <2>3, Rest
      <3>3. \A i \in 1..(m - 1) : Tail(s)[i] \in Inner
        BY <2>1, <2>3, Rest
      <3>4. \A i \in (m + 1)..Len(Tail(s)) : Tail(s)[i] \notin Closing
        BY <2>1, <2>3, Rest
      <3>5. Open(Tail(s))
        <4> HIDE DEF m
        <4> QED
          BY <3>2, <3>3, <3>4 DEF Open
      <3> QED
        BY <1>0, <3>1, <3>5
    <2> QED
      BY <2>2, <2>3
  <1> QED
    BY <1>1, <1>2, <1>3

LEMMA PlainSeq ==
    ASSUME NEW r \in Seq(Plain)
    PROVE  r \in Seq(Step) /\ Clean(r) /\ Below(r) /\ Shut(r)
  <1>1. Plain \subseteq Step
    BY DEF Step
  <1>2. \A x \in Plain : x \notin HeadOnly
    BY DEF Plain, Inner, HeadOnly
  <1>3. \A x \in Plain : x \notin Closing
    BY DEF Plain, Inner, Closing
  <1>4. Len(r) \in Nat /\ \A i \in 1..Len(r) : r[i] \in Plain
    OBVIOUS
  <1>5. r \in Seq(Step)
    BY <1>1, <1>4
  <1>6. Clean(r) /\ Shut(r)
    BY <1>2, <1>3, <1>4 DEF Clean, Shut
  <1>7. Below(r)
    BY <1>2, <1>4 DEF Below
  <1> QED
    BY <1>5, <1>6, <1>7

LEMMA StackMoves ==
    ASSUME StackInv, NEW t \in Task, NEW q \in Seq(Step), stk' = [stk EXCEPT ![t] = q],
           Below(q), IF dguard' = t THEN Open(q) ELSE Shut(q),
           cguard' = t <=> q # <<>> /\ Head(q) = "dial",
           q # <<>> /\ Head(q) = "dial" => Len(q) > 1,
           rguard' = t => q = <<>> \/ Head(q) \notin {"idle", "reconnect"},
           \A u \in Task \ {t} : /\ dguard' = u <=> dguard = u
                                 /\ cguard' = u <=> cguard = u
                                 /\ rguard' = u <=> rguard = u
    PROVE  StackInv'
  <1>1. DOMAIN stk' = Task /\ stk'[t] = q /\ \A u \in Task \ {t} : stk'[u] = stk[u]
    BY DEF StackInv
  <1>2. ASSUME NEW u \in Task \ {t}, NEW x PROVE At(u, x)' <=> At(u, x)
    BY <1>1 DEF At
  <1>3. ASSUME NEW x PROVE At(t, x)' <=> q # <<>> /\ Head(q) = x
    BY <1>1 DEF At
  <1>4. \A u \in Task : /\ stk'[u] \in Seq(Step) /\ Below(stk'[u])
                        /\ IF dguard' = u THEN Open(stk'[u]) ELSE Shut(stk'[u])
    BY <1>1 DEF StackInv
  <1>5. \A u \in Task : /\ cguard' = u <=> At(u, "dial")'
                        /\ At(u, "dial")' => Len(stk'[u]) > 1
    BY <1>1, <1>2, <1>3 DEF StackInv
  <1>6. \A u \in Task : rguard' = u => ~At(u, "idle")' /\ ~At(u, "reconnect")'
    BY <1>2, <1>3 DEF StackInv
  <1> QED
    BY <1>1, <1>4, <1>5, <1>6 DEF StackInv

\* The first step of a task, and what the discovery guard says about it.
LEMMA HeadOf ==
    ASSUME StackInv, NEW t \in Task, stk[t] # <<>>
    PROVE  /\ stk[t] \in Seq(Step) /\ Tail(stk[t]) \in Seq(Step)
           /\ Clean(Tail(stk[t])) /\ Below(stk[t])
           /\ Head(stk[t]) \in Closing => dguard = t /\ Shut(Tail(stk[t]))
           /\ Head(stk[t]) \notin Closing \cup Inner => dguard # t /\ Shut(Tail(stk[t]))
           /\ Head(stk[t]) \in Inner /\ dguard = t => Open(Tail(stk[t]))
           /\ dguard # t => Shut(Tail(stk[t]))
  <1>1. /\ stk[t] \in Seq(Step) /\ Below(stk[t])
        /\ IF dguard = t THEN Open(stk[t]) ELSE Shut(stk[t])
    BY DEF StackInv
  <1>2. Head(stk[t]) = stk[t][1] /\ Len(stk[t]) \in Nat \ {0} /\ Tail(stk[t]) \in Seq(Step)
    BY <1>1, Rest
  <1>3. Head(stk[t]) \in Closing => dguard = t
    BY <1>1, <1>2 DEF Shut
  <1> QED
    BY <1>1, <1>2, <1>3, RestOf

LEMMA FirstOf ==
    ASSUME NEW r \in Seq(Step), NEW u \in Seq(Step)
    PROVE  /\ r # <<>> => r \o u # <<>> /\ Head(r \o u) = r[1]
           /\ Clean(r \o u) /\ r \o u # <<>> => Head(r \o u) \notin HeadOnly
  <1>1. ASSUME r # <<>> PROVE r \o u # <<>> /\ Head(r \o u) = r[1]
    BY <1>1
  <1>2. ASSUME Clean(r \o u), r \o u # <<>> PROVE Head(r \o u) \notin HeadOnly
    <2>1. r \o u \in Seq(Step)
      OBVIOUS
    <2> QED
      BY <1>2, <2>1, Rest DEF Clean
  <1> QED
    BY <1>1, <1>2

\* Most steps put plain steps in the place of the first one and touch no guard.
LEMMA PlainMove ==
    ASSUME StackInv, NEW t \in Task, stk[t] # <<>>, NEW r \in Seq(Plain), Then(t, r),
           Head(stk[t]) \notin Closing \cup {"dial"},
           Head(stk[t]) \in Inner => \A i \in 1..Len(r) : r[i] \in Inner,
           UNCHANGED <<dguard, cguard>>, \A u \in Task \ {t} : rguard' = u <=> rguard = u
    PROVE  StackInv'
  <1> DEFINE q == r \o Tail(stk[t])
  <1>1. stk' = [stk EXCEPT ![t] = q]
    BY DEF Then, StackInv
  <1>2. Tail(stk[t]) \in Seq(Step) /\ Clean(Tail(stk[t]))
    BY HeadOf
  <1>3. r \in Seq(Step) /\ Clean(r) /\ Shut(r)
    BY PlainSeq
  <1>4. q \in Seq(Step) /\ Clean(q)
    BY <1>2, <1>3, Joined, CleanJoined
  <1>5. Below(q)
    BY <1>4 DEF Below, Clean
  <1>6. q = <<>> \/ Head(q) \notin HeadOnly
    BY <1>2, <1>3, <1>4, FirstOf
  <1>7. IF dguard = t THEN Open(q) ELSE Shut(q)
    <2>1. CASE dguard = t
      <3>1. Head(stk[t]) \in Inner /\ Open(Tail(stk[t]))
        BY <2>1, HeadOf
      <3>2. Open(q)
        BY <1>2, <1>3, <3>1, OpenLater
      <3> QED
        BY <2>1, <3>2
    <2>2. CASE dguard # t
      BY <1>2, <1>3, <2>2, HeadOf, ShutJoined
    <2> QED
      BY <2>1, <2>2
  <1>8. cguard # t
    BY DEF StackInv, At
  <1>9. q = <<>> \/ Head(q) \notin {"idle", "reconnect", "dial"}
    BY <1>6 DEF HeadOnly
  <1> HIDE DEF q
  <1> QED
    BY <1>1, <1>4, <1>5, <1>7, <1>8, <1>9, StackMoves

LEMMA Pushed ==
    /\ <<>> \in Seq(Plain)
    /\ <<"route">> \in Seq(Plain) /\ <<"fetch">> \in Seq(Plain) /\ <<"apply">> \in Seq(Plain)
    /\ <<"refresh">> \in Seq(Plain) /\ <<"prime">> \in Seq(Plain) /\ <<"one">> \in Seq(Plain)
    /\ <<"any">> \in Seq(Plain) /\ <<"adopt">> \in Seq(Plain)
    /\ <<"byNode">> \in Seq(Plain) /\ <<"candStore">> \in Seq(Plain)
    /\ <<"primeList">> \in Seq(Plain) /\ <<"refresh", "connected">> \in Seq(Plain)
    /\ <<"invalidate", "change">> \in Seq(Plain) /\ <<"flag", "snapshot">> \in Seq(Plain)
    /\ <<"index", "byNode">> \in Seq(Plain) /\ <<"pruneSeeds", "close">> \in Seq(Plain)
    /\ <<"candLoad", "anyList">> \in Seq(Plain)
    /\ <<"flag", "snapshot", "resolve">> \in Seq(Plain)
    /\ <<"index", "byNode", "candLoad">> \in Seq(Plain)
  BY DEF Plain, Inner

\* A step outside the discovery guard that touches no guard.
LEMMA OuterMove ==
    ASSUME StackInv, NEW t \in Task, NEW x, At(t, x), x \notin Closing \cup Inner \cup {"dial"},
           NEW r \in Seq(Plain), Then(t, r), UNCHANGED guards
    PROVE  StackInv'
  <1>1. stk[t] # <<>> /\ Head(stk[t]) = x /\ UNCHANGED <<rguard, dguard, cguard>>
    BY DEF At, guards
  <1> QED
    BY <1>1, PlainMove

LEMMA OuterSteps ==
    ASSUME StackInv, NEW t \in Task,
           \/ ObserveChange(t) \/ Lookup(t) \/ Invalidate(t) \/ Apply(t) \/ StoreFlag(t)
           \/ StoreSnapshot(t) \/ FetchAnswered(t) \/ FetchFails(t) \/ Resolve(t)
           \/ HandleChange(t) \/ PrimeList(t) \/ Identity(t) \/ Index(t) \/ Route(t)
           \/ AnyList(t) \/ Adopt(t) \/ PruneSeeds(t)
    PROVE  StackInv'
  <1>0. \A x \in {"adopt", "anyList", "apply", "change", "fetch", "flag", "identity",
                "idle", "index", "invalidate", "primeList", "pruneSeeds", "resolve", "route", "snapshot"} :
             x \notin Closing \cup Inner \cup {"dial"}
    BY DEF Closing, Inner
  <1>1. CASE ObserveChange(t)
    <2>1. /\ At(t, "idle") /\ UNCHANGED guards
          /\ Then(t, <<"invalidate", "change">>)
      BY <1>1 DEF ObserveChange, Skip
    <2> QED
      BY <1>0, <2>1, OuterMove, Pushed
  <1>2. CASE Lookup(t)
    <2>1. /\ At(t, "idle") /\ UNCHANGED guards
          /\ Then(t, <<>>) \/ Then(t, <<"route">>) \/ Then(t, <<"fetch">>)
      BY <1>2 DEF Lookup, Skip
    <2> QED
      BY <1>0, <2>1, OuterMove, Pushed
  <1>3. CASE Invalidate(t)
    <2>1. /\ At(t, "invalidate") /\ UNCHANGED guards
          /\ Then(t, <<"flag", "snapshot">>)
      BY <1>3 DEF Invalidate, Skip
    <2> QED
      BY <1>0, <2>1, OuterMove, Pushed
  <1>4. CASE Apply(t)
    <2>1. /\ At(t, "apply") /\ UNCHANGED guards
          /\ Then(t, <<"flag", "snapshot", "resolve">>)
      BY <1>4 DEF Apply, Skip
    <2> QED
      BY <1>0, <2>1, OuterMove, Pushed
  <1>5. CASE StoreFlag(t)
    <2>1. /\ At(t, "flag") /\ UNCHANGED guards
          /\ Then(t, <<>>)
      BY <1>5 DEF StoreFlag, Skip
    <2> QED
      BY <1>0, <2>1, OuterMove, Pushed
  <1>6. CASE StoreSnapshot(t)
    <2>1. /\ At(t, "snapshot") /\ UNCHANGED guards
          /\ Then(t, <<>>)
      BY <1>6 DEF StoreSnapshot, Skip
    <2> QED
      BY <1>0, <2>1, OuterMove, Pushed
  <1>7. CASE FetchAnswered(t)
    <2>1. /\ At(t, "fetch") /\ UNCHANGED guards
          /\ Then(t, <<"apply">>)
      BY <1>7 DEF FetchAnswered, Skip
    <2> QED
      BY <1>0, <2>1, OuterMove, Pushed
  <1>8. CASE FetchFails(t)
    <2>1. /\ At(t, "fetch") /\ UNCHANGED guards
          /\ Then(t, <<"flag", "snapshot">>)
      BY <1>8 DEF FetchFails, Skip
    <2> QED
      BY <1>0, <2>1, OuterMove, Pushed
  <1>9. CASE Resolve(t)
    <2>1. /\ At(t, "resolve") /\ UNCHANGED guards
          /\ Then(t, <<"route">>) \/ Then(t, <<>>)
      BY <1>9 DEF Resolve, Skip
    <2> QED
      BY <1>0, <2>1, OuterMove, Pushed
  <1>10. CASE HandleChange(t)
    <2>1. /\ At(t, "change") /\ UNCHANGED guards
          /\ Then(t, <<"refresh">>) \/ Then(t, <<>>)
      BY <1>10 DEF HandleChange, Skip
    <2> QED
      BY <1>0, <2>1, OuterMove, Pushed
  <1>11. CASE PrimeList(t)
    <2>1. /\ At(t, "primeList") /\ UNCHANGED guards
          /\ Then(t, <<"prime">>)
      BY <1>11 DEF PrimeList, Skip
    <2> QED
      BY <1>0, <2>1, OuterMove, Pushed
  <1>12. CASE Identity(t)
    <2>1. /\ At(t, "identity") /\ UNCHANGED guards
          /\ Then(t, <<"index", "byNode", "candLoad">>)
      BY <1>12 DEF Identity, Skip
    <2> QED
      BY <1>0, <2>1, OuterMove, Pushed
  <1>13. CASE Index(t)
    <2>1. /\ At(t, "index") /\ UNCHANGED guards
          /\ Then(t, <<>>)
      BY <1>13 DEF Index, Skip
    <2> QED
      BY <1>0, <2>1, OuterMove, Pushed
  <1>14. CASE Route(t)
    <2>1. /\ At(t, "route") /\ UNCHANGED guards
          /\ Then(t, <<>>) \/ Then(t, <<"index", "byNode">>) \/ Then(t, <<"one">>)
      BY <1>14 DEF Route, Skip
    <2> QED
      BY <1>0, <2>1, OuterMove, Pushed
  <1>15. CASE AnyList(t)
    <2>1. /\ At(t, "anyList") /\ UNCHANGED guards
          /\ Then(t, <<"any">>)
      BY <1>15 DEF AnyList, Skip
    <2> QED
      BY <1>0, <2>1, OuterMove, Pushed
  <1>16. CASE Adopt(t)
    <2>1. /\ At(t, "adopt") /\ UNCHANGED guards
          /\ Then(t, <<>>) \/ Then(t, <<"pruneSeeds", "close">>)
      BY <1>16 DEF Adopt, Skip
    <2> QED
      BY <1>0, <2>1, OuterMove, Pushed
  <1>17. CASE PruneSeeds(t)
    <2>1. /\ At(t, "pruneSeeds") /\ UNCHANGED guards
          /\ Then(t, <<>>)
      BY <1>17 DEF PruneSeeds, Skip
    <2> QED
      BY <1>0, <2>1, OuterMove, Pushed
  <1> QED
    BY <1>1, <1>2, <1>3, <1>4, <1>5, <1>6, <1>7, <1>8, <1>9, <1>10, <1>11, <1>12, <1>13, <1>14, <1>15, <1>16, <1>17

\* Steps that may be made under the discovery guard, and leave it.
LEMMA InnerSteps ==
    ASSUME StackInv, NEW t \in Task,
           \/ PruneNodes(t) \/ StoreByNode(t) \/ PrunePool(t) \/ Close(t) \/ CandLoad(t)
           \/ CandStore(t)
    PROVE  StackInv'
  <1>1. ASSUME NEW x \in Inner, At(t, x), Then(t, <<>>), UNCHANGED guards PROVE StackInv'
    <2>1. stk[t] # <<>> /\ Head(stk[t]) \in Inner /\ Head(stk[t]) \notin Closing \cup {"dial"}
      BY <1>1 DEF At, Inner, Closing
    <2>2. <<>> \in Seq(Plain) /\ \A i \in 1..Len(<<>>) : <<>>[i] \in Inner
      BY Pushed
    <2> QED
      BY <1>1, <2>1, <2>2, PlainMove DEF guards
  <1>2. ASSUME NEW x \in Inner, At(t, x), NEW y \in {"byNode", "candStore"},
               Then(t, <<y>>), UNCHANGED guards
        PROVE  StackInv'
    <2>1. stk[t] # <<>> /\ Head(stk[t]) \in Inner /\ Head(stk[t]) \notin Closing \cup {"dial"}
      BY <1>2 DEF At, Inner, Closing
    <2>2. <<y>> \in Seq(Plain) /\ \A i \in 1..Len(<<y>>) : <<y>>[i] \in Inner
      BY Pushed DEF Inner
    <2> QED
      BY <1>2, <2>1, <2>2, PlainMove DEF guards
  <1>3. CASE PruneNodes(t)
    <2>1. /\ At(t, "pruneNodes") /\ UNCHANGED guards
          /\ Then(t, <<>>) \/ Then(t, <<"byNode">>)
      BY <1>3 DEF PruneNodes, Skip
    <2> QED
      BY <1>1, <1>2, <2>1 DEF Inner
  <1>4. CASE StoreByNode(t)
    BY <1>1, <1>4 DEF StoreByNode, Skip, Inner
  <1>5. CASE PrunePool(t)
    <2>1. At(t, "prunePool") /\ Then(t, <<>>) /\ UNCHANGED guards
      BY <1>5 DEF PrunePool, Skip
    <2> QED
      BY <1>1, <2>1 DEF Inner
  <1>6. CASE Close(t)
    BY <1>1, <1>6 DEF Close, Skip, Inner
  <1>7. CASE CandLoad(t)
    BY <1>2, <1>7 DEF CandLoad, Inner
  <1>8. CASE CandStore(t)
    BY <1>1, <1>8 DEF CandStore, Skip, Inner
  <1> QED
    BY <1>3, <1>4, <1>5, <1>6, <1>7, <1>8

LEMMA ConnectedStack ==
    ASSUME StackInv, NEW t \in Task, Connected(t) PROVE StackInv'
  <1>1. At(t, "connected") /\ UNCHANGED guards /\ "connected" \notin Closing \cup Inner \cup {"dial"}
    BY DEF Connected, Closing, Inner
  <1>2. CASE Then(t, <<"primeList">>)
    BY <1>1, <1>2, OuterMove, Pushed
  <1>3. CASE stk' = [stk EXCEPT ![t] = <<"refresh">> \o @]
    <2>1. stk[t] \in Seq(Step) /\ stk[t] # <<>> /\ Head(stk[t]) = "connected"
      BY <1>1 DEF StackInv, At
    <2>2. <<"refresh">> \o stk[t] = <<"refresh", "connected">> \o Tail(stk[t])
      <3> DEFINE u == Tail(stk[t])
      <3>1. stk[t] = <<"connected">> \o u /\ u \in Seq(Step)
        BY <2>1
      <3>2. \A v \in Seq(Step) : <<"refresh">> \o (<<"connected">> \o v)
                                   = <<"refresh", "connected">> \o v
        OBVIOUS
      <3> QED
        BY <3>1, <3>2
    <2>3. Then(t, <<"refresh", "connected">>)
      BY <1>3, <2>2 DEF Then, StackInv
    <2> QED
      BY <1>1, <2>3, OuterMove, Pushed
  <1> QED
    BY <1>2, <1>3 DEF Connected

\* A task takes channel_connect_guard to dial for x.
LEMMA DialPushed ==
    ASSUME StackInv, NEW t \in Task, NEW x \in {"prime", "one", "any"}, At(t, x),
           cguard = None, cguard' = t, Then(t, <<"dial", x>>), UNCHANGED <<rguard, dguard>>
    PROVE  StackInv'
  <1> DEFINE r == <<"dial", x>>
             q == r \o Tail(stk[t])
  <1>1. stk[t] # <<>> /\ Head(stk[t]) = x /\ x \notin Closing \cup Inner
    BY DEF At, Closing, Inner
  <1>2. /\ Tail(stk[t]) \in Seq(Step) /\ Clean(Tail(stk[t]))
        /\ dguard # t /\ Shut(Tail(stk[t]))
    BY <1>1, HeadOf
  <1>3. r \in Seq(Step) /\ Len(r) = 2
    BY DEF Step, Plain, HeadOnly
  <1>4. Below(r) /\ Shut(r) /\ r[1] = "dial" /\ r # <<>>
    BY DEF Plain, HeadOnly, Below, Shut, Closing
  <1> HIDE DEF r
  <1>5. q \in Seq(Step) /\ Len(q) > 1
    <2>1. q \in Seq(Step) /\ Len(Tail(stk[t])) \in Nat
      BY <1>2, <1>3
    <2>2. Len(q) = Len(r) + Len(Tail(stk[t]))
      BY <1>2, <1>3, Joined
    <2> HIDE DEF q
    <2> QED
      BY <1>3, <2>1, <2>2
  <1>6. Below(q)
    BY <1>2, <1>3, <1>4, CleanJoined
  <1>7. Shut(q)
    BY <1>2, <1>3, <1>4, ShutJoined
  <1>8. q # <<>> /\ Head(q) = "dial"
    BY <1>2, <1>3, <1>4, FirstOf
  <1>9. stk' = [stk EXCEPT ![t] = q]
    BY DEF Then, StackInv, r
  <1>10. \A u \in Task \ {t} : cguard' = u <=> cguard = u
    BY DiscoveryAssumption
  <1> HIDE DEF q
  <1> QED
    BY <1>2, <1>5, <1>6, <1>7, <1>8, <1>9, <1>10, StackMoves

LEMMA LockingStack ==
    ASSUME StackInv, NEW t \in Task,
           Prime(t) \/ ConnectOne(t) \/ ReconnectFrom(t) \/ ConnectAny(t)
    PROVE  StackInv'
  <1>0. \A x \in {"prime", "one", "any", "reconnect"} : x \notin Closing \cup Inner \cup {"dial"}
    BY DEF Closing, Inner
  <1>1. ASSUME UNCHANGED <<stk, rguard, dguard, cguard>> PROVE StackInv'
    BY <1>1 DEF StackInv, At
  <1>2. CASE Prime(t)
    <2>1. /\ At(t, "prime") /\ UNCHANGED <<rguard, dguard>>
          /\ \/ Then(t, <<>>) /\ UNCHANGED cguard
             \/ UNCHANGED <<cguard, stk>>
             \/ cguard = None /\ cguard' = t /\ Then(t, <<"dial", "prime">>)
      BY <1>2 DEF Prime, Skip
    <2> QED
      BY <1>0, <1>1, <2>1, OuterMove, Pushed, DialPushed DEF guards
  <1>3. CASE ConnectOne(t)
    <2>1. /\ At(t, "one") /\ UNCHANGED <<rguard, dguard>>
          /\ \/ Then(t, <<>>) /\ UNCHANGED cguard
             \/ cguard = None /\ cguard' = t /\ Then(t, <<"dial", "one">>)
      BY <1>3 DEF ConnectOne, Skip
    <2> QED
      BY <1>0, <2>1, OuterMove, Pushed, DialPushed DEF guards
  <1>4. CASE ConnectAny(t)
    <2>1. /\ At(t, "any") /\ UNCHANGED <<rguard, dguard>>
          /\ \/ Then(t, <<>>) /\ UNCHANGED cguard
             \/ Then(t, <<"adopt">>) /\ UNCHANGED cguard
             \/ cguard = None /\ cguard' = t /\ Then(t, <<"dial", "any">>)
      BY <1>4 DEF ConnectAny, Skip
    <2> QED
      BY <1>0, <2>1, OuterMove, Pushed, DialPushed DEF guards
  <1>5. CASE ReconnectFrom(t)
    <2>1. /\ At(t, "reconnect") /\ rguard = None /\ UNCHANGED <<dguard, cguard>>
          /\ \/ Then(t, <<>>) /\ UNCHANGED rguard
             \/ Then(t, <<"candLoad", "anyList">>) /\ rguard' = t
      BY <1>5 DEF ReconnectFrom, Skip
    <2>2. \A u \in Task \ {t} : rguard' = u <=> rguard = u
      BY <2>1, DiscoveryAssumption
    <2>3. stk[t] # <<>> /\ Head(stk[t]) \notin Closing \cup {"dial"} /\ Head(stk[t]) \notin Inner
      BY <1>0, <2>1 DEF At
    <2> QED
      BY <2>1, <2>2, <2>3, Pushed, PlainMove
  <1> QED
    BY <1>2, <1>3, <1>4, <1>5

LEMMA Lone ==
    /\ \A x \in Step : <<x>> \in Seq(Step) /\ Below(<<x>>) /\ <<x>> # <<>> /\ Head(<<x>>) = x
    /\ \A x \in Closing : Open(<<x>>)
    /\ \A x : x \notin Closing => Shut(<<x>>)
  <1>1. \A x \in Step : <<x>> \in Seq(Step) /\ <<x>> # <<>> /\ Head(<<x>>) = x
    OBVIOUS
  <1>2. \A x : Below(<<x>>)
    BY DEF Below
  <1>3. ASSUME NEW x \in Closing PROVE Open(<<x>>)
    <2>1. 1 \in 1..Len(<<x>>) /\ <<x>>[1] \in Closing
      BY <1>3
    <2>2. /\ \A i \in 1..(1 - 1) : <<x>>[i] \in Inner
          /\ \A i \in (1 + 1)..Len(<<x>>) : <<x>>[i] \notin Closing
      OBVIOUS
    <2> QED
      BY <2>1, <2>2 DEF Open
  <1>4. \A x : x \notin Closing => Shut(<<x>>)
    BY DEF Shut
  <1> QED
    BY <1>1, <1>2, <1>3, <1>4

\* A request for work ends, or its future is dropped: the guards go with it.
LEMMA EndStack ==
    ASSUME StackInv, NEW t \in Task, Return(t) \/ Cancel(t) PROVE StackInv'
  <1>1. stk' = [stk EXCEPT ![t] = <<"done">>]
    BY DEF Return, Cancel
  <1>2. dguard' # t /\ cguard' # t
    <2>1. CASE Return(t)
      <3>1. stk[t] = <<>> /\ UNCHANGED <<dguard, cguard>>
        BY <2>1 DEF Return
      <3>2. ~Open(stk[t])
        BY <3>1 DEF Open
      <3> QED
        BY <3>1, <3>2 DEF StackInv, At
    <2>2. CASE Cancel(t)
      BY <2>2, DiscoveryAssumption DEF Cancel
    <2> QED
      BY <2>1, <2>2
  <1>3. \A u \in Task \ {t} : /\ dguard' = u <=> dguard = u
                              /\ cguard' = u <=> cguard = u
                              /\ rguard' = u <=> rguard = u
    BY DiscoveryAssumption DEF Return, Cancel
  <1>4. "done" \in Step /\ "done" \notin Closing
    BY DEF Step, Closing
  <1>5. <<"done">> \in Seq(Step) /\ Below(<<"done">>) /\ Shut(<<"done">>) /\ Head(<<"done">>) = "done"
    BY <1>4, Lone
  <1> DEFINE q == <<"done">>
  <1>6. stk' = [stk EXCEPT ![t] = q] /\ q \in Seq(Step) /\ Below(q) /\ Shut(q) /\ Head(q) = "done"
    BY <1>1, <1>5
  <1> HIDE DEF q
  <1> QED
    BY <1>2, <1>3, <1>6, StackMoves

LEMMA ReconnectStack == ASSUME StackInv, NEW t \in Task, Reconnect(t) PROVE StackInv'
  <1> DEFINE r == <<"reconnect">>
             q == r \o Tail(stk[t])
  <1>1. /\ stk[t] # <<>> /\ Head(stk[t]) = "idle" /\ UNCHANGED <<rguard, dguard, cguard>>
        /\ stk' = [stk EXCEPT ![t] = q]
    BY DEF Reconnect, At, guards, Then, StackInv
  <1>2. /\ dguard # t /\ cguard # t /\ rguard # t
        /\ Tail(stk[t]) \in Seq(Step) /\ Clean(Tail(stk[t])) /\ Shut(Tail(stk[t]))
    <2>1. "idle" \notin Closing \cup Inner
      BY DEF Closing, Inner
    <2> QED
      BY <1>1, <2>1, HeadOf DEF StackInv, At
  <1>3. r \in Seq(Step) /\ Below(r) /\ Shut(r) /\ r # <<>> /\ r[1] = "reconnect"
    <2>1. "reconnect" \in Step /\ "reconnect" \notin Closing
      BY DEF Step, HeadOnly, Closing
    <2> QED
      BY <2>1, Lone
  <1> HIDE DEF r
  <1>4. q \in Seq(Step) /\ Below(q) /\ Shut(q) /\ Head(q) = "reconnect"
    BY <1>2, <1>3, Joined, CleanJoined, ShutJoined, FirstOf
  <1> HIDE DEF q
  <1> QED
    BY <1>1, <1>2, <1>4, StackMoves

\* The steps that open and close discovery: r takes the place of the first step.
LEMMA OpenMove ==
    ASSUME StackInv, NEW t \in Task, stk[t] # <<>>, Shut(Tail(stk[t])),
           NEW r \in Seq(Step), r # <<>>, Open(r), Below(r), r[1] \notin {"idle", "reconnect", "dial"},
           Then(t, r), dguard' = t, UNCHANGED <<rguard, cguard>>, cguard # t,
           dguard \in {t, None}
    PROVE  StackInv'
  <1> DEFINE q == r \o Tail(stk[t])
  <1>1. stk' = [stk EXCEPT ![t] = q]
    BY DEF Then, StackInv
  <1>2. Tail(stk[t]) \in Seq(Step) /\ Clean(Tail(stk[t]))
    BY HeadOf
  <1>3. q \in Seq(Step) /\ Below(q)
    BY <1>2, Joined, CleanJoined
  <1>4. Open(q)
    BY <1>2, OpenFirst
  <1>5. Head(q) = r[1]
    BY <1>2, FirstOf
  <1>6. \A u \in Task \ {t} : dguard' = u <=> dguard = u
    BY DiscoveryAssumption
  <1> HIDE DEF q
  <1> QED
    BY <1>1, <1>3, <1>4, <1>5, <1>6, StackMoves

LEMMA RefreshStack ==
    ASSUME StackInv, NEW t \in Task, Refresh(t) \/ RefreshAnswered(t) \/ Update(t)
    PROVE  StackInv'
  <1>0. "asked" \in Closing /\ "update" \in Closing /\ "asked" \in Step /\ "update" \in Step
    BY DEF Closing, Step
  <1>1. CASE Refresh(t)
    <2>1. /\ stk[t] # <<>> /\ Head(stk[t]) = "refresh" /\ Then(t, <<"asked">>)
          /\ dguard = None /\ dguard' = t /\ UNCHANGED <<rguard, cguard>>
      BY <1>1 DEF Refresh, At
    <2>2. cguard # t
      BY <2>1 DEF StackInv, At
    <2>3. Shut(Tail(stk[t]))
      <3>1. "refresh" \notin Closing \cup Inner
        BY DEF Closing, Inner
      <3> QED
        BY <2>1, <3>1, HeadOf
    <2>4. /\ <<"asked">> \in Seq(Step) /\ <<"asked">> # <<>> /\ Open(<<"asked">>)
          /\ Below(<<"asked">>) /\ <<"asked">>[1] = "asked"
      BY <1>0, Lone
    <2> QED
      BY <2>1, <2>2, <2>3, <2>4, OpenMove
  <1>2. CASE RefreshAnswered(t)
    <2>1. /\ stk[t] # <<>> /\ Head(stk[t]) = "asked" /\ Then(t, <<"update">>)
          /\ UNCHANGED <<rguard, dguard, cguard>>
      BY <1>2 DEF RefreshAnswered, At, guards
    <2>2. dguard = t /\ Shut(Tail(stk[t])) /\ cguard # t
      BY <1>0, <2>1, HeadOf DEF StackInv, At
    <2>3. /\ <<"update">> \in Seq(Step) /\ <<"update">> # <<>> /\ Open(<<"update">>)
          /\ Below(<<"update">>) /\ <<"update">>[1] = "update"
      BY <1>0, Lone
    <2> QED
      BY <2>1, <2>2, <2>3, OpenMove
  <1>3. CASE Update(t)
    <2> DEFINE a == <<"candLoad", "release">>
               b == <<"pruneNodes", "prunePool", "close", "candLoad", "release">>
    <2>1. /\ stk[t] # <<>> /\ Head(stk[t]) = "update"
          /\ Then(t, a) \/ Then(t, b)
          /\ UNCHANGED <<rguard, dguard, cguard>>
      BY <1>3 DEF Update, At, guards
    <2>2. dguard = t /\ Shut(Tail(stk[t])) /\ cguard # t
      BY <1>0, <2>1, HeadOf DEF StackInv, At
    <2>3. a \in Seq(Step) /\ a # <<>> /\ Open(a) /\ Below(a) /\ a[1] = "candLoad"
      <3>1. a \in Seq(Step)
        BY DEF Step, Plain, Inner, Closing
      <3>2. Len(a) = 2 /\ a[1] = "candLoad" /\ a[2] = "release"
        OBVIOUS
      <3> HIDE DEF a
      <3>3. 2 \in 1..Len(a) /\ a[2] \in Closing /\ \A i \in (2 + 1)..Len(a) : a[i] \notin Closing
        BY <3>2 DEF Closing
      <3>4. \A i \in 1..(2 - 1) : a[i] \in Inner
        BY <3>2 DEF Inner
      <3>5. Below(a) /\ a # <<>>
        BY <3>2 DEF Below, HeadOnly
      <3> QED
        BY <3>1, <3>2, <3>3, <3>4, <3>5 DEF Open
    <2>4. b \in Seq(Step) /\ b # <<>> /\ Open(b) /\ Below(b) /\ b[1] = "pruneNodes"
      <3>1. b \in Seq(Step)
        BY DEF Step, Plain, Inner, Closing
      <3>2. /\ Len(b) = 5 /\ b[1] = "pruneNodes" /\ b[2] = "prunePool" /\ b[3] = "close"
            /\ b[4] = "candLoad" /\ b[5] = "release"
        OBVIOUS
      <3> HIDE DEF b
      <3>3. 5 \in 1..Len(b) /\ b[5] \in Closing /\ \A i \in (5 + 1)..Len(b) : b[i] \notin Closing
        BY <3>2 DEF Closing
      <3>4. \A i \in 1..(5 - 1) : b[i] \in Inner
        BY <3>2 DEF Inner
      <3>5. Below(b) /\ b # <<>>
        BY <3>2 DEF Below, HeadOnly
      <3> QED
        BY <3>1, <3>2, <3>3, <3>4, <3>5 DEF Open
    <2> HIDE DEF a, b
    <2> QED
      BY <2>1, <2>2, <2>3, <2>4, OpenMove
  <1> QED
    BY <1>1, <1>2, <1>3

\* Steps that give discovery or connect guard back: q is left to do.
LEMMA ShutMove ==
    ASSUME StackInv, NEW t \in Task, NEW q \in Seq(Step), Clean(q), Shut(q),
           stk' = [stk EXCEPT ![t] = q], dguard' # t, cguard' # t, UNCHANGED rguard,
           \A u \in Task \ {t} : (dguard' = u <=> dguard = u) /\ (cguard' = u <=> cguard = u)
    PROVE  StackInv'
  <1>1. Below(q)
    BY DEF Clean, Below
  <1>2. q = <<>> \/ Head(q) \notin {"idle", "reconnect", "dial"}
    BY Rest DEF Clean, HeadOnly
  <1> QED
    BY <1>1, <1>2, StackMoves

LEMMA RestClean ==
    ASSUME NEW s \in Seq(Step), s # <<>>, Clean(s), Shut(s)
    PROVE  Tail(s) \in Seq(Step) /\ Clean(Tail(s)) /\ Shut(Tail(s))
  BY Rest DEF Clean, Shut

\* What follows discovery or a dial, with plain steps r in front.
LEMMA AfterwardsClean ==
    ASSUME NEW u \in Seq(Step), Clean(u), Shut(u), NEW r \in Seq(Plain)
    PROVE  r \o u \in Seq(Step) /\ Clean(r \o u) /\ Shut(r \o u)
  <1>1. r \in Seq(Step) /\ Clean(r) /\ Shut(r)
    BY PlainSeq
  <1> QED
    BY <1>1, Joined, CleanJoined, ShutJoined

LEMMA ReleaseStack ==
    ASSUME StackInv, NEW t \in Task, RefreshFails(t) \/ Release(t) PROVE StackInv'
  <1> DEFINE u == Tail(stk[t])
             p == <<"primeList">>
  <1>1. /\ stk[t] # <<>> /\ Head(stk[t]) \in Closing /\ Head(stk[t]) # "dial"
        /\ dguard' = None /\ UNCHANGED <<rguard, cguard>>
    BY DEF RefreshFails, Release, At, Closing
  <1>2. /\ dguard = t /\ cguard # t /\ stk[t] \in Seq(Step)
        /\ u \in Seq(Step) /\ Clean(u) /\ Shut(u)
    BY <1>1, HeadOf DEF StackInv, At
  <1>3. \A v \in Task \ {t} : dguard' = v <=> dguard = v
    BY <1>1, <1>2, DiscoveryAssumption
  <1>4. dguard' # t /\ cguard' # t
    BY <1>1, <1>2, DiscoveryAssumption
  <1>5. p \in Seq(Plain)
    BY Pushed
  <1>6. \/ stk' = [stk EXCEPT ![t] = u]
        \/ stk' = [stk EXCEPT ![t] = p \o u]
        \/ u # <<>> /\ stk' = [stk EXCEPT ![t] = p \o Tail(u)]
    <2>1. CASE RefreshFails(t)
      <3>1. CASE u # <<>> /\ stk' = [stk EXCEPT ![t] = p \o Tail(u)]
        BY <3>1
      <3>2. CASE Skip(t)
        <4>1. <<>> \o u = u
          BY <1>2
        <4> QED
          BY <3>2, <4>1 DEF Skip, Then, StackInv
      <3> QED
        BY <2>1, <3>1, <3>2 DEF RefreshFails, StackInv
    <2>2. CASE Release(t)
      <3>1. CASE Len(stk[t]) > 1 /\ stk[t][2] = "connected"
        <4>1. u # <<>>
          BY <1>1, <1>2, <3>1, LongRest
        <4>2. stk' = [stk EXCEPT ![t] = p \o Tail(u)]
          BY <2>2, <3>1 DEF Release, StackInv
        <4> QED
          BY <4>1, <4>2
      <3>2. CASE ~(Len(stk[t]) > 1 /\ stk[t][2] = "connected")
        BY <2>2, <3>2 DEF Release, StackInv
      <3> QED
        BY <3>1, <3>2
    <2> QED
      BY <2>1, <2>2
  <1> HIDE DEF p, u
  <1>7. CASE stk' = [stk EXCEPT ![t] = u]
    BY <1>1, <1>2, <1>3, <1>4, <1>7, ShutMove
  <1>8. CASE stk' = [stk EXCEPT ![t] = p \o u]
    BY <1>1, <1>2, <1>3, <1>4, <1>5, <1>8, AfterwardsClean, ShutMove
  <1>9. CASE u # <<>> /\ stk' = [stk EXCEPT ![t] = p \o Tail(u)]
    <2>1. Tail(u) \in Seq(Step) /\ Clean(Tail(u)) /\ Shut(Tail(u))
      BY <1>2, <1>9, RestClean
    <2>2. p \o Tail(u) \in Seq(Step) /\ Clean(p \o Tail(u)) /\ Shut(p \o Tail(u))
      BY <1>5, <2>1, AfterwardsClean
    <2> QED
      BY <1>1, <1>3, <1>4, <1>9, <2>2, ShutMove
  <1> QED
    BY <1>6, <1>7, <1>8, <1>9

LEMMA DialStack ==
    ASSUME StackInv, NEW t \in Task, DialOk(t) \/ DialFails(t) PROVE StackInv'
  <1> DEFINE u == Tail(stk[t])
  <1>1. /\ stk[t] # <<>> /\ Head(stk[t]) = "dial" /\ At(t, "dial")
        /\ cguard' = None /\ UNCHANGED <<rguard, dguard>>
    BY DEF DialOk, DialFails, At
  <1>2. /\ dguard # t /\ cguard = t /\ stk[t] \in Seq(Step) /\ Len(stk[t]) > 1
        /\ u \in Seq(Step) /\ Clean(u) /\ Shut(u)
    <2>1. "dial" \notin Closing \cup Inner
      BY DEF Closing, Inner
    <2> QED
      BY <1>1, <2>1, HeadOf DEF StackInv
  <1>3. u # <<>>
    BY <1>1, <1>2, LongRest
  <1>4. Tail(u) \in Seq(Step) /\ Clean(Tail(u)) /\ Shut(Tail(u))
    BY <1>2, <1>3, RestClean
  <1>5. \A v \in Task \ {t} : cguard' = v <=> cguard = v
    BY <1>1, <1>2, DiscoveryAssumption
  <1>6. dguard' # t /\ cguard' # t
    BY <1>1, <1>2, DiscoveryAssumption
  <1>7. ASSUME NEW v \in {u, Tail(u)}, NEW r \in Seq(Plain), stk' = [stk EXCEPT ![t] = r \o v]
        PROVE  StackInv'
    <2>1. v \in Seq(Step) /\ Clean(v) /\ Shut(v)
      BY <1>2, <1>4, <1>7
    <2>2. r \o v \in Seq(Step) /\ Clean(r \o v) /\ Shut(r \o v)
      BY <2>1, AfterwardsClean
    <2> QED
      BY <1>1, <1>5, <1>6, <1>7, <2>2, ShutMove
  <1>8. CASE DialFails(t)
    BY <1>7, <1>8, Pushed DEF DialFails, Skip, Then, StackInv
  <1>9. CASE DialOk(t)
    <2> DEFINE a == <<"identity">>
               b == <<"identity", "connected">>
               c == <<"identity", "connected">> \o <<"adopt">>
    <2>1. a \in Seq(Plain) /\ b \in Seq(Plain) /\ c \in Seq(Plain)
      BY DEF Plain
    <2>2. b \o <<>> = b
      OBVIOUS
    <2>3. \/ stk' = [stk EXCEPT ![t] = a \o u]
          \/ stk' = [stk EXCEPT ![t] = c \o Tail(u)]
          \/ stk' = [stk EXCEPT ![t] = b \o Tail(u)]
      <3>1. CASE stk' = [stk EXCEPT ![t] = a \o Tail(@)]
        BY <3>1 DEF StackInv
      <3>2. CASE For(t) = "any" /\ stk' = [stk EXCEPT ![t] = c \o Tail(Tail(@))]
        BY <3>2 DEF StackInv
      <3>3. CASE For(t) # "any" /\ stk' = [stk EXCEPT ![t] = (b \o <<>>) \o Tail(Tail(@))]
        BY <2>2, <3>3 DEF StackInv
      <3> QED
        BY <1>9, <3>1, <3>2, <3>3 DEF DialOk
    <2> HIDE DEF a, b, c
    <2> QED
      BY <1>7, <2>1, <2>3
  <1> QED
    BY <1>8, <1>9

LEMMA InitStack == Init => StackInv
  <1> SUFFICES ASSUME Init PROVE StackInv
    OBVIOUS
  <1>1. "idle" \in Step /\ "idle" \notin Closing
    BY DEF Step, HeadOnly, Closing
  <1>2. /\ DOMAIN stk = Task /\ \A t \in Task : stk[t] = <<"idle">>
        /\ rguard = None /\ dguard = None /\ cguard = None
    BY DEF Init
  <1>3. \A t \in Task : stk[t] \in Seq(Step) /\ Below(stk[t]) /\ Shut(stk[t]) /\ ~At(t, "dial")
    BY <1>1, <1>2, Lone DEF At
  <1> QED
    BY <1>2, <1>3, DiscoveryAssumption DEF StackInv

LEMMA NextStack == StackInv /\ [Next]_vars => StackInv'
  <1> SUFFICES ASSUME StackInv, [Next]_vars PROVE StackInv'
    OBVIOUS
  <1>1. ASSUME UNCHANGED <<stk, rguard, dguard, cguard>> PROVE StackInv'
    BY <1>1 DEF StackInv, At
  <1>2. CASE Change \/ Break \/ Quiet \/ UNCHANGED vars
    BY <1>1, <1>2 DEF Change, Break, Quiet, vars, guards
  <1>3. ASSUME NEW t \in Task, Start(t) PROVE StackInv'
    BY <1>3, OuterSteps, ReconnectStack DEF Start
  <1>4. ASSUME NEW t \in Task, Work(t) PROVE StackInv'
    BY <1>4, OuterSteps, InnerSteps, ConnectedStack, EndStack, RefreshStack, ReleaseStack,
       DialStack DEF Work
  <1>5. ASSUME NEW t \in Task, Locking(t) PROVE StackInv'
    BY <1>5, LockingStack, RefreshStack DEF Locking
  <1>6. ASSUME NEW t \in Task, Cancel(t) PROVE StackInv'
    BY <1>6, EndStack
  <1> QED
    BY <1>2, <1>3, <1>4, <1>5, <1>6 DEF Next

\* Whatever the tasks do and wherever they are cancelled, no cycle of waiting tasks can
\* form: a task with the connect or the discovery guard waits for no guard, and none
\* with the reconnect guard waits for that guard again.
THEOREM GuardsOrdered == Spec => []GuardOrder
  <1>1. StackInv => GuardOrder
    <2> SUFFICES ASSUME StackInv, NEW t \in Task
                 PROVE  /\ t \in {cguard, dguard} =>
                             \A w \in {"refresh", "prime", "one", "any", "reconnect"} : ~At(t, w)
                        /\ t = rguard => ~At(t, "reconnect")
      BY DEF GuardOrder
    <2>1. CASE t = cguard
      BY <2>1 DEF StackInv, At
    <2>2. ASSUME t = dguard, NEW w \in {"refresh", "prime", "one", "any", "reconnect"}, At(t, w)
          PROVE  FALSE
      <3>1. stk[t] # <<>> /\ Head(stk[t]) \notin Closing \cup Inner
        BY <2>2 DEF At, Closing, Inner
      <3> QED
        BY <2>2, <3>1, HeadOf
    <2>3. t = rguard => ~At(t, "reconnect")
      BY DEF StackInv
    <2> QED
      BY <2>1, <2>2, <2>3
  <1> QED
    BY <1>1, InitStack, NextStack, PTL DEF Spec

----------------------------------------------------------------------------
(* The candidates *)

Fields == DOMAIN Blank

\* Every task has its locals.
LocalInv == DOMAIN l = Task /\ \A t \in Task : DOMAIN l[t] = Fields

\* A task has a list of candidates only between CandLoad and CandStore, when the pool
\* cannot lose a connection.
ListInv ==
    /\ \A t \in Task : /\ l[t].list \subseteq pool
                       /\ l[t].list # {} => At(t, "candStore")
    /\ cands \subseteq pool

LEMMA FieldNames ==
    Fields = {"conn", "via", "todo", "prime", "start", "ans", "edit", "map", "list", "doomed",
              "cache", "key", "node", "seeds", "last"}
  BY DEF Fields, Blank

\* What a step of t does to the locals: those of the other tasks stay, t's list changes
\* only where the candidates are loaded and stored, and t refreshes from a connection that
\* is active or in the pool.
Local(t) ==
    /\ DOMAIN l' = Task /\ DOMAIN l'[t] = Fields
    /\ \A u \in Task \ {t} : l'[u] = l[u]
    /\ l'[t].list \in {l[t].list, {}}
    /\ l'[t].via \in {l[t].via, 1, active} \cup pool'

LEMMA SetLocal ==
    ASSUME LocalInv, NEW t \in Task, NEW f \in Fields \ {"list", "via"}, NEW v, Set(t, f, v)
    PROVE  Local(t)
  <1>1. l'[t] = [l[t] EXCEPT ![f] = v] /\ DOMAIN l[t] = Fields
    BY DEF Set, LocalInv
  <1>2. {"list", "via"} \subseteq Fields
    BY FieldNames
  <1>3. l'[t].list = l[t].list /\ l'[t].via = l[t].via
    BY <1>1, <1>2
  <1> QED
    BY <1>1, <1>3 DEF Set, LocalInv, Local

LEMMA SameLocal == ASSUME LocalInv, NEW t \in Task, UNCHANGED l PROVE Local(t)
  BY DEF LocalInv, Local

LEMMA StepLocal ==
    ASSUME LocalInv, NEW t \in Task, Start(t) \/ Work(t) \/ Locking(t) \/ Cancel(t),
           ~CandLoad(t), ~CandStore(t)
    PROVE  Local(t)
  <1>1. \A f \in {"start", "last", "edit", "ans", "map", "doomed", "prime", "todo", "conn", "seeds"} :
           f \in Fields \ {"list", "via"}
    BY FieldNames
  <1>2. CASE ObserveChange(t)
    BY <1>1, <1>2, SetLocal DEF ObserveChange
  <1>3. CASE Reconnect(t)
    BY <1>1, <1>3, SetLocal DEF Reconnect
  <1>4. CASE Invalidate(t)
    BY <1>1, <1>4, SetLocal DEF Invalidate
  <1>5. CASE Apply(t)
    BY <1>1, <1>5, SetLocal DEF Apply
  <1>6. CASE StoreSnapshot(t)
    BY <1>1, <1>6, SetLocal DEF StoreSnapshot
  <1>7. CASE FetchAnswered(t)
    BY <1>1, <1>7, SetLocal DEF FetchAnswered
  <1>8. CASE FetchFails(t)
    BY <1>1, <1>8, SetLocal DEF FetchFails
  <1>9. CASE Refresh(t)
    BY <1>1, <1>9, SetLocal DEF Refresh
  <1>10. CASE RefreshAnswered(t)
    BY <1>1, <1>10, SetLocal DEF RefreshAnswered
  <1>11. CASE StoreByNode(t)
    BY <1>1, <1>11, SetLocal DEF StoreByNode
  <1>12. CASE PrunePool(t)
    BY <1>1, <1>12, SetLocal DEF PrunePool
  <1>13. CASE Close(t)
    BY <1>1, <1>13, SetLocal DEF Close
  <1>14. CASE PrimeList(t)
    BY <1>1, <1>14, SetLocal DEF PrimeList
  <1>15. CASE Index(t)
    BY <1>1, <1>15, SetLocal DEF Index
  <1>16. CASE AnyList(t)
    BY <1>1, <1>16, SetLocal DEF AnyList
  <1>17. CASE PruneSeeds(t)
    BY <1>1, <1>17, SetLocal DEF PruneSeeds
  <1>18. CASE StoreFlag(t) \/ Update(t) \/ Identity(t)
             \/ Connected(t) \/ ConnectOne(t) \/ Adopt(t)
    BY <1>18, SameLocal DEF StoreFlag, Update, Identity, Connected, ConnectOne, Adopt
  <1>19. CASE PruneNodes(t)
    BY <1>1, <1>19, SetLocal, SameLocal DEF PruneNodes
  <1>20. CASE Prime(t)
    BY <1>1, <1>20, SetLocal, SameLocal DEF Prime
  <1>21. CASE Route(t)
    BY <1>1, <1>21, SetLocal, SameLocal DEF Route
  <1>22. CASE DialFails(t)
    BY <1>1, <1>22, SetLocal, SameLocal DEF DialFails
  <1>23. CASE ReconnectFrom(t)
    BY <1>1, <1>23, SetLocal, SameLocal DEF ReconnectFrom
  <1>24. CASE Lookup(t)
    BY <1>24, FieldNames DEF Lookup, LocalInv, Local
  <1>25. CASE Resolve(t)
    BY <1>25, FieldNames DEF Resolve, LocalInv, Local
  <1>26. CASE RefreshFails(t)
    BY <1>26, FieldNames DEF RefreshFails, LocalInv, Local
  <1>27. CASE Release(t)
    BY <1>27, FieldNames DEF Release, LocalInv, Local
  <1>28. CASE Return(t)
    <2>1. l' = [l EXCEPT ![t] = Blank] /\ DOMAIN Blank = Fields /\ Blank.list = {} /\ Blank.via = 1
      BY <1>28 DEF Return, Fields, Blank
    <2> QED
      BY <2>1 DEF LocalInv, Local
  <1>29. CASE Cancel(t)
    <2>1. l' = [l EXCEPT ![t] = Blank] /\ DOMAIN Blank = Fields /\ Blank.list = {} /\ Blank.via = 1
      BY <1>29 DEF Cancel, Fields, Blank
    <2> QED
      BY <2>1 DEF LocalInv, Local
  <1>30. CASE HandleChange(t)
    <2>1. CASE l' = [l EXCEPT ![t].via = active, ![t].start = Unknown]
      BY <2>1, FieldNames DEF LocalInv, Local
    <2> QED
      BY <1>30, <2>1, SameLocal DEF HandleChange
  <1>31. CASE ConnectAny(t)
    <2>1. ASSUME NEW c \in pool', l' = [l EXCEPT ![t].via = c, ![t].todo = <<>>]
          PROVE  Local(t)
      BY <2>1, FieldNames DEF LocalInv, Local
    <2> QED
      BY <1>31, <2>1, SameLocal DEF ConnectAny, UpAt, linkVars
  <1>32. CASE DialOk(t)
    <2>1. ASSUME NEW c, l' = [l EXCEPT ![t].conn = c, ![t].prime = Tail(@)] PROVE Local(t)
      BY <2>1, FieldNames DEF LocalInv, Local
    <2>2. ASSUME NEW c \in pool', l' = [l EXCEPT ![t].conn = c, ![t].via = c, ![t].todo = <<>>]
          PROVE  Local(t)
      BY <2>2, FieldNames DEF LocalInv, Local
    <2> QED
      BY <1>32, <2>1, <2>2 DEF DialOk
  <1> QED
    BY <1>2, <1>3, <1>4, <1>5, <1>6, <1>7, <1>8, <1>9, <1>10, <1>11, <1>12, <1>13, <1>14, <1>15,
       <1>16, <1>17, <1>18, <1>19, <1>20, <1>21, <1>22, <1>23, <1>24, <1>25, <1>26, <1>27, <1>28, <1>29, <1>30, <1>31, <1>32 DEF Start, Work, Locking

LEMMA OthersStay ==
    ASSUME StackInv, NEW t \in Task, Start(t) \/ Work(t) \/ Locking(t) \/ Cancel(t),
           NEW u \in Task \ {t}
    PROVE  stk'[u] = stk[u] /\ \A x : At(u, x)' <=> At(u, x)
  <1> SUFFICES stk'[u] = stk[u]
    BY DEF At
  <1>1. ASSUME NEW q, stk' = [stk EXCEPT ![t] = q] PROVE stk'[u] = stk[u]
    BY <1>1 DEF StackInv
  <1>2. ASSUME NEW r, Then(t, r) PROVE stk'[u] = stk[u]
    BY <1>2 DEF Then, StackInv
  <1>3. CASE Start(t)
    BY <1>2, <1>3 DEF Start, ObserveChange, Lookup, Reconnect
  <1>4. CASE \/ Return(t) \/ RefreshFails(t) \/ Release(t) \/ DialOk(t) \/ Connected(t)
             \/ Cancel(t)
    BY <1>1, <1>2, <1>4
       DEF Return, RefreshFails, Release, DialOk, Connected, Cancel, Skip, StackInv
  <1>5. CASE \/ Invalidate(t) \/ Apply(t) \/ StoreFlag(t) \/ StoreSnapshot(t)
             \/ FetchAnswered(t) \/ FetchFails(t) \/ Resolve(t) \/ HandleChange(t)
    BY <1>2, <1>5 DEF Invalidate, Apply, StoreFlag, StoreSnapshot, FetchAnswered, FetchFails,
       Resolve, HandleChange, Skip
  <1>6. CASE \/ RefreshAnswered(t) \/ Update(t) \/ PruneNodes(t) \/ StoreByNode(t)
             \/ PrunePool(t) \/ Close(t) \/ CandLoad(t) \/ CandStore(t) \/ PrimeList(t)
    BY <1>2, <1>6 DEF RefreshAnswered, Update, PruneNodes, StoreByNode, PrunePool, Close,
       CandLoad, CandStore, PrimeList, Skip
  <1>7. CASE \/ DialFails(t) \/ Identity(t) \/ Index(t) \/ Route(t) \/ AnyList(t) \/ Adopt(t)
             \/ PruneSeeds(t)
    BY <1>2, <1>7 DEF DialFails, Identity, Index, Route, AnyList, Adopt, PruneSeeds, Skip
  <1>8. CASE Locking(t)
    BY <1>2, <1>8, ZenonT(30) DEF Locking, Refresh, Prime, ConnectOne, ReconnectFrom, ConnectAny, Skip
  <1> QED
    BY <1>3, <1>4, <1>5, <1>6, <1>7, <1>8 DEF Work

\* The pool loses connections only while nobody is between loading and storing the
\* candidates, and whoever changes it stores candidates of the new one.
LEMMA PoolStep ==
    ASSUME NEW t \in Task, Start(t) \/ Work(t) \/ Locking(t) \/ Cancel(t), ~CandStore(t)
    PROVE  /\ UNCHANGED pool \/ (NoReader /\ cands' \subseteq pool')
           /\ UNCHANGED cands \/ cands' \subseteq pool'
  <1>1. CASE PrunePool(t)
    BY <1>1 DEF PrunePool, InView
  <1>2. CASE PruneSeeds(t)
    BY <1>2 DEF PruneSeeds, InView
  <1>3. CASE DialOk(t)
    BY <1>3 DEF DialOk
  <1>4. CASE Start(t) \/ Locking(t) \/ Cancel(t)
    BY <1>4 DEF Start, ObserveChange, Lookup, Reconnect, Locking, Refresh, Prime, ConnectOne,
       ReconnectFrom, ConnectAny, Cancel, linkVars
  <1>5. CASE Work(t) /\ ~PrunePool(t) /\ ~PruneSeeds(t) /\ ~DialOk(t)
    BY <1>5 DEF Work, Return, Invalidate, Apply, StoreFlag, StoreSnapshot, FetchAnswered,
       FetchFails, Resolve, HandleChange, RefreshAnswered, RefreshFails, Update, PruneNodes,
       StoreByNode, Close, CandLoad, Release, PrimeList, DialFails, Identity, Index, Connected,
       Route, AnyList, Adopt, linkVars
  <1> QED
    BY <1>1, <1>2, <1>3, <1>4, <1>5

\* Whoever is about to store candidates does nothing else first.
LEMMA NotAtStore ==
    ASSUME NEW t \in Task, Start(t) \/ Work(t) \/ Locking(t) \/ Cancel(t), ~CandStore(t)
    PROVE  ~At(t, "candStore")
  <1>1. CASE Start(t) \/ Locking(t)
    BY <1>1 DEF Start, ObserveChange, Lookup, Reconnect, Locking, Refresh, Prime, ConnectOne,
       ReconnectFrom, ConnectAny, At
  <1>2. CASE Cancel(t) \/ Return(t)
    BY <1>2 DEF Cancel, Return, At, Awaiting
  <1>3. CASE Work(t) /\ ~Return(t)
    BY <1>3 DEF Work, Invalidate, Apply, StoreFlag, StoreSnapshot, FetchAnswered,
       FetchFails, Resolve, HandleChange, RefreshAnswered, RefreshFails, Update, PruneNodes,
       StoreByNode, PrunePool, Close, CandLoad, Release, PrimeList, DialOk, DialFails, Identity,
       Index, Connected, Route, AnyList, Adopt, PruneSeeds, At
  <1> QED
    BY <1>1, <1>2, <1>3

LEMMA InitList == Init => LocalInv /\ ListInv
  <1> SUFFICES ASSUME Init PROVE LocalInv /\ ListInv
    OBVIOUS
  <1>1. l = [t \in Task |-> Blank] /\ pool = {1} /\ cands = {1}
    BY DEF Init
  <1>2. DOMAIN l = Task /\ \A t \in Task : l[t] = Blank
    BY <1>1
  <1>3. Blank.list = {}
    BY DEF Blank
  <1>4. LocalInv
    BY <1>2 DEF LocalInv, Fields
  <1>5. ListInv
    BY <1>1, <1>2, <1>3 DEF ListInv
  <1> QED
    BY <1>4, <1>5

LEMMA TaskList ==
    ASSUME StackInv, LocalInv, ListInv, NEW t \in Task,
           Start(t) \/ Work(t) \/ Locking(t) \/ Cancel(t)
    PROVE  LocalInv' /\ ListInv'
  <1>1. \A u \in Task \ {t} : \A x : At(u, x)' <=> At(u, x)
    BY OthersStay
  <1>2. CASE CandLoad(t)
    <2>1. /\ l' = [l EXCEPT ![t]["list"] = InView(pool, topo)] /\ UNCHANGED <<pool, cands>>
          /\ Then(t, <<"candStore">>) /\ At(t, "candLoad")
      BY <1>2 DEF CandLoad, Set, linkVars
    <2>2. InView(pool, topo) \subseteq pool
      BY DEF InView
    <2>3. At(t, "candStore")'
      <3>1. stk[t] \in Seq(Step) /\ stk[t] # <<>> /\ DOMAIN stk = Task
        BY <2>1 DEF StackInv, At
      <3>2. stk'[t] = <<"candStore">> \o Tail(stk[t]) /\ Tail(stk[t]) \in Seq(Step)
        BY <2>1, <3>1 DEF Then
      <3>3. <<"candStore">> \in Seq(Step) /\ <<"candStore">> # <<>> /\ <<"candStore">>[1] = "candStore"
        BY DEF Step, Plain, Inner
      <3> QED
        BY <3>2, <3>3, FirstOf DEF At
    <2>4. /\ DOMAIN l' = Task /\ DOMAIN l'[t] = Fields /\ l'[t].list = InView(pool, topo)
          /\ \A u \in Task \ {t} : l'[u] = l[u]
      BY <2>1, FieldNames DEF LocalInv
    <2>5. LocalInv'
      BY <2>4 DEF LocalInv
    <2>6. ListInv'
      BY <1>1, <2>1, <2>2, <2>3, <2>4 DEF ListInv
    <2> QED
      BY <2>5, <2>6
  <1>3. CASE CandStore(t)
    <2>1. /\ l' = [l EXCEPT ![t]["list"] = {}] /\ UNCHANGED pool /\ cands' = l[t].list
      BY <1>3 DEF CandStore, Set
    <2>2. /\ DOMAIN l' = Task /\ DOMAIN l'[t] = Fields /\ l'[t].list = {}
          /\ \A u \in Task \ {t} : l'[u] = l[u]
      BY <2>1, FieldNames DEF LocalInv
    <2>3. LocalInv'
      BY <2>2 DEF LocalInv
    <2>4. ListInv'
      BY <1>1, <2>1, <2>2 DEF ListInv
    <2> QED
      BY <2>3, <2>4
  <1>4. CASE ~CandLoad(t) /\ ~CandStore(t)
    <2>1. Local(t)
      BY <1>4, StepLocal
    <2>2. LocalInv'
      BY <2>1 DEF Local, LocalInv
    <2>3. ~At(t, "candStore")
      BY <1>4, NotAtStore
    <2>4. l'[t].list = {}
      BY <2>1, <2>3 DEF Local, ListInv
    <2>5. \A u \in Task \ {t} : l'[u].list \subseteq pool'
      BY <1>4, <2>1, PoolStep DEF Local, ListInv, NoReader
    <2>6. cands' \subseteq pool'
      BY <1>4, PoolStep DEF ListInv
    <2>7. ListInv'
      BY <1>1, <2>1, <2>4, <2>5, <2>6 DEF Local, ListInv
    <2> QED
      BY <2>2, <2>7
  <1> QED
    BY <1>2, <1>3, <1>4

LEMMA NextList ==
    ASSUME StackInv, LocalInv, ListInv, [Next]_vars PROVE LocalInv' /\ ListInv'
  <1>1. ASSUME UNCHANGED <<l, stk, pool, cands>> PROVE LocalInv' /\ ListInv'
    BY <1>1 DEF LocalInv, ListInv, At
  <1>2. CASE Change \/ Break \/ Quiet \/ UNCHANGED vars
    BY <1>1, <1>2 DEF Change, Break, Quiet, vars, linkVars
  <1> QED
    BY <1>2, TaskList DEF Next

\* Requests choose their connection from a list that holds none that was pruned, for
\* every interleaving of refreshes, dials and prunings.
THEOREM CandidatesPooled == Spec => []CandidatesInPool
  <1>1. ListInv => CandidatesInPool
    BY DEF ListInv, CandidatesInPool
  <1>2. Init => StackInv /\ LocalInv /\ ListInv
    BY InitStack, InitList
  <1>3. StackInv /\ LocalInv /\ ListInv /\ [Next]_vars => (StackInv /\ LocalInv /\ ListInv)'
    BY NextStack, NextList
  <1> QED
    BY <1>1, <1>2, <1>3, PTL DEF Spec

----------------------------------------------------------------------------
(* The version *)

\* Connections and versions that are named exist.
RefInv ==
    /\ hist \in Seq(SUBSET Node) /\ Len(hist) > 0
    /\ chan \in Seq([addr : {Home[n] : n \in Node}, node : Node])
    /\ pool \subseteq 1..Len(chan) /\ active \in 1..Len(chan)
    /\ \A t \in Task : l[t].via \in 1..Len(chan)

LEMMA InitRef == Init => RefInv
  <1> SUFFICES ASSUME Init PROVE RefInv
    OBVIOUS
  <1>1. PICK n \in First : chan = <<[addr |-> Home[n], node |-> n]>>
    BY DEF Init
  <1>2. n \in Node /\ hist = <<First>> /\ First \in SUBSET Node
    BY DiscoveryAssumption DEF Init
  <1>3. hist \in Seq(SUBSET Node) /\ Len(hist) > 0
    BY <1>2
  <1>4. chan \in Seq([addr : {Home[m] : m \in Node}, node : Node]) /\ Len(chan) = 1
    BY <1>1, <1>2
  <1>5. pool = {1} /\ active = 1 /\ \A t \in Task : l[t].via = 1
    BY DEF Init, Blank
  <1> QED
    BY <1>3, <1>4, <1>5 DEF RefInv

\* Connections are numbered as they are made, and only a dial makes one.
LEMMA ChanStep ==
    ASSUME NEW t \in Task, Start(t) \/ Work(t) \/ Locking(t) \/ Cancel(t)
    PROVE  /\ UNCHANGED hist
           /\ DialOk(t) \/ (UNCHANGED chan /\ pool' \subseteq pool)
           /\ active' \in {active, l[t].via}
  <1>1. CASE Start(t) \/ Locking(t) \/ Cancel(t)
    BY <1>1 DEF Start, ObserveChange, Lookup, Reconnect, Locking, Refresh, Prime, ConnectOne,
       ReconnectFrom, ConnectAny, Cancel, linkVars
  <1>2. CASE PrunePool(t) \/ PruneSeeds(t) \/ Adopt(t) \/ DialOk(t)
    BY <1>2 DEF PrunePool, PruneSeeds, Adopt, DialOk
  <1>3. CASE Work(t) /\ ~(PrunePool(t) \/ PruneSeeds(t) \/ Adopt(t) \/ DialOk(t))
    BY <1>3 DEF Work, Return, Invalidate, Apply, StoreFlag, StoreSnapshot, FetchAnswered,
       FetchFails, Resolve, HandleChange, RefreshAnswered, RefreshFails, Update, PruneNodes,
       StoreByNode, Close, CandLoad, CandStore, Release, PrimeList, DialFails, Identity, Index,
       Connected, Route, AnyList, linkVars
  <1> QED
    BY <1>1, <1>2, <1>3

LEMMA StepVia ==
    ASSUME LocalInv, NEW t \in Task, Start(t) \/ Work(t) \/ Locking(t) \/ Cancel(t)
    PROVE  /\ \A u \in Task \ {t} : l'[u] = l[u]
           /\ l'[t].via \in {l[t].via, 1, active} \cup pool'
  <1>1. ASSUME NEW v, l' = [l EXCEPT ![t]["list"] = v]
        PROVE  (\A u \in Task \ {t} : l'[u] = l[u]) /\ l'[t].via = l[t].via
    BY <1>1, FieldNames DEF LocalInv
  <1>2. CASE CandLoad(t)
    BY <1>1, <1>2 DEF CandLoad, Set
  <1>3. CASE CandStore(t)
    BY <1>1, <1>3 DEF CandStore, Set
  <1> QED
    BY <1>2, <1>3, StepLocal DEF Local

LEMMA TaskRef ==
    ASSUME LocalInv, RefInv, NEW t \in Task, Start(t) \/ Work(t) \/ Locking(t) \/ Cancel(t)
    PROVE  RefInv'
  <1>1. Len(chan) \in Nat /\ 1 \in 1..Len(chan)
    BY DEF RefInv
  <1>2. /\ chan' \in Seq([addr : {Home[n] : n \in Node}, node : Node])
        /\ pool' \subseteq 1..Len(chan') /\ 1..Len(chan) \subseteq 1..Len(chan')
    <2>1. CASE DialOk(t)
      <3>1. PICK n \in Cluster : /\ chan' = Append(chan, [addr |-> Home[n], node |-> n])
                                 /\ pool' = pool \cup {Len(chan) + 1}
        BY <2>1 DEF DialOk
      <3>2. n \in Node
        BY DEF RefInv, Cluster
      <3>3. [addr |-> Home[n], node |-> n] \in [addr : {Home[m] : m \in Node}, node : Node]
        BY <3>2
      <3>4. /\ chan' \in Seq([addr : {Home[m] : m \in Node}, node : Node])
            /\ Len(chan') = Len(chan) + 1
        BY <3>1, <3>3 DEF RefInv
      <3>5. 1..Len(chan) \subseteq 1..Len(chan') /\ Len(chan) + 1 \in 1..Len(chan')
        BY <1>1, <3>4
      <3>6. pool' \subseteq 1..Len(chan')
        BY <3>1, <3>5 DEF RefInv
      <3> QED
        BY <3>4, <3>5, <3>6
    <2>2. CASE UNCHANGED chan /\ pool' \subseteq pool
      BY <2>2 DEF RefInv
    <2> QED
      BY <2>1, <2>2, ChanStep
  <1>3. l'[t].via \in 1..Len(chan') /\ \A u \in Task \ {t} : l'[u].via \in 1..Len(chan')
    BY <1>1, <1>2, StepVia DEF RefInv
  <1>4. active' \in 1..Len(chan') /\ UNCHANGED hist
    BY <1>2, ChanStep DEF RefInv
  <1> QED
    BY <1>2, <1>3, <1>4 DEF RefInv

LEMMA ClusterMoves ==
    ASSUME hist \in Seq(SUBSET Node), Len(hist) > 0, Change
    PROVE  /\ hist' \in Seq(SUBSET Node) /\ Len(hist') = Len(hist) + 1
           /\ \A v \in 1..Len(hist) : hist'[v] = hist[v]
  <1>1. PICK N \in SUBSET Node : hist' = Append(hist, N)
    <2>1. Cluster \in SUBSET Node
      BY DEF Cluster
    <2> QED
      BY <2>1 DEF Change
  <1> QED
    BY <1>1

LEMMA NextRef == ASSUME LocalInv, RefInv, [Next]_vars PROVE RefInv'
  <1>1. ASSUME UNCHANGED <<chan, pool, active, l>>,
               hist' \in Seq(SUBSET Node), Len(hist') > 0
        PROVE  RefInv'
    BY <1>1 DEF RefInv
  <1>2. CASE Change
    <2>1. hist' \in Seq(SUBSET Node) /\ Len(hist') > 0
      BY <1>2, ClusterMoves DEF RefInv
    <2> QED
      BY <1>1, <1>2, <2>1 DEF Change, linkVars
  <1>3. CASE Break \/ Quiet \/ UNCHANGED vars
    BY <1>1, <1>3 DEF Break, Quiet, vars, linkVars, RefInv
  <1> QED
    BY <1>2, <1>3, TaskRef DEF Next

Shape == {"seeds", "nodes", "version", "endpoints"}

\* Between Refresh and Update the version stays the one that was asked from.
VersionInv ==
    /\ DOMAIN topo = Shape
    /\ topo.version \in {Unknown} \cup 1..Len(hist)
    /\ NodesOf(hist, topo.version) \subseteq DOMAIN topo.nodes
    /\ \A t \in Task : At(t, "asked") \/ At(t, "update") => l[t].start = topo.version
    /\ \A t \in Task : At(t, "update") =>
          /\ l[t].ans.version \in 1..Len(hist)
          /\ DOMAIN l[t].ans.added
               = NodesOf(hist, l[t].ans.version) \ NodesOf(hist, topo.version)
          /\ l[t].ans.removed
               = NodesOf(hist, topo.version) \ NodesOf(hist, l[t].ans.version)

\* What the operations of TopologyCache do to the nodes and the version.
LEMMA RefreshCacheKeeps ==
    ASSUME NEW tp, DOMAIN tp = Shape
    PROVE  /\ DOMAIN RefreshCache(tp) = Shape
           /\ RefreshCache(tp).nodes = tp.nodes /\ RefreshCache(tp).version = tp.version
  BY DEF RefreshCache, Shape

LEMMA SeedsKeep ==
    ASSUME NEW tp, DOMAIN tp = Shape, NEW s
    PROVE  /\ DOMAIN ReplaceSeeds(tp, s) = Shape
           /\ ReplaceSeeds(tp, s).nodes = tp.nodes /\ ReplaceSeeds(tp, s).version = tp.version
  <1> DEFINE q == [tp EXCEPT !.seeds = Dedupe(s)]
  <1>1. DOMAIN q = Shape /\ q.nodes = tp.nodes /\ q.version = tp.version
    BY DEF Shape
  <1> QED
    BY <1>1, RefreshCacheKeeps DEF ReplaceSeeds

LEMMA EndpointRecorded ==
    ASSUME NEW tp, DOMAIN tp = Shape, NEW n, NEW e
    PROVE  /\ DOMAIN RecordNodeEndpoint(tp, n, e) = Shape
           /\ DOMAIN RecordNodeEndpoint(tp, n, e).nodes = DOMAIN tp.nodes \cup {n}
           /\ RecordNodeEndpoint(tp, n, e).version = tp.version
  <1> DEFINE f == [m \in DOMAIN tp.nodes \cup {n} |->
                     IF m = n THEN Dedupe(Append(EndpointsForNode(tp, n), e)) ELSE tp.nodes[m]]
             q == [tp EXCEPT !.nodes = f]
  <1>1. DOMAIN f = DOMAIN tp.nodes \cup {n}
    OBVIOUS
  <1>2. RecordNodeEndpoint(tp, n, e) = RefreshCache(q)
    BY DEF RecordNodeEndpoint
  <1> HIDE DEF f
  <1>3. DOMAIN q = Shape /\ q.nodes = f /\ q.version = tp.version
    BY DEF Shape
  <1> QED
    BY <1>1, <1>2, <1>3, RefreshCacheKeeps

LEMMA UpdateApplied ==
    ASSUME NEW tp, DOMAIN tp = Shape, NEW v, NEW added, NEW removed
    PROVE  LET u == ApplyDiscoveryUpdate(tp, v, added, removed)
           IN  /\ DOMAIN u = Shape /\ u.version = v
               /\ DOMAIN u.nodes = (DOMAIN tp.nodes \cup DOMAIN added) \ removed
  <1> DEFINE f == [n \in (DOMAIN tp.nodes \cup DOMAIN added) \ removed |->
                     IF n \in DOMAIN added THEN Dedupe(added[n]) ELSE tp.nodes[n]]
             q == [tp EXCEPT !.version = v, !.nodes = f]
  <1>1. DOMAIN f = (DOMAIN tp.nodes \cup DOMAIN added) \ removed
    OBVIOUS
  <1>2. ApplyDiscoveryUpdate(tp, v, added, removed) = RefreshCache(q)
    BY DEF ApplyDiscoveryUpdate
  <1> HIDE DEF f
  <1>3. DOMAIN q = Shape /\ q.nodes = f /\ q.version = v
    BY DEF Shape
  <1> QED
    BY <1>1, <1>2, <1>3, RefreshCacheKeeps

LEMMA InitVersion == Init => VersionInv
  <1> SUFFICES ASSUME Init PROVE VersionInv
    OBVIOUS
  <1>1. PICK n : topo = RecordNodeEndpoint(NewTopology(Seeds), n, Home[n])
    BY DEF Init
  <1>2. DOMAIN NewTopology(Seeds) = Shape /\ NewTopology(Seeds).version = Unknown
    BY DEF NewTopology, Shape
  <1>3. DOMAIN topo = Shape /\ topo.version = Unknown
    BY <1>1, <1>2, EndpointRecorded
  <1>4. \A t \in Task : ~At(t, "asked") /\ ~At(t, "update")
    BY DEF Init, At
  <1> QED
    BY <1>3, <1>4 DEF VersionInv, NodesOf

\* Only the holder of the discovery guard has asked and not updated yet.
LEMMA AskedHolds ==
    ASSUME StackInv, NEW t \in Task, At(t, "asked") \/ At(t, "update")
    PROVE  dguard = t
  <1>1. stk[t] # <<>> /\ Head(stk[t]) \in Closing
    BY DEF At, Closing
  <1> QED
    BY <1>1, HeadOf

LEMMA HeadAfter ==
    ASSUME StackInv, NEW t \in Task, stk[t] # <<>>, NEW r \in Seq(Plain), Then(t, r)
    PROVE  ~At(t, "asked")' /\ ~At(t, "update")'
  <1>1. Tail(stk[t]) \in Seq(Step) /\ Clean(Tail(stk[t])) /\ r \in Seq(Step) /\ Clean(r)
    BY HeadOf, PlainSeq
  <1>2. Clean(r \o Tail(stk[t]))
    BY <1>1, CleanJoined
  <1>3. stk'[t] = r \o Tail(stk[t])
    BY DEF Then, StackInv
  <1>4. stk'[t] # <<>> => Head(stk'[t]) \notin HeadOnly
    BY <1>1, <1>2, <1>3, FirstOf, ZenonT(30)
  <1> QED
    BY <1>4 DEF At, HeadOnly

\* No other step leads to "asked" or "update".
LEMMA OnlyRefresh ==
    ASSUME StackInv, StackInv', NEW t \in Task, ~Refresh(t), ~RefreshAnswered(t),
           Start(t) \/ Work(t) \/ Locking(t) \/ Cancel(t)
    PROVE  ~At(t, "asked")' /\ ~At(t, "update")'
  <1>1. ASSUME At(t, "asked")' \/ At(t, "update")' PROVE dguard' = t
    <2>1. stk'[t] # <<>> /\ Head(stk'[t]) \in Closing /\ stk'[t] \in Seq(Step)
      BY <1>1 DEF At, Closing, StackInv
    <2>2. \A s \in Seq(Step) : s # <<>> => Head(s) = s[1] /\ 1 \in 1..Len(s)
      OBVIOUS
    <2>3. stk'[t][1] \in Closing /\ 1 \in 1..Len(stk'[t])
      BY <2>1, <2>2
    <2> QED
      BY <2>3 DEF StackInv, Shut
  <1> SUFFICES ASSUME dguard' = t PROVE ~At(t, "asked")' /\ ~At(t, "update")'
    BY <1>1
  <1>2. t # None
    BY DiscoveryAssumption
  <1>3. CASE Return(t)
    BY <1>3 DEF Return, StackInv, At
  <1>4. CASE RefreshFails(t) \/ Release(t) \/ Cancel(t)
    BY <1>2, <1>4 DEF RefreshFails, Release, Cancel
  <1>5. CASE PruneNodes(t) \/ StoreByNode(t) \/ PrunePool(t) \/ Close(t)
             \/ CandLoad(t) \/ CandStore(t)
    <2>1. stk[t] # <<>> /\ \E r \in {<<>>, <<"byNode">>, <<"candStore">>} : Then(t, r)
      BY <1>5 DEF PruneNodes, StoreByNode, PrunePool, Close, CandLoad, CandStore, Skip, At
    <2>2. /\ <<>> \in Seq(Plain)
          /\ <<"byNode">> \in Seq(Plain)
          /\ <<"candStore">> \in Seq(Plain)
      BY DEF Plain, Inner
    <2> QED
      BY <2>1, <2>2, HeadAfter
  <1>6. CASE Update(t)
    <2> DEFINE a == <<"candLoad", "release">>
               b == <<"pruneNodes", "prunePool", "close", "candLoad", "release">>
    <2>1. stk[t] # <<>> /\ (Then(t, a) \/ Then(t, b))
      BY <1>6 DEF Update, At
    <2>2. /\ a \in Seq(Step) /\ a # <<>> /\ a[1] = "candLoad"
          /\ b \in Seq(Step) /\ b # <<>> /\ b[1] = "pruneNodes"
      BY DEF Step, Plain, Inner, Closing
    <2> HIDE DEF a, b
    <2>3. Tail(stk[t]) \in Seq(Step)
      BY <2>1, HeadOf
    <2>4. stk'[t] = a \o Tail(stk[t]) \/ stk'[t] = b \o Tail(stk[t])
      BY <2>1 DEF Then, StackInv
    <2>5. Head(stk'[t]) \in {"candLoad", "pruneNodes"}
      BY <2>2, <2>3, <2>4, FirstOf
    <2> QED
      BY <2>5 DEF At
  <1>7. ASSUME stk[t] # <<>>, Head(stk[t]) \notin Closing \cup Inner, UNCHANGED dguard
        PROVE  FALSE
    BY <1>7, HeadOf
  <1>8. CASE Start(t)
    BY <1>7, <1>8 DEF Start, ObserveChange, Lookup, Reconnect, At, guards, Closing, Inner
  <1>9. CASE Locking(t)
    BY <1>7, <1>9 DEF Locking, Prime, ConnectOne, ReconnectFrom, ConnectAny, At, Closing, Inner
  <1>10. CASE Invalidate(t) \/ Apply(t) \/ StoreFlag(t) \/ StoreSnapshot(t) \/ FetchAnswered(t)
              \/ FetchFails(t) \/ Resolve(t) \/ HandleChange(t)
    BY <1>7, <1>10 DEF Invalidate, Apply, StoreFlag, StoreSnapshot, FetchAnswered, FetchFails,
       Resolve, HandleChange, At, guards, Closing, Inner
  <1>11. CASE PrimeList(t) \/ DialOk(t) \/ DialFails(t) \/ Identity(t) \/ Index(t)
              \/ Connected(t) \/ Route(t) \/ AnyList(t) \/ Adopt(t) \/ PruneSeeds(t)
    BY <1>7, <1>11 DEF PrimeList, DialOk, DialFails, Identity, Index, Connected, Route, AnyList,
       Adopt, PruneSeeds, At, guards, Closing, Inner
  <1> QED
    BY <1>3, <1>4, <1>5, <1>6, <1>8, <1>9, <1>10, <1>11 DEF Work

\* The cluster's history only grows, and the topology either keeps its version and its
\* nodes or is updated by the holder of the guard.
LEMMA TopoStep ==
    ASSUME Node \subseteq Capable, RefInv, VersionInv, NEW t \in Task, ~Update(t),
           Start(t) \/ Work(t) \/ Locking(t) \/ Cancel(t)
    PROVE  /\ DOMAIN topo' = Shape /\ topo'.version = topo.version
           /\ DOMAIN topo.nodes \subseteq DOMAIN topo'.nodes
  <1>1. DOMAIN topo = Shape
    BY DEF VersionInv
  <1> SUFFICES ASSUME ~UNCHANGED topo
               PROVE  /\ DOMAIN topo' = Shape /\ topo'.version = topo.version
                      /\ DOMAIN topo.nodes \subseteq DOMAIN topo'.nodes
    BY <1>1
  <1>2. CASE Identity(t)
    <2>1. PICK n, e : topo' = RecordNodeEndpoint(topo, n, e)
      BY <1>2 DEF Identity
    <2> QED
      BY <1>1, <2>1, EndpointRecorded
  <1>3. CASE ReconnectFrom(t)
    <2>1. PICK s : topo' = ReplaceSeeds(topo, s)
      BY <1>3 DEF ReconnectFrom
    <2> QED
      BY <1>1, <2>1, SeedsKeep
  <1>4. CASE HandleChange(t)
    <2> DEFINE R == [addr : {Home[n] : n \in Node}, node : Node]
    <2>0. chan \in Seq(R) /\ active \in 1..Len(chan)
      BY DEF RefInv
    <2>1. chan[active].node \in Node
      <3>1. \A r \in R : r.node \in Node
        OBVIOUS
      <3> HIDE DEF R
      <3>2. chan[active] \in R
        BY <2>0
      <3> QED
        BY <3>1, <3>2
    <2> QED
      BY <1>4, <2>1 DEF HandleChange
  <1>5. CASE Start(t) \/ Cancel(t) \/ (Locking(t) /\ ~ReconnectFrom(t))
    BY <1>5 DEF Start, ObserveChange, Lookup, Reconnect, Cancel, Locking, Refresh, Prime,
       ConnectOne, ConnectAny
  <1>6. CASE Work(t) /\ ~Identity(t) /\ ~HandleChange(t)
    BY <1>6 DEF Work, Return, Invalidate, Apply, StoreFlag, StoreSnapshot, FetchAnswered,
       FetchFails, Resolve, RefreshAnswered, RefreshFails, PruneNodes, StoreByNode, PrunePool,
       Close, CandLoad, CandStore, Release, PrimeList, DialOk, DialFails, Index, Connected,
       Route, AnyList, Adopt, PruneSeeds
  <1> QED
    BY <1>2, <1>3, <1>4, <1>5, <1>6 DEF Work, Locking

LEMMA TaskVersion ==
    ASSUME Node \subseteq Capable, StackInv, StackInv', LocalInv, RefInv, VersionInv,
           NEW t \in Task, Start(t) \/ Work(t) \/ Locking(t) \/ Cancel(t)
    PROVE  VersionInv'
  <1>1. UNCHANGED hist /\ Len(hist) \in Nat \ {0}
    BY ChanStep DEF RefInv
  <1>2. \A u \in Task \ {t} : l'[u] = l[u] /\ \A x : At(u, x)' <=> At(u, x)
    BY StepVia, OthersStay
  <1>3. CASE Update(t)
    <2>1. At(t, "update") /\ topo' = ApplyDiscoveryUpdate(topo, l[t].ans.version,
                                       l[t].ans.added, l[t].ans.removed)
      BY <1>3 DEF Update
    <2>2. DOMAIN topo = Shape
      BY DEF VersionInv
    <2>3. /\ DOMAIN topo' = Shape /\ topo'.version = l[t].ans.version
          /\ DOMAIN topo'.nodes = (DOMAIN topo.nodes \cup DOMAIN l[t].ans.added)
                                    \ l[t].ans.removed
      <3> DEFINE v == l[t].ans.version
                 a == l[t].ans.added
                 r == l[t].ans.removed
                 u == ApplyDiscoveryUpdate(topo, v, a, r)
      <3>1. topo' = u
        BY <2>1
      <3> HIDE DEF v, a, r
      <3>2. /\ DOMAIN u = Shape /\ u.version = v
            /\ DOMAIN u.nodes = (DOMAIN topo.nodes \cup DOMAIN a) \ r
        BY <2>2, UpdateApplied
      <3> HIDE DEF u
      <3> QED
        BY <3>1, <3>2 DEF v, a, r
    <2>4. topo'.version \in 1..Len(hist)
      BY <2>1, <2>3 DEF VersionInv
    <2>5. NodesOf(hist, topo'.version) \subseteq DOMAIN topo'.nodes
      BY <2>1, <2>3 DEF VersionInv
    <2>6. \A u \in Task : ~At(u, "asked")' /\ ~At(u, "update")'
      <3>1. ~Refresh(t) /\ ~RefreshAnswered(t)
        BY <2>1 DEF Refresh, RefreshAnswered, At
      <3>2. ~At(t, "asked")' /\ ~At(t, "update")'
        BY <1>3, <3>1, OnlyRefresh
      <3> QED
        BY <1>2, <2>1, <3>2, AskedHolds
    <2> QED
      BY <1>1, <2>3, <2>4, <2>5, <2>6 DEF VersionInv
  <1>4. CASE ~Update(t)
    <2>1. /\ DOMAIN topo' = Shape /\ topo'.version = topo.version
          /\ DOMAIN topo.nodes \subseteq DOMAIN topo'.nodes
      BY <1>4, TopoStep
    <2>2. ASSUME At(t, "asked")' \/ At(t, "update")'
          PROVE  l'[t].start = topo.version
      <3>1. Refresh(t) \/ RefreshAnswered(t)
        BY <2>2, OnlyRefresh
      <3>2. CASE Refresh(t)
        BY <3>2, FieldNames DEF Refresh, Set, LocalInv
      <3>3. CASE RefreshAnswered(t)
        <4>1. l'[t].start = l[t].start /\ At(t, "asked")
          BY <3>3, FieldNames DEF RefreshAnswered, Set, LocalInv
        <4> QED
          BY <4>1 DEF VersionInv
      <3> QED
        BY <3>1, <3>2, <3>3
    <2>3. ASSUME At(t, "update")'
          PROVE  /\ l'[t].ans.version \in 1..Len(hist)
                 /\ DOMAIN l'[t].ans.added
                      = NodesOf(hist, l'[t].ans.version) \ NodesOf(hist, topo.version)
                 /\ l'[t].ans.removed
                      = NodesOf(hist, topo.version) \ NodesOf(hist, l'[t].ans.version)
      <3>1. Refresh(t) \/ RefreshAnswered(t)
        BY <2>3, OnlyRefresh
      <3>2. CASE Refresh(t)
        <4>1. stk[t] # <<>> /\ stk'[t] = <<"asked">> \o Tail(stk[t])
          BY <3>2 DEF Refresh, Then, At, StackInv
        <4>2. <<"asked">> \in Seq(Step) /\ <<"asked">> # <<>> /\ <<"asked">>[1] = "asked"
          BY DEF Step, HeadOnly
        <4>3. Head(stk'[t]) = "asked"
          BY <4>1, <4>2, HeadOf, FirstOf
        <4> QED
          BY <2>3, <4>3 DEF At
      <3>3. CASE RefreshAnswered(t)
        <4>1. l'[t].ans = NodeEndpoints(topo.version)
          BY <3>3, FieldNames DEF RefreshAnswered, Set, LocalInv, VersionInv
        <4>2. /\ l'[t].ans.version = Len(hist)
              /\ DOMAIN l'[t].ans.added = Cluster \ NodesOf(hist, topo.version)
              /\ l'[t].ans.removed = NodesOf(hist, topo.version) \ Cluster
          BY <4>1, Difference
        <4>3. Cluster = NodesOf(hist, Len(hist))
          BY <1>1 DEF Cluster, NodesOf, Unknown
        <4>4. Len(hist) \in 1..Len(hist)
          BY <1>1
        <4> QED
          BY <4>2, <4>3, <4>4
      <3> QED
        BY <3>1, <3>2, <3>3
    <2>4. NodesOf(hist, topo'.version) \subseteq DOMAIN topo'.nodes
      BY <2>1 DEF VersionInv
    <2>5. \A u \in Task : At(u, "asked")' \/ At(u, "update")' => l'[u].start = topo'.version
      BY <1>2, <2>1, <2>2 DEF VersionInv
    <2>6. \A u \in Task : At(u, "update")' =>
             /\ l'[u].ans.version \in 1..Len(hist)
             /\ DOMAIN l'[u].ans.added
                  = NodesOf(hist, l'[u].ans.version) \ NodesOf(hist, topo.version)
             /\ l'[u].ans.removed
                  = NodesOf(hist, topo.version) \ NodesOf(hist, l'[u].ans.version)
      BY <1>2, <2>3 DEF VersionInv
    <2> QED
      BY <1>1, <2>1, <2>4, <2>5, <2>6 DEF VersionInv
  <1> QED
    BY <1>3, <1>4

LEMMA NextLocal == ASSUME LocalInv, [Next]_vars PROVE LocalInv'
  <1>1. ASSUME NEW t \in Task, Start(t) \/ Work(t) \/ Locking(t) \/ Cancel(t),
               ~CandLoad(t), ~CandStore(t)
        PROVE  LocalInv'
    BY <1>1, StepLocal DEF Local, LocalInv
  <1>2. ASSUME NEW t \in Task, NEW v, l' = [l EXCEPT ![t]["list"] = v] PROVE LocalInv'
    BY <1>2 DEF LocalInv
  <1>3. ASSUME NEW t \in Task, CandLoad(t) \/ CandStore(t) PROVE LocalInv'
    BY <1>2, <1>3 DEF CandLoad, CandStore, Set
  <1>4. CASE Change \/ Break \/ Quiet \/ UNCHANGED vars
    BY <1>4 DEF Change, Break, Quiet, vars, LocalInv
  <1> QED
    BY <1>1, <1>3, <1>4 DEF Next

LEMMA NextVersion ==
    ASSUME Node \subseteq Capable, StackInv, StackInv', LocalInv, RefInv, VersionInv, [Next]_vars
    PROVE  VersionInv'
  <1>1. CASE Change
    <2>1. /\ Len(hist) \in Nat /\ Len(hist') = Len(hist) + 1
          /\ \A v \in 1..Len(hist) : hist'[v] = hist[v]
      BY <1>1, ClusterMoves DEF RefInv
    <2>2. UNCHANGED <<topo, l>> /\ \A t \in Task : \A x : At(t, x)' <=> At(t, x)
      BY <1>1 DEF Change, At
    <2>3. 1..Len(hist) \subseteq 1..Len(hist')
      <3>1. \A n \in Nat : 1..n \subseteq 1..(n + 1)
        OBVIOUS
      <3> QED
        BY <2>1, <3>1
    <2>4. \A v \in {Unknown} \cup 1..Len(hist) : NodesOf(hist', v) = NodesOf(hist, v)
      BY <2>1 DEF NodesOf
    <2>5. /\ topo'.version \in {Unknown} \cup 1..Len(hist')
          /\ NodesOf(hist', topo'.version) \subseteq DOMAIN topo'.nodes
      BY <2>2, <2>3, <2>4 DEF VersionInv
    <2>6. ASSUME NEW t \in Task, At(t, "update")'
          PROVE  /\ l'[t].ans.version \in 1..Len(hist')
                 /\ DOMAIN l'[t].ans.added
                      = NodesOf(hist', l'[t].ans.version) \ NodesOf(hist', topo'.version)
                 /\ l'[t].ans.removed
                      = NodesOf(hist', topo'.version) \ NodesOf(hist', l'[t].ans.version)
      BY <2>2, <2>3, <2>4, <2>6 DEF VersionInv
    <2> QED
      BY <2>2, <2>5, <2>6 DEF VersionInv
  <1>2. CASE Break \/ Quiet \/ UNCHANGED vars
    <2>1. UNCHANGED <<topo, l, hist>> /\ \A t \in Task : \A x : At(t, x)' <=> At(t, x)
      BY <1>2 DEF Break, Quiet, vars, At
    <2> QED
      BY <2>1 DEF VersionInv
  <1> QED
    BY <1>1, <1>2, TaskVersion DEF Next

\* When every server names the nodes of a topology, no answer is lost or applied twice
\* between the version a refresh asked from and the one it stores: the client always knows
\* the nodes of the version it will ask the next delta from.  (On a connection without
\* NODE_ENDPOINTS handle_topology_change stores a version whose nodes nobody named.)
THEOREM VersionKnown ==
    ASSUME Node \subseteq Capable
    PROVE  Spec => []KnowsItsVersion
  <1> DEFINE IInv == StackInv /\ LocalInv /\ RefInv /\ VersionInv
  <1>1. Init => IInv
    BY InitStack, InitList, InitRef, InitVersion
  <1>2. IInv /\ [Next]_vars => IInv'
    <2> SUFFICES ASSUME IInv, [Next]_vars PROVE IInv'
      OBVIOUS
    <2>1. StackInv'
      BY NextStack
    <2>2. LocalInv'
      BY NextLocal
    <2>3. RefInv' /\ VersionInv'
      BY <2>1, NextRef, NextVersion
    <2> QED
      BY <2>1, <2>2, <2>3
  <1>3. IInv => KnowsItsVersion
    BY DEF VersionInv, KnowsItsVersion, NodesOf
  <1> QED
    BY <1>1, <1>2, <1>3, PTL DEF Spec

=============================================================================
