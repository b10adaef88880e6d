------------------------------ MODULE Structures ------------------------------
(* AtomicLong and IgniteSet (data_structures.rs): what the client makes of    *)
(* the server's answers when several tasks work on one structure and a        *)
(* request may be sent again after a connection error.                        *)
(*                                                                            *)
(* A boolean is 0 or 1.  Integers have LongBits bits.                         *)
EXTENDS Integers, FiniteSets

CONSTANTS Workers,   \* tasks
          LongBits,  \* width of an i64
          Elements   \* values a set may have

(* What the proofs need to know of powers of two; a length is an i32, so the   *)
(* values are finitely many.                                                  *)
ASSUME StructuresAssumption ==
  /\ LongBits \in Nat /\ 2^(LongBits - 1) \in Nat /\ 2^(LongBits - 1) > 1
  /\ 2^LongBits = 2 * 2^(LongBits - 1)
  /\ IsFiniteSet(Elements)

MinLong == -(2^(LongBits - 1))
MaxLong == 2^(LongBits - 1) - 1
Long == MinLong..MaxLong
Wrap(x) == MinLong + ((x - MinLong) % 2^LongBits)
Bit(b) == IF b THEN 1 ELSE 0

Removed == MaxLong + 1   \* the structure does not exist
Panic == MaxLong + 2     \* overflow of a build with overflow checks

(* An operation: the method, the request it sends ("" for none), its          *)
(* arguments.                                                                 *)
Call(method, code, arg, expected) ==
  [method |-> method, code |-> code, arg |-> arg, expected |-> expected, of |-> {}]

CreateLong(v) == Call("create", "Create", v, 0)
OpenLong == Call("open", "Exists", 0, 0)
GetLong == Call("get", "Get", 0, 0)
IncrementAndGet == Call("add_and_get", "AddAndGet", 1, 0)
GetAndIncrement == Call("get_and_add", "AddAndGet", 1, 0)
DecrementAndGet == Call("add_and_get", "AddAndGet", -1, 0)
GetAndDecrement == Call("get_and_add", "AddAndGet", -1, 0)
AddAndGet(d) == Call("add_and_get", "AddAndGet", d, 0)
GetAndAdd(d) == Call("get_and_add", "AddAndGet", d, 0)
GetAndSet(v) == Call("get_and_set", "GetAndSet", v, 0)
CompareAndSet(e, v) == Call("compare_and_set", "CompareAndSet", v, e)
CompareAndSetAndGet(e, v) == Call("compare_and_set_and_get", "CompareAndSetAndGet", v, e)
LongRemoved == Call("removed", "Exists", 0, 0)
CloseLong == Call("close", "Remove", 0, 0)

LongCalls ==
  {OpenLong, GetLong, IncrementAndGet, GetAndIncrement, DecrementAndGet, GetAndDecrement,
   LongRemoved, CloseLong}
  \cup (UNION {{CreateLong(v), AddAndGet(v), GetAndAdd(v), GetAndSet(v)} : v \in {MinLong, 1}})
  \cup {CompareAndSet(0, 1), CompareAndSetAndGet(0, 1), CompareAndSetAndGet(0, MinLong)}

(* A call with a list of values; with an empty one some send no request.      *)
SetCall(method, code, of) ==
  [method |-> method, code |-> code, arg |-> 0, expected |-> 0, of |-> of]
UnlessEmpty(call) == IF call.of = {} THEN [call EXCEPT !.code = ""] ELSE call

SetGetOrCreate(config) == SetCall("open", IF config THEN "SetCreate" ELSE "SetExists", {})
Add(v) == SetCall("add", "SetAdd", {v})
AddAll(s) == UnlessEmpty(SetCall("add", "SetAdd", s))
Contains(v) == SetCall("contains", "SetContains", {v})
ContainsAll(s) == UnlessEmpty(SetCall("contains", "SetContains", s))
RemoveOne(v) == SetCall("remove", "SetRemove", {v})
RemoveEach(s) == UnlessEmpty(SetCall("remove", "SetRemove", s))
RetainAll(s) == SetCall("retain", "SetRetain", s)
ClearSet == SetCall("clear", "SetClear", {})
SizeOf == SetCall("size", "SetSize", {})
IsEmpty == SetCall("is_empty", "SetSize", {})
SetRemoved == SetCall("removed", "SetExists", {})
CloseSet == SetCall("close", "SetClose", {})

SetCalls ==
  {SetGetOrCreate(TRUE), SetGetOrCreate(FALSE), ClearSet, SizeOf, IsEmpty, SetRemoved, CloseSet}
  \cup (UNION {{Add(v), Contains(v), RemoveOne(v)} : v \in Elements})
  \cup (UNION {{AddAll(s), ContainsAll(s), RemoveEach(s), RetainAll(s)} :
                s \in SUBSET Elements})

(* The server: the new value of the structure and the response.               *)
ServeLong(call, v) ==
  LET to(new, response) == [new |-> new, response |-> response]
  IN CASE call.code = "Create" -> to(IF v = Removed THEN call.arg ELSE v, 0)
       [] call.code = "Exists" -> to(v, Bit(v # Removed))
       [] call.code = "Get" -> to(v, v)
       [] call.code = "AddAndGet" -> to(Wrap(v + call.arg), Wrap(v + call.arg))
       [] call.code = "GetAndSet" -> to(call.arg, v)
       [] call.code = "CompareAndSet" ->
            to(IF v = call.expected THEN call.arg ELSE v, Bit(v = call.expected))
       [] call.code = "CompareAndSetAndGet" -> to(IF v = call.expected THEN call.arg ELSE v, v)
       [] call.code = "Remove" -> to(Removed, 0)

ServeSet(call, s) ==
  LET to(new, response) == [new |-> new, response |-> response]
  IN CASE call.code = "SetAdd" -> to(s \cup call.of, Bit(~(call.of \subseteq s)))
       [] call.code = "SetContains" -> to(s, Bit(call.of \subseteq s))
       [] call.code = "SetRemove" -> to(s \ call.of, Bit(call.of \cap s # {}))
       [] call.code = "SetRetain" -> to(s \cap call.of, Bit(~(s \subseteq call.of)))
       [] call.code = "SetClear" -> to({}, 0)
       [] call.code = "SetSize" -> to(s, Cardinality(s))
       [] call.code = "SetExists" -> to(s, 1)
       [] call.code = "SetCreate" -> to(s, 1)

(* Subtraction of two i64: it wraps, or panics in a checked build.            *)
Minus(x, y) == IF x - y \in Long THEN {x - y} ELSE {Wrap(x - y), Panic}

(* Faulty variant of Returned: the witness is returned as it is.              *)
ReturnedWitness(call, r) ==
  CASE call.method = "get_and_add" -> Minus(r, call.arg)
    [] call.method = "removed" -> {1 - r}
    [] call.method = "is_empty" -> {Bit(r = 0)}
    [] OTHER -> {r}

(* What a method makes of the response.                                       *)
Returned(call, r) ==
  CASE call.method = "get_and_add" -> Minus(r, call.arg)
    [] call.method = "compare_and_set_and_get" -> {IF r = call.expected THEN call.arg ELSE r}
    [] call.method = "removed" -> {1 - r}
    [] call.method = "is_empty" -> {Bit(r = 0)}
    [] OTHER -> {r}

VARIABLES long,   \* value of the atomic long on the server, or Removed
          set,    \* elements of the set; it is there once created
          there,  \* the set exists
          work    \* per task, its call

stVars == <<long, set, there, work>>

NoCall == [at |-> "idle", call |-> OpenLong, was |-> Removed, is |-> Removed, had |-> {},
           has |-> {}, again |-> FALSE, response |-> 0, result |-> 0]

StInit ==
  /\ long \in {Removed, 0, MaxLong} /\ set = {} /\ there \in BOOLEAN
  /\ work = [t \in Workers |-> NoCall]

(* A method sends its request, or has its answer without one.                 *)
StBegin(t, call) ==
  /\ work[t].at = "idle"
  /\ work' = [work EXCEPT ![t] = [NoCall EXCEPT !.call = call,
                                    !.at = IF call.code = "" THEN "done" ELSE "sent"]]
  /\ UNCHANGED <<long, set, there>>

(* The server executes it; on a structure that is not there most are errors.  *)
StServeLong(t) ==
  LET call == work[t].call
      served == ServeLong(call, long)
  IN /\ work[t].at = "sent" /\ call \in LongCalls
     /\ IF long = Removed /\ call.code \notin {"Create", "Exists", "Remove"}
        THEN /\ work' = [work EXCEPT ![t] = [NoCall EXCEPT !.at = "error"]]
             /\ UNCHANGED long
        ELSE /\ long' = served.new
             /\ work' = [work EXCEPT ![t].at = "served", ![t].was = long, ![t].is = long',
                                     ![t].response = served.response]
     /\ UNCHANGED <<set, there>>

StServeSet(t) ==
  LET call == work[t].call
      served == ServeSet(call, set)
  IN /\ work[t].at = "sent" /\ call \in SetCalls
     /\ CASE call.code = "SetClose" ->
               /\ there' = FALSE /\ set' = {}
               /\ work' = [work EXCEPT ![t].at = "served"]
          [] ~there /\ call.code \in {"SetExists", "SetCreate"} ->
               /\ there' = (call.code = "SetCreate") /\ UNCHANGED set
               /\ work' = [work EXCEPT ![t].at = "served",
                                       ![t].response = Bit(there'), ![t].was = Removed]
          [] ~there /\ call.code \notin {"SetExists", "SetCreate", "SetClose"} ->
               /\ work' = [work EXCEPT ![t] = [NoCall EXCEPT !.at = "error"]]
               /\ UNCHANGED <<set, there>>
          [] there /\ call.code # "SetClose" ->
               /\ set' = served.new /\ UNCHANGED there
               /\ work' = [work EXCEPT ![t].at = "served", ![t].had = set, ![t].has = set',
                                       ![t].was = 0, ![t].is = 0,
                                       ![t].response = served.response]
     /\ UNCHANGED long

(* The answer arrives.                                                        *)
StReturn(t) ==
  /\ work[t].at = "served"
  /\ \E result \in Returned(work[t].call, work[t].response) :
       work' = [work EXCEPT ![t].at = "done", ![t].result = result]
  /\ UNCHANGED <<long, set, there>>

(* The connection fails, before or after the server executed the request: it  *)
(* goes out again over the default channel, once in this model.               *)
StResend(t) ==
  /\ work[t].at \in {"sent", "served"} /\ ~work[t].again
  /\ work' = [work EXCEPT ![t].at = "sent", ![t].again = TRUE]
  /\ UNCHANGED <<long, set, there>>

StNext ==
  \/ \E t \in Workers :
       \/ \E call \in LongCalls \cup SetCalls : StBegin(t, call)
       \/ StServeLong(t) \/ StServeSet(t) \/ StReturn(t) \/ StResend(t)

StSpec == StInit /\ [][StNext]_stVars

(* What the methods promise, by their names and Java's documentation, about   *)
(* the value before and after the execution whose answer was received.        *)
Promised(w) ==
  LET call == w.call
  IN CASE call.method \in {"get", "get_and_add", "get_and_set"} -> w.was
       [] call.method \in {"add_and_get", "compare_and_set_and_get"} -> w.is
       [] call.method = "compare_and_set" -> Bit(w.was = call.expected)
       [] call.method = "removed" -> Bit(w.was = Removed)
       [] call.method = "add" -> Bit(w.has # w.had)
       [] call.method \in {"remove", "retain"} -> Bit(w.has # w.had)
       [] call.method = "contains" -> Bit(call.of \subseteq w.had)
       [] call.method = "size" -> Cardinality(w.had)
       [] call.method = "is_empty" -> Bit(w.had = {})
       [] OTHER -> w.result

(* Every method returns what its name says of the execution it was answered   *)
(* for, also when the sum wrapped around on the server and when the witness   *)
(* of a compare-and-set has to be turned into the resulting value.  Only an   *)
(* overflow check may stop it.                                                *)
ResultsAsPromised ==
  \A t \in Workers :
    work[t].at = "done" /\ work[t].call.code # ""
      => \/ work[t].result = Promised(work[t])
         \/ /\ work[t].result = Panic
            /\ work[t].call.method = "get_and_add"
            /\ work[t].is - work[t].call.arg \notin Long
===============================================================================
