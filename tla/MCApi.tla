-------------------------------- MODULE MCApi --------------------------------
(* Six parts of the client that share no state, checked in one run: a        *)
(* behaviour exercises one of them, and the others stay as they started.      *)
EXTENDS Operations, ClusterView, Structures, Throttle, Connect, Events, TLC

VARIABLE part  \* which one
apiVars == <<part, opVars, cvVars, stVars, thVars, cnVars, evVars>>

(* The parts that are not exercised start in one state only.                  *)
ApiInit ==
  /\ part \in {"operations", "view", "structures", "throttle", "connect", "events"}
  /\ OpInit /\ CvInit /\ StInit /\ ThInit /\ CnInit /\ EvInit
  /\ part # "operations" => primary = TxNode /\ active = TxNode /\ features = [n \in Node |-> {}]
  /\ part # "view" => topo = CHOOSE h \in Histories : TRUE
  /\ part # "structures" => long = Removed /\ ~there

ApiNext ==
  \/ part = "operations" /\ OpNext /\ UNCHANGED <<part, cvVars, stVars, thVars, cnVars, evVars>>
  \/ part = "view" /\ CvNext /\ UNCHANGED <<part, opVars, stVars, thVars, cnVars, evVars>>
  \/ part = "structures" /\ StNext /\ UNCHANGED <<part, opVars, cvVars, thVars, cnVars, evVars>>
  \/ part = "throttle" /\ ThNext /\ UNCHANGED <<part, opVars, cvVars, stVars, cnVars, evVars>>
  \/ part = "connect" /\ CnNext /\ UNCHANGED <<part, opVars, cvVars, stVars, thVars, evVars>>
  \/ part = "events" /\ EvNext /\ UNCHANGED <<part, opVars, cvVars, stVars, thVars, cnVars>>

ApiSpec == ApiInit /\ [][ApiNext]_apiVars

-----------------------------------------------------------------------------
(* ClusterView: node 3 is a client node.                                      *)
MCHistories == {<<{1, 2}, {2}, {2, 3}>>}
MCClientNode == {3}
MCCalls ==
  { <<"node_ids", <<>> >>,
    <<"nodes", << <<"Oldest">>, <<"Others", {1}>>, <<"Random">> >> >>,
    <<"nodes", << <<"Youngest">>, <<"Clients">> >> >>,
    <<"invoke", << <<"NodeIds", {1, 2}>>, <<"Servers">> >> >> }
CallSymmetry == Permutations(Callers) \cup Permutations(Workers)

(* Connect: addresses of each form, accepted or not; lists of two; every way  *)
(* of authenticating; servers that know more and less than the client.        *)
Conf(addresses, user, password, attributes, dataCenter) ==
  [addresses |-> addresses, user |-> user, password |-> password,
   attributes |-> attributes, dataCenter |-> dataCenter]
MCConfs ==
  { Conf(<<s>>, None, None, <<>>, FALSE) :
      s \in { <<>>, <<"h">>, <<":", "one">>, <<"h", ":", "three_two">>, <<"h", ":", "h">>,
              <<"h", ":", "h", ":", "one">>, <<"[", "h", ":", "h", "]">>,
              <<"[", "h", "]", "one">>, <<"[", "h">>, <<"[", "[", "h", "]", ":", "one">> } }
  \cup { Conf(<< <<"[", "h", ":", "h", "]", ":", "two_three">>, <<"h">> >>, u, p, a, FALSE) :
           u \in {None, 2}, p \in {None, 3}, a \in {<<>>, << <<1, 1>>, <<3, 0>> >>} }
  \cup { Conf(<< <<"h", ":", "three">>, <<"h", ":", "two">> >>, u, None, << <<2, 1>>, <<2, 1>> >>, TRUE) :
           u \in {None, 2} }
MCReplies ==
  { [bits |-> b, accept |-> TRUE, text |-> 0, status |-> 0] :
      b \in {{}, {3}, {1, 8, 15}, 0..19, 0..23} }
  \cup { [bits |-> {}, accept |-> FALSE, text |-> t, status |-> s] :
           t \in {None, AuthText, UserText}, s \in {0, 1, 2000} }
MCFrames ==
  { f \in [id : {7}, version : {0, 5}, opcode : {0, 9}, status : {0, 1}, text : {None, 0, 3},
           payload : {<<>>, Num(2, 2)}] : IF f.status = 0 THEN f.text = 0 ELSE f.payload = <<>> }
==============================================================================
