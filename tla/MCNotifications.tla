--------------------------- MODULE MCNotifications ---------------------------
(* The two halves of notification delivery in one run: a behaviour follows    *)
(* either the listener table of one connection (Notifications) or one name of *)
(* the client's registry of listeners (Listeners).                            *)
EXTENDS Notifications, Listeners

VARIABLE half  \* which one

mcVars == <<half, vars, lsVars>>

MCInit ==
  /\ half \in {"connection", "registry"}
  /\ Init /\ LsInit

Connection == half = "connection" /\ Next /\ UNCHANGED <<half, lsVars>>
Registry == half = "registry" /\ LsNext /\ UNCHANGED <<half, vars>>

On(h, action) == half = h /\ action

(* Fairness and LsFairness, each in its half.                                 *)
MCFairness ==
  /\ WF_vars(On("connection", DispatchLookup)) /\ WF_vars(On("connection", DispatchPush))
  /\ WF_vars(On("connection", Register)) /\ WF_vars(On("connection", Unregister))
  /\ WF_vars(On("connection", BreakDown))
  /\ \A i \in Listener : WF_lsVars(On("registry", ListenerTask(i)))

MCSpec == MCInit /\ [][Connection \/ Registry]_mcVars /\ MCFairness
==============================================================================
