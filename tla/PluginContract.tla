---------------------------- MODULE PluginContract ----------------------------
(***************************************************************************)
(* What Metamod-R promises the code of its plugins, whatever commands,     *)
(* requests and refreshes drive it (PluginLifecycle implements it, and so  *)
(* does PluginRequests until an action is dropped during Meta_Detach):     *)
(* the module in a slot is opened, attached and closed in that order, and  *)
(* the callbacks only ever call into attached modules.  When a module      *)
(* leaves, or is replaced, the very step takes it out of the callbacks and *)
(* puts everything else that is attached in.                               *)
(***************************************************************************)
CONSTANT Slot      \* the places in the plugin list

VARIABLES
  module,   \* what is in each slot: "closed", "open" or "attached"
  callable, \* the slots the callbacks call
  serving   \* FALSE once the server has shut down

vars == <<module, callable, serving>>

Attached == {i \in Slot : module[i] = "attached"}

Init ==
  /\ module = [i \in Slot |-> "closed"]
  /\ callable = {}
  /\ serving = TRUE

Becomes(i, state) ==
  /\ serving
  /\ module' = [module EXCEPT ![i] = state]
  /\ UNCHANGED serving

\* A module is opened, or attached, or both; the callbacks stay as they are,
\* are recompiled with it, or were recompiled just before.
Load(i) ==
  /\ module[i] # "attached"
  /\ \E state \in {"open", "attached"} : Becomes(i, state)
  /\ callable' \in {callable, Attached, Attached'}

\* An attached module leaves together with its callbacks.
Unload(i) ==
  /\ module[i] # "closed"
  /\ Becomes(i, "closed")
  /\ callable' = Attached \ {i}

\* A module that is not attached can be closed without recompiling.
Discard(i) ==
  /\ module[i] = "open"
  /\ Becomes(i, "closed")
  /\ UNCHANGED callable

\* Closed and opened again in one step: the new module is not called yet.
Replace(i) ==
  /\ module[i] # "closed"
  /\ \E state \in {"open", "attached"} : Becomes(i, state)
  /\ callable' = Attached \ {i}

Rehook ==
  /\ serving
  /\ callable' = Attached
  /\ UNCHANGED <<module, serving>>

\* Shutdown may close modules, and does not care for the callbacks any more.
Stop ==
  /\ serving
  /\ serving' = FALSE
  /\ module' \in [Slot -> {"closed", "open", "attached"}]
  /\ \A i \in Slot : module'[i] \in {module[i], "closed"}
  /\ UNCHANGED callable

Next ==
  \/ \E i \in Slot : Load(i) \/ Unload(i) \/ Discard(i) \/ Replace(i)
  \/ Rehook
  \/ Stop

Spec == Init /\ [][Next]_vars
=============================================================================
