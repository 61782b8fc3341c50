-------------------------- MODULE MCPluginRequests --------------------------
(* PluginRequests for TLC.                                                 *)
EXTENDS PluginRequests

\* Bound: all that refused commands leave behind is followed up as long as
\* there are two plugins.  With a third one, PA_UNLOAD is, while a Meta_Detach
\* of the marked plugin runs.
RefusalBound ==
  last > AtStartup =>
    /\ dropped = {}
    /\ \A i \in Slot : /\ plug[i].action # "PA_RELOAD"
                       /\ plug[i].action = "PA_UNLOAD" => Detaching(i)
=============================================================================
