------------------------- MODULE MCPluginLifecycle -------------------------
(* Values of the constants of PluginLifecycle for TLC.                     *)
EXTENDS PluginLifecycle, TLC

\* A plugin that may come, go and pause at any time.
FreeInfo == [loadable |-> PT_ANYTIME, unloadable |-> PT_ANYPAUSE]

\* A plugin that comes and goes between maps only.
MapInfo == [loadable |-> PT_CHANGELEVEL, unloadable |-> PT_CHANGELEVEL]

\* A plugin that can be loaded between maps, and never unloaded after startup.
StuckInfo == [loadable |-> PT_CHANGELEVEL, unloadable |-> PT_STARTUP]

\* A plugin that only loads at startup.
EarlyInfo == [loadable |-> PT_STARTUP, unloadable |-> PT_ANYTIME]

Map      == {MapInfo}
AllInfos == {FreeInfo, MapInfo, StuckInfo, EarlyInfo}

Symmetry == Permutations(Path)
=============================================================================
