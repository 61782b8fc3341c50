SPECIFICATION Spec
CONSTANTS
  Path = {a, b}
  MaxPlugins = 2
  Info <- Map
  NoInfo = NoInfo
  NoPath = NoPath
  RequestTimes = {2, 3}
SYMMETRY Symmetry
INVARIANTS TypeOK HookedLive InfoLive UniquePath
PROPERTIES ContractKept PendingKept
CHECK_DEADLOCK FALSE
