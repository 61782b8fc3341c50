SPECIFICATION Spec
CONSTANTS
  Path = {a}
  MaxPlugins = 1
  Info <- AllInfos
  NoInfo = NoInfo
  NoPath = NoPath
  RequestTimes = {}
INVARIANT RunningIsHooked
CHECK_DEADLOCK FALSE
