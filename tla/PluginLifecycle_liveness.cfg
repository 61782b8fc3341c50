SPECIFICATION FairSpec
CONSTANTS
  Path = {a}
  MaxPlugins = 2
  Info <- AllInfos
  NoInfo = NoInfo
  NoPath = NoPath
  RequestTimes = {}
PROPERTIES AllowedTimes RunningGetsHooked DelayedLoadEnds
CHECK_DEADLOCK FALSE
