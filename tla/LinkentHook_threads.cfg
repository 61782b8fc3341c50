SPECIFICATION FairSpec
CONSTANTS
  Thread = {s, t, u}
  Server = s
  None = None
INVARIANTS TypeOK OriginalInPlace FlagTellsBytes
PROPERTIES GameFunctionsFound MutexComesFree HookLastsAlone
CHECK_DEADLOCK FALSE
